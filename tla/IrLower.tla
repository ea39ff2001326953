------------------------------ MODULE IrLower ------------------------------
(***************************************************************************)
(* The lowering of machine instructions to IR (decompile/ir_build.rs), one *)
(* basic block at a time, evaluated as it is emitted.  A lowering state    *)
(* has the SSA value r of every register and byte fragment, the FLAGS      *)
(* value (the value handed to UpdateFlags, or Opaque), the tracked carry   *)
(* cf (the empty set when unknown), df_clear, memory, the outcome of the   *)
(* last branch, and loud: an UNIMPL marker was reached, which traps.       *)
(*                                                                         *)
(* An IR value carries its type t, its number v cut to the type, and the   *)
(* opcode and operands that produced it: the optimiser's rewriting of a    *)
(* flag reader looks at these.                                             *)
(***************************************************************************)
EXTENDS Emu86

TypeWidth(t) == CASE t = "U8" -> B [] t = "U32" -> 2 * W [] OTHER -> W
Val(t, op, v, a, b) == [t |-> t, op |-> op, v |-> Trunc(v, TypeWidth(t)), a |-> a, b |-> b]
Const(k) == Val("Unknown", "Const", k, 0, 0)
InitVal(k) == Val("U16", "Init", k, 0, 0)
Opaque == Val("U16", "InitFlags", 0, 0, 0)
deduce_type_binary(x, y) == IF x.t = y.t \/ y.t = "Unknown" THEN x.t
                            ELSE IF x.t = "Unknown" THEN y.t ELSE "Unknown"

\* What the generated C computes for an IR opcode (ast.rs): the signed
\* opcodes cast both operands by the instruction's own type.
Cast(t, v) == Signed(Trunc(v, IF t = "U32" THEN 2 * W ELSE W), IF t = "U32" THEN 2 * W ELSE W)
Computed(op, a, b, sa, sb) ==
  CASE op = "Add" -> a + b [] op = "Sub" -> a - b
    [] op = "And" -> a & b [] op = "Or" -> a | b [] op = "Xor" -> a ^^ b
    [] op = "Shl" -> a * 2^b [] op = "UShr" -> a \div 2^b [] op = "Shr" -> sa \div 2^sb
    [] op = "UMul" -> a * b [] op = "IMul" -> sa * sb
    [] op = "UDiv" -> a \div b [] op = "URem" -> a % b
    [] op = "IDiv" -> TDiv(sa, sb) [] op = "IRem" -> TRem(sa, sb)
    [] op = "ULt" -> AsInt(a < b) [] op = "ULeq" -> AsInt(a <= b)
    [] op = "UGt" -> AsInt(a > b) [] op = "UGeq" -> AsInt(a >= b)
    [] op = "Lt" -> AsInt(sa < sb) [] op = "Leq" -> AsInt(sa <= sb)
    [] op = "Gt" -> AsInt(sa > sb) [] op = "Geq" -> AsInt(sa >= sb)
    [] op = "Eq" -> AsInt(a = b) [] op = "Neq" -> AsInt(a # b)
    [] op = "Make32" -> Trunc(a, W) * 2^W + Trunc(b, W)
    [] op = "Upper16" -> a \div 2^W [] op = "Lower16" -> a
    [] op = "SignExtTo16" -> Signed(Trunc(a, B), B)
    [] op = "SignExtTo32" -> Signed(Trunc(a, W), W)
    [] op = "Neg" -> -a [] op = "Not" -> -a - 1
    [] op = "Sign" -> AsInt(a \div 2^(W - 1) # 0)
Emit(t, op, x, y) ==
  Val(t, op, Computed(op, x.v, y.v, Cast(t, x.v), Cast(t, y.v)), x.v, y.v)
Emit1(t, op, x) == Emit(t, op, x, x)

-----------------------------------------------------------------------------
(* Operands.                                                                *)
Mask == Const(2^B - 1)
append_byte_split(x) == [hi |-> Emit("U16", "And", Emit("U16", "UShr", x, Const(B)), Mask),
                         lo |-> Emit("U16", "And", x, Mask)]
LowOf == [AX |-> "AL", BX |-> "BL", CX |-> "CL", DX |-> "DL"]
HighOf == [AX |-> "AH", BX |-> "BH", CX |-> "CH", DX |-> "DH"]

\* Mutant: a write to a fragment leaves the full register as it was.
append_asm_dst_reg_apart(l, x, v) ==
  IF x \in ByteRegs THEN [l EXCEPT !.r[x] = Emit("U16", "And", v, Mask)]
  ELSE IF x \notin DOMAIN LowOf THEN [l EXCEPT !.r[x] = v]
  ELSE [l EXCEPT !.r = [@ EXCEPT ![x] = v, ![LowOf[x]] = append_byte_split(v).lo,
                                 ![HighOf[x]] = append_byte_split(v).hi]]
\* A full write splits into the fragments, a fragment write recomposes the
\* full register.
WriteFull(l, x, v, s) == [l EXCEPT !.r = [@ EXCEPT ![x] = v, ![LowOf[x]] = s.lo, ![HighOf[x]] = s.hi]]
Whole(hi, lo) == Emit("U16", "Or", Emit("U16", "Shl", hi, Const(B)), lo)
WriteFragment(l, x, f, v) ==
  [l EXCEPT !.r = [@ EXCEPT ![x] = v, ![f] = Whole(IF x = HighOf[f] THEN v ELSE l.r[HighOf[f]],
                                                   IF x = LowOf[f] THEN v ELSE l.r[LowOf[f]])]]
append_asm_dst_reg(l, x, v) ==
  IF x \in DOMAIN LowOf THEN WriteFull(l, x, v, append_byte_split(v))
  ELSE IF x \in ByteRegs THEN WriteFragment(l, x, Full[x], Emit("U16", "And", v, Mask))
  ELSE [l EXCEPT !.r[x] = v]

compute_mem_address(l, x) ==
  IF x.reg = "none" THEN Const(x.off)
  ELSE IF x.off = 0 THEN l.r[x.reg]
  ELSE Emit(deduce_type_binary(l.r[x.reg], Const(x.off)), "Add", l.r[x.reg], Const(x.off))
TypeOf(n) == CASE n = B -> "U8" [] n = W -> "U16" [] n = 2 * W -> "U32"
\* The host's pointers are linear: a wide access does not wrap in the segment.
Load(l, seg, off, n) ==
  LET b(i) == Cell(l.mem, Linear(seg.v, Trunc(off.v, W)) + i) * 2^(B * i)
      v == CASE n = B -> b(0) [] n = W -> b(0) + b(1) [] n = 2 * W -> b(0) + b(1) + b(2) + b(3)
  IN Val(TypeOf(n), "Load", v, 0, 0)
Store(l, seg, off, n, x) ==
  LET a == Linear(seg.v, Trunc(off.v, W))
      one == Put(l.mem, a, Trunc(x.v, B))
  IN [l EXCEPT !.mem = IF n = B THEN one ELSE Put(one, a + 1, Trunc(x.v, W) \div 2^B)]

append_asm_src_operand(l, x) ==
  CASE x.k = "reg" -> l.r[x.r] [] x.k = "imm" -> Const(x.v)
    [] x.k = "mem" -> Load(l, l.r[x.sreg], compute_mem_address(l, x), x.n)
append_asm_dst_operand(l, x, v) ==
  IF x.k = "reg" THEN append_asm_dst_reg(l, x.r, v)
  ELSE Store(l, l.r[x.sreg], compute_mem_address(l, x), x.n, v)
Src(l, i, k) == append_asm_src_operand(l, i.o[k])
Dst(l, i, k, v) == append_asm_dst_operand(l, i.o[k], v)
operand_is_word(x) == Size(x) = W

-----------------------------------------------------------------------------
(* Flags and carry.                                                         *)
\* Mutant: the tracked carry outlives a flag writer that does not define it.
append_update_flags_stale(l, v) == [l EXCEPT !.flags = v]
append_update_flags(l, v) == [l EXCEPT !.flags = v, !.cf = {}]
append_update_flags_carry(l, v, c) == [l EXCEPT !.flags = v, !.cf = {c}]
clobber_flags(l) == append_update_flags(l, Opaque)
clobber_flags_carry(l, c) == append_update_flags_carry(l, Opaque, c)
clear_carry(l) == [l EXCEPT !.cf = {}]
CarryIn(l) == CHOOSE c \in l.cf : TRUE
Loud(l) == [l EXCEPT !.loud = TRUE]
to_byte(x) == IF x.op \in {"Init", "Const"} THEN x ELSE Emit("U16", "And", x, Mask)
ByWidth(word, x) == IF word THEN x ELSE to_byte(x)
Below(x, y) == Emit("U16", "ULt", x, y)

set_flags_for_binary(l, op, res, a, b, word) ==
  LET n == IF word THEN W ELSE B
      wide == Emit("U16", "Add", to_byte(a), to_byte(b))
      pos == IF op = "Shl" THEN n - b.v ELSE b.v - 1
      bit == Emit("U16", "And", Emit("U16", "UShr", a, Const(pos)), Const(1))
  IN CASE op = "Add" /\ word ->
            IF res.t = "U16" THEN append_update_flags_carry(l, res, Below(res, a))
            ELSE append_update_flags(l, res)
       [] op = "Add" /\ ~word -> append_update_flags_carry(l, res, Below(Mask, wide))
       [] op = "Sub" ->
            append_update_flags_carry(l, res, Below(ByWidth(word, a), ByWidth(word, b)))
       [] op \in {"And", "Or", "Xor"} -> append_update_flags_carry(l, res, Const(0))
       [] op \in {"Shl", "UShr", "Shr"} ->
            IF b.op # "Const" THEN append_update_flags(l, res)
            ELSE IF b.v = 0 THEN l
            ELSE IF b.v \in 1 .. n THEN append_update_flags_carry(l, res, bit)
            ELSE append_update_flags(l, res)

-----------------------------------------------------------------------------
(* One operator per arm of append_asm_instr_inner.                          *)
simple_unary(l, i) ==
  LET a == Src(l, i, 1)
      l1 == Dst(l, i, 1, Emit1(a.t, IF i.op = "NEG" THEN "Neg" ELSE "Not", a))
  IN IF i.op = "NEG" THEN clear_carry(l1) ELSE l1

simple_binary_operation ==
  [ADD |-> "Add", SUB |-> "Sub", SHL |-> "Shl", SAR |-> "Shr", SHR |-> "UShr",
   AND |-> "And", OR |-> "Or", XOR |-> "Xor"]
\* reduce_xor turns `xor r,r` into a reference to zero before any flag reader
\* is rewritten.
Reduced(i, v) == IF i.op = "XOR" /\ i.o[1] = i.o[2] THEN [v EXCEPT !.op = "Ref"] ELSE v
simple_binary(l, i) ==
  LET op == simple_binary_operation[i.op]
      word == operand_is_word(i.o[1])
      a0 == Src(l, i, 1)
      a == IF op = "Shr" /\ ~word THEN Emit1("U16", "SignExtTo16", a0) ELSE a0
      b == Src(l, i, 2)
      v == Reduced(i, Emit(deduce_type_binary(a, b), op, a, b))
  IN set_flags_for_binary(Dst(l, i, 1, v), op, v, a, b, word)

lower_sbb(l, i) ==
  LET word == operand_is_word(i.o[1])
      a == ByWidth(word, Src(l, i, 1))  b == ByWidth(word, Src(l, i, 2))
      t == Emit("U16", "Sub", a, b)
      v == Emit("U16", "Sub", t, CarryIn(l))
  IN IF l.cf = {} THEN Loud(l)
     ELSE append_update_flags_carry(Dst(l, i, 1, v), v,
            Emit("U16", "Or", Below(a, b), Below(t, CarryIn(l))))

lower_adc(l, i) ==
  LET word == operand_is_word(i.o[1])
      a == ByWidth(word, Src(l, i, 1))  b == ByWidth(word, Src(l, i, 2))
      t == Emit("U16", "Add", a, b)
      v == Emit("U16", "Add", t, CarryIn(l))
      c == IF word THEN Emit("U16", "Or", Below(t, a), Below(v, t)) ELSE Below(Mask, v)
  IN IF l.cf = {} THEN Loud(l) ELSE append_update_flags_carry(Dst(l, i, 1, v), v, c)

\* A rotate through carry is a rotate of w+1 bits, exact for a constant count.
lower_rcl_rcr(l, i) ==
  LET w == Size(i.o[1])  n == i.o[2].v  v == Src(l, i, 1)
      x == Emit("U32", "Or", Emit("U32", "Make32", Const(0), v),
                Emit("U32", "Shl", Emit("U32", "Make32", Const(0), CarryIn(l)), Const(w)))
      fwd == Emit("U32", IF i.op = "RCL" THEN "Shl" ELSE "UShr", x, Const(n))
      back == Emit("U32", IF i.op = "RCL" THEN "UShr" ELSE "Shl", x, Const(w + 1 - n))
      xp == Emit("U32", "Or", fwd, back)
      out == Emit("U16", "And", Emit1("U16", "Lower16", Emit("U32", "UShr", xp, Const(w))), Const(1))
  IN IF i.o[2].k # "imm" \/ l.cf = {} \/ n > w THEN Loud(l)
     ELSE IF n = 0 THEN clobber_flags_carry(Dst(l, i, 1, v), CarryIn(l))
     ELSE clobber_flags_carry(Dst(l, i, 1, Emit1("U16", "Lower16", xp)), out)

lower_rol_ror(l, i) ==
  LET w == Size(i.o[1])  v == Src(l, i, 1)  c == Src(l, i, 2)
      t == deduce_type_binary(v, c)
      n == Emit("U16", "And", c, Const(w - 1))
      m == Emit("U16", "And", Emit("U16", "Sub", Const(w), n), Const(w - 1))
      L == IF i.op = "ROL" THEN n ELSE m
      G == IF i.op = "ROL" THEN m ELSE n
  IN clobber_flags(Dst(l, i, 1, Emit(t, "Or", Emit(t, "Shl", v, L), Emit(t, "UShr", v, G))))

lower_xchg(l, i) == Dst(Dst(l, i, 1, Src(l, i, 2)), i, 2, Src(l, i, 1))
lower_mov(l, i) == Dst(l, i, 1, Src(l, i, 2))
lower_lea(l, i) == Dst(l, i, 1, compute_mem_address(l, i.o[2]))
lower_load_far(l, i) ==
  LET v == Src(l, i, 3)
  IN Dst(Dst(l, i, 1, Emit1("U16", "Upper16", v)), i, 2, Emit1("U16", "Lower16", v))

append_push(l, v) ==
  LET sp == Emit("U16", "Sub", l.r["SP"], Const(2))
  IN Store([l EXCEPT !.r["SP"] = sp], l.r["SS"], sp, W, v)
PopValue(l) == Load(l, l.r["SS"], l.r["SP"], W)
PopDone(l) == [l EXCEPT !.r["SP"] = Emit("U16", "Add", @, Const(2))]
lower_push(l, i) == append_push(l, Src(l, i, 1))
lower_pop(l, i) == Dst(PopDone(l), i, 1, PopValue(l))
lower_pusha(l) ==
  LET all == <<"AX", "CX", "DX", "BX", "SP", "BP", "SI", "DI">>
      P[k \in 0 .. 8] == IF k = 0 THEN l ELSE append_push(P[k - 1], l.r[all[k]])
  IN P[8]
lower_popa(l) ==
  LET all == <<"DI", "SI", "BP", "none", "BX", "DX", "CX", "AX">>
      P[k \in 0 .. 8] ==
        IF k = 0 THEN l
        ELSE LET p == P[k - 1]
             IN IF all[k] = "none" THEN PopDone(p)
                ELSE append_asm_dst_reg(PopDone(p), all[k], PopValue(p))
  IN P[8]
lower_leave(l) ==
  LET p == [l EXCEPT !.r["SP"] = l.r["BP"]] IN [PopDone(p) EXCEPT !.r["BP"] = PopValue(p)]
lower_enter(l, i) ==
  LET p == append_push(l, l.r["BP"])
      sp == Emit("U16", "Sub", p.r["SP"], Src(l, i, 2))
  IN IF i.o[3].v # 0 THEN Loud(l)
     ELSE [p EXCEPT !.r = [@ EXCEPT !["BP"] = p.r["SP"], !["SP"] = sp]]

lower_imul_trunc(l, i) ==
  LET a == Src(l, i, 2)  b == Src(l, i, 3)
  IN clear_carry(Dst(l, i, 1, Emit(deduce_type_binary(a, b), "IMul", a, b)))
lower_mul(l, i) ==
  LET s == i.op = "IMUL"  op == IF s THEN "IMul" ELSE "UMul"
      a == Src(l, i, 2)  b == Src(l, i, 3)
      ext(x) == IF s THEN Emit1("U32", "SignExtTo32", x) ELSE x
      sx(x) == IF s THEN Emit1("U16", "SignExtTo16", x) ELSE x
      p == Emit("U32", op, ext(a), ext(b))
  IN clear_carry(IF operand_is_word(i.o[3])
                 THEN Dst(Dst(l, i, 1, Emit1("U16", "Upper16", p)), i, 2, Emit1("U16", "Lower16", p))
                 ELSE Dst(l, i, 1, Emit("U16", op, sx(a), sx(b))))

lower_div(l, i) ==
  LET s == i.op = "IDIV"
      Q(t, x, y) == Emit(t, IF s THEN "IDiv" ELSE "UDiv", x, y)
      M2(t, x, y) == Emit(t, IF s THEN "IRem" ELSE "URem", x, y)
      hi == Src(l, i, 1)  lo == Src(l, i, 2)  d == Src(l, i, 3)
      a == Emit("U32", "Make32", hi, lo)
      wd == IF s THEN Emit1("U32", "SignExtTo32", d) ELSE d
      ab == Emit("U16", "Or", Emit("U16", "Shl", to_byte(hi), Const(B)), to_byte(lo))
      bd == IF s THEN Emit1("U16", "SignExtTo16", to_byte(d)) ELSE to_byte(d)
  IN clobber_flags(
       IF operand_is_word(i.o[3])
       THEN Dst(Dst(l, i, 2, Emit1("U16", "Lower16", Q("U32", a, wd))),
                i, 1, Emit1("U16", "Lower16", M2("U32", a, wd)))
       ELSE Dst(Dst(l, i, 2, append_byte_split(Q("U16", ab, bd)).lo),
                i, 1, append_byte_split(M2("U16", ab, bd)).hi))

\* INC and DEC rewrite FLAGS and keep the carry that was tracked.
lower_inc_dec(l, i) ==
  LET a == Src(l, i, 1)
      v == Emit(deduce_type_binary(a, Const(1)), IF i.op = "INC" THEN "Add" ELSE "Sub", a, Const(1))
  IN [append_update_flags(Dst(l, i, 1, v), v) EXCEPT !.cf = l.cf]

lower_test(l, i) ==
  LET a == Src(l, i, 1)  b == Src(l, i, 2)
  IN append_update_flags_carry(l, Emit(deduce_type_binary(a, b), "And", a, b), Const(0))
lower_cmp(l, i) ==
  LET a == Src(l, i, 1)  b == Src(l, i, 2)  w == operand_is_word(i.o[1])
  IN append_update_flags_carry(l, Emit(deduce_type_binary(a, b), "Sub", a, b),
                               Below(ByWidth(w, a), ByWidth(w, b)))
lower_cwd(l, i) == Dst(l, i, 1, Emit1("U16", "Upper16", Emit1("U32", "SignExtTo32", Src(l, i, 2))))
lower_cbw(l, i) == Dst(l, i, 1, Emit1("U16", "SignExtTo16", Src(l, i, 2)))
lower_xlat(l, i) ==
  LET base == Src(l, i, 3)  idx == Src(l, i, 1)
  IN Dst(l, i, 1, Load(l, Src(l, i, 2), Emit(deduce_type_binary(base, idx), "Add", base, idx), B))

lower_flag(l, i) ==
  CASE i.op = "STC" -> clobber_flags_carry(l, Const(1))
    [] i.op = "CLC" -> clobber_flags_carry(l, Const(0))
    [] i.op = "CMC" -> IF l.cf = {} THEN clobber_flags(l)
                       ELSE clobber_flags_carry(l, Emit("U16", "Xor", CarryIn(l), Const(1)))
    [] i.op = "STD" -> [l EXCEPT !.df_clear = FALSE]
    [] i.op = "CLD" -> [l EXCEPT !.df_clear = TRUE]

-----------------------------------------------------------------------------
(* String operations.  Everything is conditional on a direction flag that   *)
(* is provably clear; a set one would reverse the pointers.                 *)
advance_string_ptr(l, x, n) ==
  append_asm_dst_reg(l, x, Emit("U16", "Add", l.r[x], Const(n \div B)))
string_op_advance(l, si, di, n) ==
  IF ~l.df_clear THEN Loud(l)
  ELSE LET l1 == IF si THEN advance_string_ptr(l, "SI", n) ELSE l
       IN IF di THEN advance_string_ptr(l1, "DI", n) ELSE l1
lower_string(l, i) ==
  LET n == Size(i.o[1])  a == Src(l, i, 1)  b == Src(l, i, 2)
  IN CASE i.op = "STOS" -> string_op_advance(Dst(l, i, 1, b), FALSE, TRUE, n)
       [] i.op = "MOVS" -> string_op_advance(Dst(l, i, 1, b), TRUE, TRUE, n)
       [] i.op = "LODS" -> string_op_advance(Dst(l, i, 1, b), TRUE, FALSE, n)
       [] i.op = "CMPS" -> string_op_advance(
            append_update_flags(l, Emit(deduce_type_binary(b, a), "Sub", b, a)), TRUE, TRUE, n)
       [] i.op = "SCAS" -> string_op_advance(
            append_update_flags(l, Emit(deduce_type_binary(a, b), "Sub", a, b)), FALSE, TRUE, n)

\* The bulk helpers of the host (hydra's machine.h): the final memory, the
\* final accumulator, or the count that is left.
RECURSIVE Bulk(_, _, _, _, _, _)
Bulk(l, i, si, di, count, n) ==
  LET e == n \div B
      from == Load(l, l.r[i.o[2].sreg], Const(si), n)
      to(x) == Store(l, l.r["ES"], Const(di), n, x)
  IN IF count = 0 THEN l
     ELSE Bulk(IF i.op = "MOVS" THEN to(from) ELSE to(Src(l, i, 2)),
               i, Trunc(si + e, W), Trunc(di + e, W), count - 1, n)
RECURSIVE Scan(_, _, _, _, _, _)
Scan(l, i, si, di, count, n) ==
  LET e == n \div B
      at == Load(l, l.r["ES"], Const(di), n).v
      x == IF i.op = "SCAS" THEN Trunc(Src(l, i, 1).v, n)
           ELSE Load(l, l.r[i.o[2].sreg], Const(si), n).v
  IN IF count = 0 THEN 0
     ELSE IF (x = at) = (i.rep = "NE") THEN count - 1
     ELSE Scan(l, i, Trunc(si + e, W), Trunc(di + e, W), count - 1, n)
RepLods(l, i, cx, n) ==
  IF cx = 0 THEN [Src(l, i, 1) EXCEPT !.t = TypeOf(n), !.op = "RepLods"]
  ELSE [Load(l, l.r[i.o[2].sreg], Const(Trunc(l.r["SI"].v + (cx - 1) * (n \div B), W)), n)
          EXCEPT !.op = "RepLods"]

\* REP: the helper over copies of the pointers, then CX, SI and DI in closed
\* form.
lower_rep_string_op(l, i) ==
  LET n == Size(i.o[1])
      cx == l.r["CX"]
      Adv(ll, x, times) == append_asm_dst_reg(ll, x,
          Emit("U16", "Add", l.r[x], Emit("U16", "UMul", times, Const(n \div B))))
      Zero(ll) == append_asm_dst_reg(ll, "CX", Const(0))
      left == Val("U16", "RepScan", Scan(l, i, l.r["SI"].v, l.r["DI"].v, cx.v, n), 0, 0)
      done == Emit("U16", "Sub", cx, left)
      Cmp(ll) == clobber_flags(append_asm_dst_reg(ll, "CX", left))
      bulk == Bulk(l, i, l.r["SI"].v, l.r["DI"].v, cx.v, n)
  IN IF ~l.df_clear THEN Loud(l)
     ELSE CASE i.op = "MOVS" -> Zero(Adv(Adv(bulk, "SI", cx), "DI", cx))
            [] i.op = "STOS" -> Zero(Adv(bulk, "DI", cx))
            [] i.op = "LODS" -> Zero(Adv(Dst(l, i, 1, RepLods(l, i, cx.v, n)), "SI", cx))
            [] i.op = "CMPS" -> Cmp(Adv(Adv(l, "SI", done), "DI", done))
            [] i.op = "SCAS" -> Cmp(Adv(l, "DI", done))

-----------------------------------------------------------------------------
(* Flag readers after the first optimisation pass (opt.rs): {} is the       *)
(* UNIMPL_FLAGS marker, which makes no claim.                               *)
\* Mutant: jb is taken for a signed comparison.
Relation_signed == [E |-> "Eq", NE |-> "Neq", G |-> "Gt", GE |-> "Geq", L |-> "Lt", LE |-> "Leq",
                    A |-> "UGt", AE |-> "UGeq", B |-> "Lt", BE |-> "ULeq"]
Relation == [E |-> "Eq", NE |-> "Neq", G |-> "Gt", GE |-> "Geq", L |-> "Lt", LE |-> "Leq",
             A |-> "UGt", AE |-> "UGeq", B |-> "ULt", BE |-> "ULeq"]
Tested(op, x, y) == {Emit("U16", op, x, y).v = 1}
simplify_branch_conds(p, cc) ==
  LET op == Relation[cc]
      eq == cc \in {"E", "NE"}
      zero == Const(0)
      lhs == Val("U16", "Ref", p.a, 0, 0)  rhs == Val("U16", "Ref", p.b, 0, 0)
  IN CASE p.op \in {"InitFlags", "Init", "Const"} -> {}
       [] p.op \in {"Add", "Xor", "Neg"} /\ eq -> Tested(op, p, zero)
       [] p.op \in {"And", "Xor"} /\ ~eq ->
            CASE cc = "A" -> Tested("Neq", p, zero) [] cc = "BE" -> Tested("Eq", p, zero)
              [] cc \in {"AE", "B"} -> {} [] OTHER -> Tested(op, p, zero)
       [] p.op = "Sub" -> Tested(op, lhs, rhs)
       [] p.op \in {"And", "Or"} /\ eq -> Tested(op, p, zero)
       [] p.op = "Or" /\ cc = "A" -> Tested("Neq", p, zero)
       [] p.op = "Or" /\ cc = "L" -> {Emit1("U16", "Sign", p).v = 1}
       [] p.op = "Or" /\ cc = "GE" -> {Emit1("U16", "Sign", p).v = 0}
       [] OTHER -> {}
simplify_sign_conds(p) == IF p.op = "InitFlags" THEN {} ELSE {Emit1("U16", "Sign", p).v = 1}
Reader(l, cc) ==
  CASE cc \in DOMAIN Relation -> simplify_branch_conds(l.flags, cc)
    [] cc = "S" -> simplify_sign_conds(l.flags)
    [] cc = "NS" -> {~x : x \in simplify_sign_conds(l.flags)}
    [] OTHER -> {}

append_cond_jump(l, i) == [l EXCEPT !.taken = Reader(l, i.cc)]
append_cond_set(l, i) ==
  LET c == Reader(l, i.cc)
  IN IF c = {} THEN Loud(l) ELSE Dst(l, i, 1, Val("U8", "Eq", AsInt(c = {TRUE}), 0, 0))
lower_loop(l, i) ==
  LET cx == Emit("U16", "Sub", l.r["CX"], Const(1))
      z == CASE i.op = "LOOP" -> {TRUE} [] i.op = "LOOPE" -> Reader(l, "E")
             [] i.op = "LOOPNE" -> Reader(l, "NE")
  IN [append_asm_dst_reg(l, "CX", cx) EXCEPT !.taken = {cx.v # 0 /\ x : x \in z}]
lower_jcxz(l) == [l EXCEPT !.taken = {l.r["CX"].v = 0}]
=============================================================================
