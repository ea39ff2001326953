------------------------------- MODULE Emu86 -------------------------------
(***************************************************************************)
(* One step of the emulator (emu86/step.rs, cpu_*.rs, machine.rs, mem.rs)  *)
(* on a machine record: the registers r, FLAGS f, memory mem (the cells    *)
(* that are not zero), and ok, FALSE after a panic.  An instruction is the *)
(* decoder's: an opcode, up to three operands, a REP prefix.  A branch     *)
(* sets taken instead of IP; interrupts, calls, returns and ports are not  *)
(* part of this module.                                                    *)
(***************************************************************************)
EXTENDS Alu, Sequences, TLC

SegRegs == {"DS", "ES", "SS"}
WordRegs == {"AX", "BX", "CX", "DX", "SI", "DI", "BP", "SP"} \union SegRegs
Full == [AL |-> "AX", AH |-> "AX", BL |-> "BX", BH |-> "BX",
         CL |-> "CX", CH |-> "CX", DL |-> "DX", DH |-> "DX"]
ByteRegs == DOMAIN Full
High == {"AH", "BH", "CH", "DH"}

R(x) == [k |-> "reg", r |-> x]
M(s, x, d, n) == [k |-> "mem", sreg |-> s, reg |-> x, off |-> d, n |-> n]
I(v, n) == [k |-> "imm", v |-> v, n |-> n]
Ins(op, o) == [op |-> op, o |-> o, rep |-> "none"]
Rep(p, op, o) == [op |-> op, o |-> o, rep |-> p]

\* The width in bits of an operand: Value::U8, U16 or U32.
Size(x) == IF x.k # "reg" THEN x.n ELSE IF x.r \in ByteRegs THEN B ELSE W

reg(m, x) == IF x \notin ByteRegs THEN m.r[x]
             ELSE IF x \in High THEN m.r[Full[x]] \div 2^B ELSE Trunc(m.r[Full[x]], B)
reg_set(m, x, v) ==
  IF x \notin ByteRegs THEN [m EXCEPT !.r[x] = v]
  ELSE [m EXCEPT !.r[Full[x]] =
          IF x \in High THEN v * 2^B + Trunc(@, B) ELSE (@ \div 2^B) * 2^B + v]

\* A paragraph has W bytes; the bytes of a wider access wrap at the end of the
\* segment.
Linear(seg, off) == seg * W + off
Cell(mem, a) == IF a \in DOMAIN mem THEN mem[a] ELSE 0
Put(mem, a, v) == IF Cell(mem, a) = v THEN mem ELSE (a :> v) @@ mem
At(seg, off, i) == Linear(seg, Trunc(off + i, W))
mem_read(m, seg, off, n) ==
  LET b(i) == Cell(m.mem, At(seg, off, i)) * 2^(B * i)
  IN CASE n = B -> b(0) [] n = W -> b(0) + b(1) [] n = 2 * W -> b(0) + b(1) + b(2) + b(3)
mem_write(m, seg, off, n, v) ==
  LET one == [m EXCEPT !.mem = Put(@, At(seg, off, 0), Trunc(v, B))]
  IN IF n = B THEN one ELSE [one EXCEPT !.mem = Put(@, At(seg, off, 1), v \div 2^B)]

operand_mem_off(m, x) == Trunc((IF x.reg = "none" THEN 0 ELSE m.r[x.reg]) + x.off, W)
operand_read(m, x) ==
  CASE x.k = "reg" -> reg(m, x.r) [] x.k = "imm" -> x.v
    [] x.k = "mem" -> mem_read(m, m.r[x.sreg], operand_mem_off(m, x), x.n)
operand_write(m, x, v) ==
  IF x.k = "reg" THEN reg_set(m, x.r, v)
  ELSE mem_write(m, m.r[x.sreg], operand_mem_off(m, x), x.n, v)

stack_push(m, v) ==
  LET sp == Trunc(m.r["SP"] - 2, W) IN mem_write(reg_set(m, "SP", sp), m.r["SS"], sp, W, v)
Popped(m) == mem_read(m, m.r["SS"], m.r["SP"], W)
DropWord(m) == reg_set(m, "SP", Trunc(m.r["SP"] + 2, W))

Panic(m) == [m EXCEPT !.ok = FALSE]
Flagged(m, f) == [m EXCEPT !.f = f]

-----------------------------------------------------------------------------
op_binary(m, i) ==
  LET res == binary(i.op, Size(i.o[1]), operand_read(m, i.o[1]), operand_read(m, i.o[2]), m.f)
  IN IF i.op \in {"CMP", "TEST"} THEN Flagged(m, res.f)
     ELSE operand_write(Flagged(m, res.f), i.o[1], res.r)

op_unary(m, i) ==
  LET res == unary(i.op, Size(i.o[1]), operand_read(m, i.o[1]), m.f)
  IN operand_write(Flagged(m, res.f), i.o[1], res.r)

op_shift(m, i) ==
  LET res == shift(i.op, Size(i.o[1]), operand_read(m, i.o[1]), operand_read(m, i.o[2]), m.f)
  IN operand_write(Flagged(m, res.f), i.o[1], res.r)

op_multiply(m, i) ==
  IF Size(i.o[3]) # W THEN Panic(m)
  ELSE LET res == multiply(i.op = "IMUL", W, operand_read(m, i.o[2]), operand_read(m, i.o[3]), m.f)
       IN operand_write(operand_write(Flagged(m, res.f), i.o[1], res.r \div 2^W),
                        i.o[2], Trunc(res.r, W))

op_divide(m, i) ==
  LET a == operand_read(m, i.o[1]) * 2^W + operand_read(m, i.o[2])
      b == operand_read(m, i.o[3])
      s == i.op = "IDIV"
  IN IF Size(i.o[3]) # W \/ DivideError(s, a, b) THEN Panic(m)
     ELSE LET d == divmod(s, a, b, m.f)
          IN operand_write(operand_write(Flagged(m, d.f), i.o[2], d.q), i.o[1], d.r)

op_signed_multiply_trunc(m, i) ==
  LET b == operand_read(m, i.o[3])
      wide == IF Size(i.o[3]) = B THEN Trunc(Signed(b, B), W) ELSE b
      res == multiply(TRUE, W, operand_read(m, i.o[2]), wide, m.f)
  IN operand_write(Flagged(m, res.f), i.o[1], Trunc(res.r, W))

\* The address of a memory operand is fixed before the register it may depend
\* on is written.
op_xchg(m, i) ==
  LET a == operand_read(m, i.o[1])  b == operand_read(m, i.o[2])
      m1 == operand_write(m, i.o[1], b)
  IN IF i.o[2].k = "reg" THEN operand_write(m1, i.o[2], a)
     ELSE mem_write(m1, m.r[i.o[2].sreg], operand_mem_off(m, i.o[2]), i.o[2].n, a)

\* One element of a string operation, its pointers moved on by the direction
\* flag.
Along(m, x, n) == reg_set(m, x, Trunc(m.r[x] + (IF m.f.DF THEN -1 ELSE 1) * (n \div B), W))
StringElement(m, i) ==
  LET n == Size(i.o[1])
      a == operand_read(m, i.o[1])  b == operand_read(m, i.o[2])
  IN CASE i.op = "MOVS" -> Along(Along(operand_write(m, i.o[1], b), "SI", n), "DI", n)
       [] i.op = "STOS" -> Along(operand_write(m, i.o[1], b), "DI", n)
       [] i.op = "LODS" -> Along(operand_write(m, i.o[1], b), "SI", n)
       [] i.op = "SCAS" -> Along(Flagged(m, binary("SUB", n, a, b, m.f).f), "DI", n)
       [] i.op = "CMPS" -> Along(Along(Flagged(m, binary("SUB", n, b, a, m.f).f), "SI", n), "DI", n)

RECURSIVE Repeated(_, _, _)
Repeated(m, i, count) ==
  LET next == StringElement(m, i)
      stop == i.op \in {"SCAS", "CMPS"} /\ next.f.ZF = (i.rep = "NE")
  IN IF count = 0 THEN reg_set(m, "CX", 0)
     ELSE IF stop THEN reg_set(next, "CX", count - 1)
     ELSE Repeated(next, i, count - 1)
opcode_string(m, i) ==
  IF i.rep = "none" THEN StringElement(m, i) ELSE Repeated(m, i, m.r["CX"])

Condition(f, cc) ==
  CASE cc = "E" -> f.ZF [] cc = "NE" -> ~f.ZF [] cc = "B" -> f.CF [] cc = "AE" -> ~f.CF
    [] cc = "A" -> ~f.CF /\ ~f.ZF [] cc = "BE" -> f.CF \/ f.ZF
    [] cc = "L" -> f.SF # f.OF [] cc = "GE" -> f.SF = f.OF
    [] cc = "G" -> ~f.ZF /\ f.SF = f.OF [] cc = "LE" -> f.ZF \/ f.SF # f.OF
    [] cc = "S" -> f.SF [] cc = "NS" -> ~f.SF [] cc = "O" -> f.OF [] cc = "NO" -> ~f.OF
    [] cc = "P" -> f.PF [] cc = "NP" -> ~f.PF
op_jump_cond(m, i) == [m EXCEPT !.taken = Condition(m.f, i.cc)]
op_loop(m, i) ==
  LET n == Trunc(m.r["CX"] - 1, W)
      z == CASE i.op = "LOOP" -> TRUE [] i.op = "LOOPE" -> m.f.ZF [] i.op = "LOOPNE" -> ~m.f.ZF
  IN [reg_set(m, "CX", n) EXCEPT !.taken = n # 0 /\ z]
op_jcxz(m) == [m EXCEPT !.taken = m.r["CX"] = 0]

op_push(m, i) ==
  LET v == operand_read(m, i.o[1])
  IN stack_push(m, IF Size(i.o[1]) = B THEN Trunc(Signed(v, B), W) ELSE v)
op_pop(m, i) == operand_write(DropWord(m), i.o[1], Popped(m))
op_enter(m, i) ==
  IF i.o[2].v # 0 \/ i.o[3].v # 0 THEN Panic(m)
  ELSE LET p == stack_push(m, m.r["BP"]) IN reg_set(p, "BP", p.r["SP"])
op_leave(m) ==
  LET p == reg_set(m, "SP", m.r["BP"]) IN reg_set(DropWord(p), "BP", Popped(p))
op_xlat(m, i) ==
  LET off == Trunc(operand_read(m, i.o[3]) + operand_read(m, i.o[1]), W)
  IN operand_write(m, i.o[1], mem_read(m, operand_read(m, i.o[2]), off, B))
op_load_far(m, i) ==
  LET v == operand_read(m, i.o[3])
  IN operand_write(operand_write(m, i.o[1], v \div 2^W), i.o[2], Trunc(v, W))
op_lea(m, i) == operand_write(m, i.o[1], operand_mem_off(m, i.o[2]))
op_mov(m, i) == operand_write(m, i.o[1], operand_read(m, i.o[2]))
op_cbw(m, i) == operand_write(m, i.o[1], Trunc(Signed(operand_read(m, i.o[2]), B), W))
op_cwd(m, i) ==
  operand_write(m, i.o[1], IF Bit(operand_read(m, i.o[2]), W - 1) THEN 2^W - 1 ELSE 0)
op_flag(m, i) ==
  CASE i.op = "CLC" -> [m EXCEPT !.f.CF = FALSE] [] i.op = "STC" -> [m EXCEPT !.f.CF = TRUE]
    [] i.op = "CLD" -> [m EXCEPT !.f.DF = FALSE] [] i.op = "STD" -> [m EXCEPT !.f.DF = TRUE]

-----------------------------------------------------------------------------
(***************************************************************************)
(* What the processor does where the emulator has no implementation: the   *)
(* reference the lowering is held to for these opcodes.                    *)
(***************************************************************************)
ThroughCarry(i, n, a, f) ==
  LET x == a + AsInt(f.CF) * 2^n
      k == IF i.op = "RCL" THEN i.o[2].v ELSE n + 1 - i.o[2].v
      y == IF i.o[2].v = 0 THEN x ELSE Trunc(x * 2^k, n + 1) + x \div 2^(n + 1 - k)
  IN Ret(Trunc(y, n), [f EXCEPT !.CF = Bit(y, n)])
Hardware(m, i) ==
  LET n == Size(i.o[1])
      a == operand_read(m, i.o[1])
      push(mm, x) == stack_push(mm, x)
      ror == (a \div 2^(i.o[2].v % n)) + Trunc(a * 2^(n - (i.o[2].v % n)), n)
      rc == ThroughCarry(i, n, a, m.f)
      byte(x) == operand_read(m, x)
  IN CASE i.op = "CMC" -> [m EXCEPT !.f.CF = ~@]
       [] i.op = "SET" -> operand_write(m, i.o[1], AsInt(Condition(m.f, i.cc)))
       [] i.op = "ROR" -> operand_write([m EXCEPT !.f.CF = Bit(ror, n - 1)], i.o[1], ror)
       [] i.op \in {"RCL", "RCR"} -> operand_write(Flagged(m, rc.f), i.o[1], rc.r)
       [] i.op = "MUL" -> operand_write(m, i.o[1], byte(i.o[2]) * byte(i.o[3]))
       [] i.op = "IMUL" ->
            operand_write(m, i.o[1], multiply(TRUE, B, byte(i.o[2]), byte(i.o[3]), m.f).r)
       [] i.op = "DIV" ->
            IF byte(i.o[3]) = 0 \/ m.r["AX"] \div byte(i.o[3]) >= 2^B THEN Panic(m)
            ELSE operand_write(operand_write(m, i.o[2], m.r["AX"] \div byte(i.o[3])),
                               i.o[1], m.r["AX"] % byte(i.o[3]))
       [] i.op = "IDIV" ->
            LET x == Signed(m.r["AX"], W)  y == Signed(byte(i.o[3]), B)
            IN IF y = 0 \/ TDiv(x, y) \notin -(2^(B - 1)) .. 2^(B - 1) - 1 THEN Panic(m)
               ELSE operand_write(operand_write(m, i.o[2], Trunc(TDiv(x, y), B)),
                                  i.o[1], Trunc(TRem(x, y), B))
       [] i.op = "PUSHA" ->
            push(push(push(push(push(push(push(push(m, m.r["AX"]), m.r["CX"]), m.r["DX"]),
              m.r["BX"]), m.r["SP"]), m.r["BP"]), m.r["SI"]), m.r["DI"])
       [] i.op = "POPA" ->
            LET w(k) == mem_read(m, m.r["SS"], Trunc(m.r["SP"] + 2 * k, W), W)
            IN [m EXCEPT !.r = [@ EXCEPT !["DI"] = w(0), !["SI"] = w(1), !["BP"] = w(2),
                                         !["BX"] = w(4), !["DX"] = w(5), !["CX"] = w(6),
                                         !["AX"] = w(7), !["SP"] = Trunc(@ + 16, W)]]
=============================================================================
