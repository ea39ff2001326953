---------------------------- MODULE IsaAgreement ----------------------------
(***************************************************************************)
(* The repository implements the instruction set twice: emu86 executes it, *)
(* the decompiler lowers it to IR.  Both machines start in the same state  *)
(* and take the same straight-line instructions, the k-th drawn from       *)
(* Program[k]; a block may end with any branch after any of them.  A panic *)
(* of the emulator or a loud marker of the decompiler stops the comparison,*)
(* and so does an instruction of Excepted, where the two are known to      *)
(* differ without a word.                                                  *)
(***************************************************************************)
EXTENDS IrLower, FiniteSets

CONSTANTS Program,     \* Program[k]: the instructions that may come k-th
          Starts       \* the register files a block may start in

VARIABLES emu, low, steps, writer,
          apart        \* an instruction of Excepted has been executed

vars == <<emu, low, steps, writer, apart>>

InitFlags == [CF |-> FALSE, ZF |-> FALSE, SF |-> FALSE, OF |-> FALSE, PF |-> FALSE, DF |-> FALSE]
Image(s) == [a \in 0 .. 7 |-> (a * s) % 2^B]
\* writer is the last instruction that defined FLAGS for the processor.
Init ==
  /\ \E s \in Starts, cf \in BOOLEAN :
       /\ emu = [r |-> s, f |-> [InitFlags EXCEPT !.CF = cf], mem |-> Image(s["AX"]),
                 ok |-> TRUE, taken |-> FALSE]
       /\ low = [r |-> [x \in WordRegs \union ByteRegs |->
                          IF x \in ByteRegs THEN InitVal(reg(emu, x)) ELSE InitVal(s[x])],
                 flags |-> Opaque, cf |-> {}, df_clear |-> TRUE, mem |-> Image(s["AX"]),
                 taken |-> {}, loud |-> FALSE]
  /\ steps = 0
  /\ writer = <<>>
  /\ apart = FALSE

Running == steps < Len(Program) /\ emu.ok /\ ~low.loud /\ ~apart
FlagWriters == {"ADD", "ADC", "SUB", "SBB", "AND", "OR", "XOR", "CMP", "TEST", "NEG", "INC", "DEC",
                "SHL", "SHR", "SAR", "ROL", "ROR", "RCL", "RCR", "MUL", "IMUL", "IMUL_TRUNC",
                "DIV", "IDIV", "SCAS", "CMPS", "STC", "CLC", "CMC"}
\* A shift by zero and a repetition of zero elements leave FLAGS alone.
DefinesFlags(i) ==
  /\ i.op \in FlagWriters
  /\ i.op \in {"SHL", "SHR", "SAR", "ROL", "ROR"} => operand_read(emu, i.o[2]) % (2 * W) # 0
  /\ i.rep # "none" => emu.r["CX"] # 0
\* No access of more than a byte straddles the end of a segment: the emulator
\* wraps there and the host's pointers do not.
Straight(i) ==
  \A k \in DOMAIN i.o : i.o[k].k = "mem" /\ i.o[k].n > B =>
     \A d \in 0 .. (IF i.rep = "none" THEN 0 ELSE emu.r["CX"]) :
        Trunc(operand_mem_off(emu, i.o[k]) + 2 * d, W) + i.o[k].n \div B <= 2^W

\* The flag writers whose readers the rewriting resolves exactly, by condition.
Ordered == {"L", "GE", "G", "LE", "S", "NS"}
Exact(i, cc) ==
  \/ i.op \in {"CMP", "SUB", "AND", "OR", "XOR", "TEST"} /\ (Size(i.o[1]) = W \/ cc \notin Ordered)
  \/ i.op = "DEC" /\ (cc \in {"E", "NE"} \/ (Size(i.o[1]) = W /\ cc \in Ordered))
  \/ i.op \in {"ADD", "INC", "SBB", "ADC"} /\ Size(i.o[1]) = W /\ cc \in {"E", "NE", "S", "NS"}
  \/ i.op \in {"SHL", "SHR", "SAR"} /\ (Size(i.o[1]) = W \/ cc \notin {"S", "NS"})
  \/ i.op \in {"SCAS", "CMPS"} /\ cc \notin Ordered
  \/ i.op \in {"STC", "CLC", "CMC", "ROL", "ROR", "RCL", "RCR", "DIV", "IDIV"}
-----------------------------------------------------------------------------
(* Where the lowered code differs from the processor and no marker says so. *)

\* lower_div gives AH the upper byte of the remainder (ir_build.rs:2035-2037).
ByteDivision(i) == i.op \in {"DIV", "IDIV"} /\ Size(i.o[3]) = B
\* A byte immediate is not sign-extended (PUSH imm8, IMUL r16, r/m16, imm8).
NegativeByte(i) ==
  /\ i.op \in {"PUSH", "IMUL_TRUNC"}
  /\ LET x == i.o[Len(i.o)] IN x.k = "imm" /\ x.n = B /\ Bit(x.v, B - 1)
\* XCHG writes the register first, and the address of memory depends on it.
SwappedAddress(i) ==
  /\ i.op = "XCHG" /\ i.o[2].k = "mem"
  /\ i.o[2].reg = IF i.o[1].r \in ByteRegs THEN Full[i.o[1].r] ELSE i.o[1].r
\* The processor masks shift counts, C does not.
LongShift(i) == i.op \in {"SHL", "SHR", "SAR"} /\ operand_read(emu, i.o[2]) >= 2 * W
\* SETcc after a flag writer whose condition is not resolved exactly.
InexactSet(i) == i.op = "SET" /\ ~(writer # <<>> /\ Exact(writer[1], i.cc))

Excepted(i) ==
  ByteDivision(i) \/ NegativeByte(i) \/ SwappedAddress(i) \/ LongShift(i) \/ InexactSet(i) \/ ~Straight(i)

Advance(i, e, l) ==
  /\ emu' = e
  /\ low' = IF e.ok THEN l ELSE low
  /\ steps' = steps + 1
  /\ apart' = Excepted(i)
  /\ writer' = IF DefinesFlags(i) THEN <<i>> ELSE writer
Of(ops) == {i \in Program[steps + 1] : i.op \in ops}

StepBinary ==
  Running /\ \E i \in Of({"ADD", "ADC", "SUB", "SBB", "AND", "OR", "XOR", "CMP", "TEST"}) :
    Advance(i, op_binary(emu, i),
            CASE i.op = "ADC" -> lower_adc(low, i) [] i.op = "SBB" -> lower_sbb(low, i)
              [] i.op = "CMP" -> lower_cmp(low, i) [] i.op = "TEST" -> lower_test(low, i)
              [] OTHER -> simple_binary(low, i))
StepUnary ==
  Running /\ \E i \in Of({"NEG", "NOT", "INC", "DEC"}) :
    Advance(i, op_unary(emu, i),
            IF i.op \in {"INC", "DEC"} THEN lower_inc_dec(low, i) ELSE simple_unary(low, i))
StepShift ==
  Running /\ \E i \in Of({"SHL", "SHR", "SAR", "ROL"}) :
    Advance(i, op_shift(emu, i),
            IF i.op = "ROL" THEN lower_rol_ror(low, i) ELSE simple_binary(low, i))
StepMultiply ==
  Running /\ \E i \in Of({"MUL", "IMUL", "DIV", "IDIV"}) :
    Advance(i, IF Size(i.o[3]) = B THEN Hardware(emu, i)
               ELSE IF i.op \in {"MUL", "IMUL"} THEN op_multiply(emu, i) ELSE op_divide(emu, i),
            IF i.op \in {"MUL", "IMUL"} THEN lower_mul(low, i) ELSE lower_div(low, i))
StepImulTrunc ==
  Running /\ \E i \in Of({"IMUL_TRUNC"}) :
    Advance(i, op_signed_multiply_trunc(emu, i), lower_imul_trunc(low, i))
StepHardware ==
  Running /\ \E i \in Of({"ROR", "RCL", "RCR", "CMC", "SET", "PUSHA", "POPA"}) :
    Advance(i, Hardware(emu, i),
            CASE i.op = "ROR" -> lower_rol_ror(low, i)
              [] i.op \in {"RCL", "RCR"} -> lower_rcl_rcr(low, i)
              [] i.op = "CMC" -> lower_flag(low, i) [] i.op = "SET" -> append_cond_set(low, i)
              [] i.op = "PUSHA" -> lower_pusha(low) [] i.op = "POPA" -> lower_popa(low))
StepMove ==
  Running /\ \E i \in Of({"MOV", "XCHG", "LEA", "LES", "LDS", "CBW", "CWD", "XLAT"}) :
    Advance(i,
      CASE i.op = "MOV" -> op_mov(emu, i) [] i.op = "XCHG" -> op_xchg(emu, i)
        [] i.op = "LEA" -> op_lea(emu, i) [] i.op \in {"LES", "LDS"} -> op_load_far(emu, i)
        [] i.op = "CBW" -> op_cbw(emu, i) [] i.op = "CWD" -> op_cwd(emu, i)
        [] i.op = "XLAT" -> op_xlat(emu, i),
      CASE i.op = "MOV" -> lower_mov(low, i) [] i.op = "XCHG" -> lower_xchg(low, i)
        [] i.op = "LEA" -> lower_lea(low, i) [] i.op \in {"LES", "LDS"} -> lower_load_far(low, i)
        [] i.op = "CBW" -> lower_cbw(low, i) [] i.op = "CWD" -> lower_cwd(low, i)
        [] i.op = "XLAT" -> lower_xlat(low, i))
StepStack ==
  Running /\ \E i \in Of({"PUSH", "POP", "ENTER", "LEAVE"}) :
    Advance(i,
      CASE i.op = "PUSH" -> op_push(emu, i) [] i.op = "POP" -> op_pop(emu, i)
        [] i.op = "ENTER" -> op_enter(emu, i) [] i.op = "LEAVE" -> op_leave(emu),
      CASE i.op = "PUSH" -> lower_push(low, i) [] i.op = "POP" -> lower_pop(low, i)
        [] i.op = "ENTER" -> lower_enter(low, i) [] i.op = "LEAVE" -> lower_leave(low))
StepFlag ==
  Running /\ \E i \in Of({"STC", "CLC", "STD", "CLD"}) :
    Advance(i, op_flag(emu, i), lower_flag(low, i))
StepString ==
  Running /\ \E i \in Of({"MOVS", "STOS", "LODS", "CMPS", "SCAS"}) :
    Advance(i, opcode_string(emu, i),
            IF i.rep = "none" THEN lower_string(low, i) ELSE lower_rep_string_op(low, i))
Next == \/ StepBinary \/ StepUnary \/ StepShift \/ StepMultiply \/ StepImulTrunc \/ StepHardware
        \/ StepMove \/ StepStack \/ StepFlag \/ StepString

Spec == Init /\ [][Next]_vars

-----------------------------------------------------------------------------
Trusted == emu.ok /\ ~low.loud /\ ~apart

\* Registers, byte fragments and memory of the lowered block are those of the
\* emulator after every instruction, until a marker announces that they are
\* not or an instruction of Excepted is met: fragments never hold a stale part
\* of their register, whatever the mixture of byte, word and stack writes.
StateAgrees ==
  Trusted => /\ \A x \in WordRegs \union ByteRegs : low.r[x].v = reg(emu, x)
             /\ \A a \in DOMAIN emu.mem \union DOMAIN low.mem : Cell(emu.mem, a) = Cell(low.mem, a)

\* A carry the builder tracks into a following ADC, SBB, RCL or RCR is the
\* processor's CF, through every flag writer in between.
CarryHonest == Trusted => \A c \in low.cf : c.v = AsInt(emu.f.CF)

\* df_clear is only held while the direction flag is clear: a string operation
\* lowered with moving-up pointers never runs downwards.
DirectionHonest == low.df_clear => ~emu.f.DF

\* What the builder remembers of the flags between instructions is what the
\* processor has in them (tracked carry, df_clear).
FlagsHonest == CarryHonest /\ DirectionHonest

Conditions == {"E", "NE", "B", "AE", "A", "BE", "L", "GE", "G", "LE", "S", "NS", "O", "NO", "P", "NP"}
Jump(op, c) == [op |-> op, o |-> <<>>, rep |-> "none", cc |-> c]

\* A branch that the optimiser resolves to a comparison of values goes the
\* way the processor's flags send it, for every writer and condition of Exact;
\* an unresolved one keeps its marker.
BranchHonest ==
  Trusted /\ writer # <<>> =>
    \A cc \in Conditions : Exact(writer[1], cc) =>
       \A c \in append_cond_jump(low, Jump("J", cc)).taken : c = op_jump_cond(emu, Jump("J", cc)).taken

\* LOOP, LOOPE, LOOPNE and JCXZ decide on the (decremented) count and on the
\* flags of an earlier instruction, and agree on both.
CountedBranch ==
  Trusted =>
    /\ \A op \in {"LOOP", "LOOPE", "LOOPNE"} :
         op = "LOOP" \/ (writer # <<>> /\ Exact(writer[1], "E")) =>
           LET e == op_loop(emu, Jump(op, "E"))
               l == lower_loop(low, Jump(op, "E"))
           IN (\A c \in l.taken : c = e.taken) /\ l.r["CX"].v = e.r["CX"]
    /\ \A c \in lower_jcxz(low).taken : c = op_jcxz(emu).taken

\* Conditional and counted branches of the emitted code go where the
\* processor goes (append_cond_jump, simplify_branch_conds, LOOP, JCXZ).
BranchesAgree == BranchHonest /\ CountedBranch
=============================================================================
