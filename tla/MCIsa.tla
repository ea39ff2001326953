------------------------------- MODULE MCIsa -------------------------------
(***************************************************************************)
(* Blocks of up to three instructions over AX, BX, CX, DX, their halves,   *)
(* one memory operand and the stack, at a byte of two bits.                *)
(***************************************************************************)
EXTENDS IsaAgreement

AX == R("AX")  BX == R("BX")  CX == R("CX")  DX == R("DX")
AL == R("AL")  AH == R("AH")  BL == R("BL")  CL == R("CL")
MemW == M("DS", "BX", 1, W)
MemB == M("DS", "BX", 0, B)

Dst2 == {<<AX, BX>>, <<AL, BL>>, <<AX, I(2^W - 3, W)>>, <<AH, I(3, B)>>, <<MemW, AX>>, <<MemB, AL>>}
Binaries == {Ins(op, o) : op \in {"ADD", "ADC", "SUB", "SBB", "AND", "OR", "XOR", "CMP"}, o \in Dst2}
            \union {Ins("TEST", <<AX, BX>>), Ins("XOR", <<AX, AX>>), Ins("TEST", <<AL, I(2, B)>>)}
Unaries == {Ins(op, <<x>>) : op \in {"NEG", "NOT", "INC", "DEC"}, x \in {AX, AH}}
Counts == {I(0, B), I(1, B), I(3, B), CL}
\* A count beyond the mask needs more bits than a byte has here; 8 bits hold 33.
Long == I(2 * W + 1, B)
Shifts == {Ins(op, <<x, c>>) : op \in {"SHL", "SHR", "SAR", "ROL"}, x \in {AX, AL}, c \in Counts}
          \union {Ins(op, <<x, Long>>) : op \in {"SHL", "SHR"}, x \in {AX, AL}}
Rotates == {Ins(op, <<x, c>>) : op \in {"RCL", "RCR", "ROR"}, x \in {AX, AL}, c \in {I(1, B), I(2, B)}}
Products == {Ins(op, <<DX, AX, BX>>) : op \in {"MUL", "IMUL", "DIV", "IDIV"}}
            \union {Ins(op, <<AX, AL, BL>>) : op \in {"MUL", "IMUL"}}
            \union {Ins(op, <<AH, AL, BL>>) : op \in {"DIV", "IDIV"}}
            \union {Ins("IMUL_TRUNC", <<AX, BX, x>>) : x \in {I(3, W), I(1, B), I(3, B)}}
Moves == {Ins("MOV", <<AX, BX>>), Ins("MOV", <<AH, BL>>), Ins("MOV", <<AL, AH>>), Ins("MOV", <<MemW, AX>>),
          Ins("MOV", <<CX, MemW>>), Ins("XCHG", <<AX, BX>>), Ins("XCHG", <<AX, MemW>>),
          Ins("XCHG", <<BX, MemW>>), Ins("XCHG", <<BL, MemB>>),
          Ins("XCHG", <<AL, AH>>), Ins("LEA", <<AX, MemW>>),
          Ins("LES", <<R("ES"), AX, M("DS", "none", 2, 2 * W)>>),
          Ins("LDS", <<R("DS"), CX, M("DS", "none", 1, 2 * W)>>),
          Ins("CBW", <<AX, AL>>), Ins("CWD", <<DX, AX>>), Ins("XLAT", <<AL, R("DS"), BX>>)}
Stack == {Ins("PUSH", <<AX>>), Ins("PUSH", <<I(1, B)>>), Ins("PUSH", <<I(3, B)>>), Ins("POP", <<BX>>), Ins("POP", <<AX>>),
          Ins("PUSHA", <<>>), Ins("POPA", <<>>), Ins("LEAVE", <<>>),
          Ins("ENTER", <<R("BP"), I(0, W), I(0, B)>>)}
FlagOps == {Ins(op, <<>>) : op \in {"STC", "CLC", "CMC", "STD", "CLD"}}
Sets == {[op |-> "SET", o |-> <<AL>>, rep |-> "none", cc |-> c] : c \in {"NE", "B", "O"}}
From(n) == M("DS", "SI", 0, n)
Tgt(n) == M("ES", "DI", 0, n)
StringOps == {<<"MOVS", <<Tgt(n), From(n)>> >> : n \in {B, W}}
             \union {<<"STOS", <<Tgt(B), AL>> >>, <<"LODS", <<AL, From(B)>> >>, <<"LODS", <<AX, From(W)>> >>,
                     <<"SCAS", <<AL, Tgt(B)>> >>, <<"CMPS", <<Tgt(B), From(B)>> >>, <<"STOS", <<Tgt(W), AX>> >>}
Strings == {Rep(p, s[1], s[2]) : p \in {"none", "EQ", "NE"}, s \in StringOps}
Anything == Binaries \union Unaries \union Shifts \union Rotates \union Products \union Moves
             \union Stack \union FlagOps \union Sets \union Strings
\* What reads a value or a flag of an earlier instruction.
Readers == {Ins("ADC", <<AX, BX>>), Ins("SBB", <<AL, BL>>), Ins("RCL", <<AX, I(1, B)>>), Ins("PUSH", <<AX>>),
            Rep("EQ", "SCAS", <<AL, Tgt(B)>>), Ins("MUL", <<AX, AL, BL>>)}
MCProgram == <<Anything, Anything, Readers>>
MCStarts == {[x \in WordRegs |->
                CASE x = "AX" -> a [] x = "BX" -> b [] x = "CX" -> 2 [] x = "DX" -> 1
                  [] x = "SI" -> 4 [] x = "DI" -> 6 [] x = "SP" -> 8 [] x = "BP" -> 6 [] OTHER -> 0]
               : <<a, b>> \in {<<2^W - 3, 3>>, <<7, 14>>, <<8, 8>>, <<0, 2^W - 1>>}}
=============================================================================
