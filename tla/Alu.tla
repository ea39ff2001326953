-------------------------------- MODULE Alu --------------------------------
(***************************************************************************)
(* The arithmetic of the emulator (emu86/alu.rs, cpu_flags.rs, value.rs)   *)
(* at a reduced width: a byte has B bits, a word W = 2*B, a double word    *)
(* 2*W.  Every constant of the code keeps its role: 8 is B, 16 is W, the   *)
(* count mask 0x1f is 2*W - 1, 0xff is 2^B - 1.  FLAGS is a record of the  *)
(* bits some instruction reads; AF has no reader and is left out.          *)
(***************************************************************************)
EXTENDS Integers, Bitwise

CONSTANT B

ASSUME WidthAssumption == B \in {2, 4}

W == 2 * B

Bit(v, i) == (v \div 2^i) % 2 = 1
Trunc(v, n) == v % 2^n
Signed(v, n) == IF v >= 2^(n - 1) THEN v - 2^n ELSE v
AsInt(p) == IF p THEN 1 ELSE 0
\* Division of the processor, and of C and Rust: towards zero.
TDiv(a, b) == LET q == (IF a < 0 THEN -a ELSE a) \div (IF b < 0 THEN -b ELSE b)
              IN IF (a < 0) = (b < 0) THEN q ELSE -q
TRem(a, b) == a - b * TDiv(a, b)

flag_generic_sf(r, n) == Bit(r, n - 1)
flag_generic_zf(r, n) == Trunc(r, n) = 0
EvenOnes == [v \in 0 .. 2^W - 1 |->
               (LET Ones[i \in 0 .. W] == IF i = 0 THEN 0 ELSE AsInt(Bit(v, i - 1)) + Ones[i - 1]
                IN Ones[W]) % 2 = 0]
flag_generic_pf(r) == EvenOnes[Trunc(r, B)]

WithResult(f, r, n) == [f EXCEPT !.ZF = flag_generic_zf(r, n), !.SF = flag_generic_sf(r, n),
                                 !.PF = flag_generic_pf(r)]

update_flags_sub(f, a, b, cin, r, n, cf) ==
  [WithResult(f, r, n) EXCEPT
     !.CF = IF cf THEN a < b + cin ELSE @,
     !.OF = Bit(a, n - 1) # Bit(b, n - 1) /\ Bit(a, n - 1) # Bit(r, n - 1)]

update_flags_bitwise(f, r, n) ==
  [WithResult(f, r, n) EXCEPT !.CF = FALSE, !.OF = FALSE]

update_flags_add(f, a, b, r32, n, cf) ==
  [WithResult(f, r32, n) EXCEPT
     !.CF = IF cf THEN Bit(r32, n) ELSE @,
     !.OF = Bit(a, n - 1) # Bit(r32, n - 1) /\ Bit(b, n - 1) # Bit(r32, n - 1)]

\* An operation returns its result and the new flags.
Ret(r, f) == [r |-> r, f |-> f]

binary(op, n, a, b, f) ==
  LET c == AsInt(f.CF)
      add(cin) == Ret(Trunc(a + b + cin, n), update_flags_add(f, a, b, a + b + cin, n, TRUE))
      sub(cin) == Ret(Trunc(a - b - cin, n),
                      update_flags_sub(f, a, b, cin, Trunc(a - b - cin, W), n, TRUE))
      bitwise(r) == Ret(r, update_flags_bitwise(f, r, n))
  IN CASE op = "ADD" -> add(0) [] op = "ADC" -> add(c)
       [] op \in {"SUB", "CMP"} -> sub(0) [] op = "SBB" -> sub(c)
       [] op \in {"AND", "TEST"} -> bitwise(a & b)
       [] op = "OR" -> bitwise(a | b) [] op = "XOR" -> bitwise(a ^^ b)

unary(op, n, a, f) ==
  CASE op = "NEG" -> Ret(Trunc(-a, n), update_flags_sub(f, 0, a, 0, Trunc(-a, W), n, TRUE))
    [] op = "INC" -> Ret(Trunc(a + 1, n), update_flags_add(f, a, 1, a + 1, n, FALSE))
    [] op = "DEC" -> Ret(Trunc(a - 1, n), update_flags_sub(f, a, 1, 0, Trunc(a - 1, W), n, FALSE))
    [] op = "NOT" -> Ret(Trunc(-a - 1, n), f)

\* Shifts: a zero count changes nothing, OF is only defined by a count of one.
Shifted(f, k, r, n, cf, of) ==
  Ret(Trunc(r, n), [WithResult(f, r, n) EXCEPT !.CF = cf, !.OF = IF k = 1 THEN of ELSE @])

shift(op, n, a, count, f) ==
  LET k == count % (2 * W)
      left == Trunc(a * 2^k, 2 * W)
      s == Signed(a, n)
      m == k % n
      rol == Trunc(a * 2^m, n) + a \div 2^(n - m)
      out == Bit(a, (n - m) % n)
  IN CASE k = 0 -> Ret(a, f)
       [] k # 0 /\ op = "SHL" ->
            Shifted(f, k, Trunc(left, W), n, Bit(left, n), Bit(left, n) # Bit(left, n - 1))
       [] k # 0 /\ op = "SHR" -> Shifted(f, k, a \div 2^k, n, Bit(a, k - 1), Bit(a, n - 1))
       [] k # 0 /\ op = "SAR" ->
            Shifted(f, k, Trunc(s \div 2^k, W), n, (s \div 2^(k - 1)) % 2 = 1, FALSE)
       [] k # 0 /\ op = "ROL" ->
            Ret(rol, [f EXCEPT !.CF = out, !.OF = IF k = 1 THEN out # Bit(rol, n - 1) ELSE @])

\* The product has twice the width of the operands; CF and OF say that its
\* upper half is more than the extension of the lower one.
multiply(signed, n, a, b, f) ==
  LET r == IF signed THEN Trunc(Signed(a, n) * Signed(b, n), 2 * n) ELSE a * b
      lo == Trunc(r, n)
      ovf == r # (IF signed THEN Trunc(Signed(lo, n), 2 * n) ELSE lo)
  IN Ret(r, [f EXCEPT !.CF = ovf, !.OF = ovf, !.ZF = IF signed THEN @ ELSE r = 0])

\* The double word a by the word b; #DE (a zero divisor, a quotient that does
\* not fit) is the emulator's panic.
DivideError(signed, a, b) ==
  \/ b = 0
  \/ ~signed /\ a \div b >= 2^W
  \/ signed /\ TDiv(Signed(a, 2 * W), Signed(b, W)) \notin -(2^(W - 1)) .. 2^(W - 1) - 1

divmod(signed, a, b, f) ==
  LET q == IF signed THEN TDiv(Signed(a, 2 * W), Signed(b, W)) ELSE a \div b
      r == IF signed THEN TRem(Signed(a, 2 * W), Signed(b, W)) ELSE a % b
      q2 == Trunc(q, W)  r2 == Trunc(r, W)
  IN [q |-> q2, r |-> r2,
      f |-> [f EXCEPT !.CF = r % 4 \in {1, 2}, !.ZF = r = 0 /\ q % 2 = 1, !.SF = FALSE,
                      !.OF = FALSE, !.PF = EvenOnes[r2] = EvenOnes[q2]]]
=============================================================================
