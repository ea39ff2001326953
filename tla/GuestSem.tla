---- MODULE GuestSem ----
(***************************************************************************)
(* What the guest instructions of SsaIr do to a machine state              *)
(* [regs, ds, ss, seen]: the reference the decompiler's IR and its         *)
(* inferences are compared with.  seen collects what the outside observes. *)
(***************************************************************************)
EXTENDS SsaIr, Bitwise

Compute(op, a) ==
  CASE op = "Add" -> (a[1] + a[2]) % M
    [] op = "Sub" -> (a[1] - a[2]) % M
    [] op = "Xor" -> a[1] ^^ a[2]
    [] op = "Or" -> a[1] | a[2]
    [] op = "Upper16" -> (a[1] \div M) % M
    [] op = "Lower16" -> a[1] % M
    [] op = "Make32" -> a[1] * M + a[2]
    [] op = "SignExtTo32" -> Signed(a[1]) % (M * M)
    [] op = "UDiv" -> (a[1] \div a[2]) % M
    [] op = "URem" -> a[1] % a[2]
    [] op \in {"Eq", "EqFlags"} -> IF a[1] = (IF op = "Eq" THEN a[2] ELSE 0) THEN 1 ELSE 0
    [] op \in {"Neq", "NeqFlags"} -> IF a[1] # (IF op = "Neq" THEN a[2] ELSE 0) THEN 1 ELSE 0
    [] op = "UpdateFlags" -> a[2]
    [] op = "Ref" -> a[1]

(* Effects outside the function: a callee returns DX:AX in the registers,  *)
(* sees and changes the data segment; a handler also every register.       *)
Next1(f) == [x \in DOMAIN f |-> (f[x] + 1) % M]
CallResult(s, args) == (s.ds[0] + 3 + (IF args = <<>> THEN 0 ELSE 2 * args[1] + Len(args))) % (M * M)
Called(s, args) ==
  [s EXCEPT !.seen = Append(@, <<"call", args, s.ds>>), !.ds = Next1(@),
            !.regs["AX"] = CallResult(s, args) % M, !.regs["DX"] = CallResult(s, args) \div M]
Interrupted(s) ==
  [s EXCEPT !.seen = Append(@, <<"int", [r \in GuestRegs \ {"SP"} |-> s.regs[r]], s.ds>>),
            !.ds = Next1(@), !.regs = [r \in GuestRegs |-> IF r = "SP" THEN @[r] ELSE (@[r] + 1) % M]]
(***************************************************************************)
(* The guest program.                                                      *)
(***************************************************************************)
GuestStep(s, body, k) ==
  LET c == body[k]
      V(x) == IF x[1] = "reg" THEN s.regs[x[2]] ELSE x[2] % M
      ax == s.regs["AX"]
      wide == s.regs["DX"] * M + ax
      sp == s.regs["SP"] IN
  CASE c[1] = "mov" -> [s EXCEPT !.regs[c[2]] = V(c[3])]
    [] c[1] \in {"Add", "Sub", "Xor", "Or"} -> [s EXCEPT !.regs[c[2]] = Compute(c[1], <<@, V(c[3])>>)]
    [] c[1] = "load" -> [s EXCEPT !.regs[c[2]] = s.ds[V(c[3])]]
    [] c[1] = "store" -> [s EXCEPT !.ds[V(c[2])] = V(c[3])]
    [] c[1] = "les" -> [s EXCEPT !.regs["AX"] = s.ds[V(c[2])], !.regs["DX"] = s.ds[(V(c[2]) + 1) % M]]
    [] c[1] = "push" -> [s EXCEPT !.regs["SP"] = (sp - 1) % M, !.ss[(sp - 1) % M] = s.regs[c[2]]]
    [] c[1] = "pop" -> LET up == [s EXCEPT !.regs["SP"] = (sp + 1) % M] IN [up EXCEPT !.regs[c[2]] = s.ss[sp]]
    [] c[1] = "cwd" -> [s EXCEPT !.regs["DX"] = Compute("Upper16", <<Compute("SignExtTo32", <<ax>>)>>)]
    [] c[1] = "div" -> [s EXCEPT !.regs["AX"] = Compute("UDiv", <<wide, V(c[2])>>),
                                 !.regs["DX"] = Compute("URem", <<wide, V(c[2])>>)]
    [] c[1] = "set" -> [s EXCEPT !.regs[c[2]] = Compute(c[4], <<s.regs[c[3]]>>)]
    [] c[1] = "call" -> Called(s, [j \in 1..c[2] |-> s.ss[(sp + j - 1) % M]])
    [] c[1] = "int" -> Interrupted(s)

RECURSIVE GuestBody(_, _, _)
GuestBody(s, body, k) == IF k > Len(body) THEN s ELSE GuestBody(GuestStep(s, body, k), body, k + 1)
====
