---- MODULE SsaPipeline ----
(***************************************************************************)
(* The decompilation of one function, stage by stage (app.rs, decompile/   *)
(* mod.rs): build, optimise, symbolise, forward, lift, fuse and finalise;  *)
(* and what each stage has to preserve: what the guest program does.       *)
(*                                                                         *)
(* Three executions are defined.  GuestRun runs the guest program, IrRun   *)
(* the IR (a value is computed where its instruction stands) and CRun the  *)
(* C that ast.rs makes of it: a value with one use is computed where it is *)
(* used, phis are assignments on the edge one after another, and the entry *)
(* value of a register is whatever the register holds when it is read.     *)
(* A run yields what is observed: calls, interrupts, the return.           *)
(***************************************************************************)
EXTENDS SsaOpt, GuestSem

CONSTANTS Programs,   \* guest programs: sequences of blocks [body, term]
          Inputs,     \* guest states at entry: [regs, ds, ss]
          Fuel        \* guest blocks executed before a run is cut

VARIABLES prog, ir, stage
vars == <<prog, ir, stage>>

Undefined == M * M

Returned(s, vals) == Append(s.seen, <<"ret", vals, s.regs["BX"], s.regs["CX"], s.ds>>)
Cut(s) == Append(s.seen, <<"cut", s.ds>>)

(***************************************************************************)
(* The guest program.                                                      *)
(***************************************************************************)
RECURSIVE GuestFrom(_, _, _)
GuestFrom(s, b, fuel) ==
  LET t == GuestBody(s, prog[b].body, 1)
      e == prog[b].term IN
  IF fuel = 0 THEN Cut(s)
  ELSE CASE e[1] = "ret" -> Returned(t, <<t.regs["AX"], t.regs["DX"]>>)
         [] e[1] = "jmp" -> GuestFrom(t, e[2], fuel - 1)
         [] e[1] = "jcc" -> GuestFrom(t, IF Compute(e[2], <<t.regs[e[3]]>>) = 1 THEN e[4] ELSE e[5], fuel - 1)
GuestRun(input) == GuestFrom([regs |-> input.regs, ds |-> input.ds, ss |-> input.ss, seen |-> <<>>], 1, Fuel)

(***************************************************************************)
(* The IR, and the C made of it.  inl is the set of instructions that are  *)
(* computed at their use: empty for the IR.                                *)
(***************************************************************************)
Uses(r) == Cardinality({<<q, k>> \in AllRefs(ir) \X (1..3) : k <= Len(At(ir, q).o) /\ At(ir, q).o[k] = r})
(* The gate of ref_to_expr_impl and emit_blk. *)
Inlined_snapshots ==
  {r \in AllRefs(ir) : ~has_side_effects(At(ir, r).op) /\ At(ir, r).op \notin {"Phi", "Nop"} /\ Uses(r) = 1}
Inlined ==
  {r \in AllRefs(ir) : /\ ~has_side_effects(At(ir, r).op) /\ At(ir, r).op \notin {"Phi", "Nop"}
                       /\ "MATERIALISE" \notin At(ir, r).at
                       /\ Uses(r) = 1}

Address(s, sym) == IF sym[2] = "Global" THEN sym[3] + sym[4] ELSE (s.sp0 + sym[3]) % M
ReadWord(s, seg, a) == IF seg = "SS" THEN s.ss[a % M] ELSE s.ds[a % M]
Segment(sym) == IF sym[2] = "Global" THEN "DS" ELSE "SS"

RECURSIVE Value(_, _, _)
Computed(s, inl, i) ==
  CASE i.op \in {"Load16", "Load32"} ->
         LET a == Value(s, inl, i.o[2])
             w == ReadWord(s, i.o[1][2], a) IN
         IF i.op = "Load16" THEN w ELSE w + M * ReadWord(s, i.o[1][2], a + 1)
    [] i.op \in {"ReadVar16", "ReadVar32"} ->
         LET a == Address(s, i.o[1])
             w == ReadWord(s, Segment(i.o[1]), a) IN
         IF i.op = "ReadVar16" THEN w ELSE w + M * ReadWord(s, Segment(i.o[1]), a + 1)
    [] OTHER -> Compute(i.op, [k \in DOMAIN i.o |-> Value(s, inl, i.o[k])])
Value(s, inl, r) ==
  CASE IsConst(r) -> r[2] % M
    [] r[1] = "init" -> IF r[2] = "SP" THEN s.sp0 ELSE s.regs[r[2]]
    [] IsInstr(r) -> IF r \in inl THEN Computed(s, inl, At(ir, r)) ELSE s.env[r]

Write(s, sym, v) ==
  CASE sym[2] = "Register" -> [s EXCEPT !.regs[sym[3]] = v]
    [] sym[2] = "Global" -> [s EXCEPT !.ds[Address(s, sym)] = v]
    [] sym[2] \in {"Local", "Param"} -> [s EXCEPT !.ss[Address(s, sym)] = v]

(* One instruction that is not a branch (emit_blk). *)
IrStep(s, inl, r) ==
  LET i == At(ir, r)
      V(k) == Value(s, inl, i.o[k]) IN
  CASE i.op \in {"Nop", "Phi", "Pin"} -> s
    [] i.op = "Store16" -> IF i.o[1][2] = "SS" THEN [s EXCEPT !.ss[V(2)] = V(3)] ELSE [s EXCEPT !.ds[V(2)] = V(3)]
    [] i.op = "WriteVar16" -> Write(s, i.o[1], V(2))
    [] i.op = "WriteVar32" -> Write(Write(s, i.o[1], V(2) % M), [i.o[1] EXCEPT ![4] = 1], V(2) \div M)
    [] i.op = "Int" -> Interrupted(s)
    [] i.op = "CallFar" -> LET args == [k \in DOMAIN i.o |-> V(k)] IN
                           [Called(s, args) EXCEPT !.env[r] = CallResult(s, args)]
    [] OTHER -> IF r \in inl THEN s ELSE [s EXCEPT !.env[r] = Computed(s, inl, i)]

(* Phis on the edge a -> b: the IR assigns them together, the C one by one *)
(* and at a jump only (emit_phis): a branch edge needs a block of its own. *)
Phis(b) == SelectSeq(Refs(ir, b), LAMBDA r : Is(ir, r, "Phi"))
EdgeIndex(a, b) == CHOOSE k \in DOMAIN ir[b].preds : ir[b].preds[k] = a
                     /\ \A j \in 1..(k - 1) : ir[b].preds[j] # a
PhiValue(s, inl, r, k) == IF k <= Len(At(ir, r).o) THEN Value(s, inl, At(ir, r).o[k]) ELSE Undefined
Together(s, a, b) ==
  LET new == {Phis(b)[k] : k \in DOMAIN Phis(b)} IN
  IF new = {} THEN s
  ELSE [s EXCEPT !.env = [r \in DOMAIN @ |-> IF r \in new THEN PhiValue(s, {}, r, EdgeIndex(a, b)) ELSE @[r]]]
RECURSIVE OneByOne(_, _, _, _)
OneByOne(s, inl, phis, k) ==
  IF phis = <<>> THEN s
  ELSE OneByOne([s EXCEPT !.env[phis[1]] = PhiValue(s, inl, phis[1], k)], inl, Tail(phis), k)
Edge(s, inl, c, a, b) ==
  IF ~c THEN Together(s, a, b)
  ELSE IF Phis(b) = <<>> \/ Len(block_exits(ir, a)) # 1 THEN s ELSE OneByOne(s, inl, Phis(b), EdgeIndex(a, b))

RECURSIVE IrBlock(_, _, _, _, _, _)
IrBlock(s, inl, c, b, k, fuel) ==
  LET r == <<"i", b, ir[b].code[k]>>
      i == At(ir, r)
      Go(t) == IrBlock(Edge(s, inl, c, b, t), inl, c, t, 1, IF t <= Len(prog) THEN fuel - 1 ELSE fuel) IN
  IF fuel = 0 THEN Cut(s)
  ELSE CASE i.op = "Ret" -> Returned(s, <<Value(s, inl, i.o[1]), Value(s, inl, i.o[2])>>)
         [] i.op = "Jmp" -> Go(i.o[1][2])
         [] i.op = "Jne" -> Go(IF Value(s, inl, i.o[1]) # 0 THEN i.o[2][2] ELSE i.o[3][2])
         [] OTHER -> IrBlock(IrStep(s, inl, r), inl, c, b, k + 1, fuel)

Execute(input, inl, c) ==
  IrBlock([regs |-> input.regs, ds |-> input.ds, ss |-> input.ss, seen |-> <<>>, sp0 |-> input.regs["SP"],
           env |-> [r \in AllRefs(ir) |-> Undefined]], inl, c, 1, 1, Fuel)
IrRun(input) == Execute(input, {}, FALSE)
CRun(input) == Execute(input, Inlined, TRUE)

(***************************************************************************)
(* The pipeline.                                                           *)
(***************************************************************************)
Init == prog \in Programs /\ ir = <<>> /\ stage = "source"
Pass(from, to, result) == stage = from /\ stage' = to /\ ir' = result /\ UNCHANGED prog

Build == Pass("source", "built", build(prog))
Optimize == Pass("built", "presym", optimize(ir))
Symbolize == Pass("presym", "sym", symbolize(ir))
Forward == Pass("sym", "fwd", optimize(Sweep(forward_store_to_load, ir)))
Lift == Pass("fwd", "lifted", optimize(mem_symbol_to_ref(ir)))
finalize_for_emission == Pass("lifted", "final", finalize(optimize(fuse_mem(ir))))
Next == Build \/ Optimize \/ Symbolize \/ Forward \/ Lift \/ finalize_for_emission
Spec == Init /\ [][Next]_vars

(***************************************************************************)
(* Properties.                                                             *)
(***************************************************************************)
(* The IR is SSA over its own graph: a block's predecessors are exactly    *)
(* the blocks that branch to it, once per edge; a phi has an operand for   *)
(* each; and an operand names an instruction that still stands in a block. *)
WellFormed ==
  \A b \in Live(ir) :
    /\ \A p \in DOMAIN ir :
         Cardinality({k \in DOMAIN ir[b].preds : ir[b].preds[k] = p})
           = IF ir[p].live THEN Cardinality({k \in DOMAIN block_exits(ir, p) : block_exits(ir, p)[k] = b}) ELSE 0
    /\ \A n \in {ir[b].code[k] : k \in DOMAIN ir[b].code} :
         LET i == ir[b].ins[n] IN
         /\ i.op = "Phi" => Len(i.o) = Len(ir[b].preds)
         /\ \A k \in DOMAIN i.o : IsInstr(i.o[k]) =>
              i.o[k] \in AllRefs(ir) /\ At(ir, i.o[k]).op # "Nop"
         /\ \A k \in DOMAIN i.o : i.o[k][1] = "b" => ir[i.o[k][2]].live

(* Every stage means what the guest program means: from every input, the   *)
(* IR makes the same calls and interrupts in the same order with the same  *)
(* arguments, registers and memory, and returns the same.                  *)
Preserved == stage # "source" => \A in \in Inputs : IrRun(in) = GuestRun(in)

(* What is printed in place of a value: it and, through inlined values,    *)
(* their operands.                                                         *)
RECURSIVE Expansion(_, _)
Expansion(inl, S) ==
  LET more == UNION {{At(ir, r).o[k] : k \in DOMAIN At(ir, r).o} : r \in S \cap inl} IN
  IF more \subseteq S THEN S ELSE Expansion(inl, S \cup more)
Reads(i) == i.op \in {"Load16", "Load32", "ReadVar16", "ReadVar32"}
Disturbs(i) == is_store(i.op) \/ i.op \in {"WriteVar16", "WriteVar32"} \/ may_clobber_memory(i.op)
(* A memory read that is printed past a write of its block, or in another  *)
(* block than it stands in.                                                *)
MovedRead(inl) ==
  \E q \in AllRefs(ir), k \in 1..3 :
    LET i == At(ir, q) IN
    /\ q \notin inl /\ k <= Len(i.o)
    /\ \E r \in Expansion(inl, {i.o[k]}) \cap inl :
         /\ Reads(At(ir, r))
         /\ r[2] # q[2] \/ \E d \in {Before(ir, q)[j] : j \in DOMAIN Before(ir, q)} :
                             /\ Disturbs(At(ir, d))
                             /\ r \in {Before(ir, d)[j] : j \in DOMAIN Before(ir, d)}
(* A phi whose new value is read by a later phi of the same edge. *)
PhiOrder(inl) ==
  \E b \in Live(ir) : \E j \in DOMAIN Phis(b), k \in 1..Len(Phis(b)) :
    j < k /\ \E n \in DOMAIN At(ir, Phis(b)[k]).o :
               Phis(b)[j] \in Expansion(inl, {At(ir, Phis(b)[k]).o[n]})

(* The printed C does what the guest does, unless a read is moved past a   *)
(* write or phis of one edge depend on each other: the exit write-back and *)
(* its snapshots, the blocks inserted on branch edges and the one-use rule *)
(* change nothing else.                                                    *)
Printed ==
  stage = "final" =>
    LET inl == Inlined IN
    ~MovedRead(inl) /\ ~PhiOrder(inl) => \A in \in Inputs : CRun(in) = GuestRun(in)
====
