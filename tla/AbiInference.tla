---- MODULE AbiInference ----
(***************************************************************************)
(* The calling-convention report over the optimised IR (decompile/abi.rs,  *)
(* app_infer.rs): which registers a function takes from its caller, and    *)
(* whether a caller consumes the high half of its result.  A caller sets   *)
(* up what its callees declare, so the functions are built again with the  *)
(* inferred declarations until nothing changes.                            *)
(*                                                                         *)
(* Every function is configured, returns DX:AX by default, and is called   *)
(* by <<"known", name, regargs, contract>> (SsaIr), the regargs filled in  *)
(* at each round.                                                          *)
(***************************************************************************)
EXTENDS SsaOpt, GuestSem

CONSTANTS Systems,            \* programs: [function name -> sequence of blocks [body, term]]
          Inputs,             \* guest states at entry: [regs, ds, ss]
          MAX_FIXPOINT_ITERS, \* rounds before the inference gives up (8 in the code)
          Fuel                \* guest blocks executed before a run is cut

VARIABLES sys,       \* the program under analysis
          regargs,   \* the working declarations: function -> registers, <<>> for none
          irs,       \* the functions as built last
          iters,     \* rounds begun
          converged, \* the last round changed no declaration
          rows,      \* the report: function -> registers and return type
          status     \* "build" and the stages after it, "compare", "report" or "done"
vars == <<sys, regargs, irs, iters, converged, rows, status>>

CANDIDATES == <<"AX", "BX", "CX", "DX">>
Names == DOMAIN sys

(***************************************************************************)
(* What can reach an observable effect (semantic_live).                    *)
(***************************************************************************)
RECURSIVE ReachFrom(_, _)
ReachFrom(ir, S) ==
  LET more == UNION {{block_exits(ir, b)[k] : k \in DOMAIN block_exits(ir, b)} : b \in S} IN
  IF more \subseteq S THEN S ELSE ReachFrom(ir, S \cup more)
reachable_blocks(ir) == ReachFrom(ir, {1})
ReachableRefs(ir) == {r \in AllRefs(ir) : r[2] \in reachable_blocks(ir)}

is_root(i) ==
  \/ i.op = "Ret"
  \/ /\ has_side_effects(i.op) \/ "PIN" \in i.at
     /\ i.op # "Pin"
     /\ i.at \cap {"EXIT_STATE", "STACK_SAVE"} = {}

closure(ir, roots) == {r \in Closure(ir, roots, {}) : IsInstr(r)}

stack_saves_never_read(ir, live) == {}
(* Stack saves whose slot a live instruction reads. *)
stack_saves_read_by_live(ir, live) ==
  LET symbols == {At(ir, r).o[1] : r \in {q \in live : At(ir, q).op = "ReadVar16"}}
      memory == {SubSeq(At(ir, r).o, 1, 2) : r \in {q \in live : is_load(At(ir, q).op)}} IN
  {r \in ReachableRefs(ir) \ live :
     LET i == At(ir, r) IN
     /\ "STACK_SAVE" \in i.at
     /\ \/ i.op = "WriteVar16" /\ i.o[1] \in symbols
        \/ is_store(i.op) /\ SubSeq(i.o, 1, 2) \in memory}

semantic_live(ir) ==
  LET live == closure(ir, {r \in ReachableRefs(ir) : is_root(At(ir, r))}) IN
  live \cup closure(ir, stack_saves_read_by_live(ir, live))

(* A ret's own AX and DX operands are its result, a contract's register is *)
(* the callee's output: neither is an input.                               *)
infer_register_inputs(ir) ==
  LET EntryReads(r) ==
        LET i == At(ir, r) IN
        IF "CALL_CONTRACT" \in i.at THEN {}
        ELSE {reg \in {i.o[k][2] : k \in {k \in DOMAIN i.o : i.o[k][1] = "init"}} :
                ~(i.op = "Ret" /\ reg \in {"AX", "DX"})}
      found == UNION {EntryReads(r) : r \in semantic_live(ir)} IN
  SelectSeq(CANDIDATES, LAMBDA reg : reg \in found)

(***************************************************************************)
(* Whether a caller consumes DX after a call.  The scan of the call's own  *)
(* block begins at the position after the call's number in the pool.       *)
(***************************************************************************)
projections == {"Ref", "Upper16", "Lower16", "Or"}
derives_from(ir, v, targets) == Closure(ir, {v}, projections) \cap targets # {}
dx_result_of_call(ir, call) == {r \in AllRefs(ir) : Is(ir, r, "Upper16") /\ At(ir, r).o[1] = call}
writes_dx(i) ==
  \/ is_call(i.op) \/ i.op = "Int"
  \/ i.op = "WriteVar16" /\ "EXIT_STATE" \notin i.at /\ i.o[1] = Register("DX")

reads_dx_dead(ir, live, targets, r) ==
  \E j \in DOMAIN At(ir, r).o : derives_from(ir, At(ir, r).o[j], targets)
reads_dx(ir, live, targets, r) ==
  r \in live /\ \E j \in DOMAIN At(ir, r).o : derives_from(ir, At(ir, r).o[j], targets)

(* The scan of a block from a position: does it read DX, or leave it alone *)
(* to its end?                                                             *)
ScanDx(ir, live, targets, b, after) ==
  LET at == {k \in DOMAIN ir[b].code : k > after}
      stops == {k \in at : writes_dx(At(ir, Refs(ir, b)[k]))} IN
  [reads |-> \E k \in at : reads_dx(ir, live, targets, Refs(ir, b)[k]) /\ \A j \in stops : k < j,
   through |-> stops = {}]
successors(ir, b) ==
  {block_exits(ir, b)[k] : k \in DOMAIN block_exits(ir, b)}
    \cup {c \in Live(ir) : \E k \in DOMAIN ir[c].preds : ir[c].preds[k] = b}
RECURSIVE ScanOn(_, _, _, _, _)
ScanOn(ir, live, targets, seen, todo) ==
  LET b == CHOOSE b \in todo : TRUE
      s == ScanDx(ir, live, targets, b, 0) IN
  IF todo = {} THEN FALSE
  ELSE s.reads \/ ScanOn(ir, live, targets, seen \cup {b},
                         (todo \cup (IF s.through THEN successors(ir, b) ELSE {})) \ (seen \cup {b}))
caller_reads_dx_after_call(ir, live, call) ==
  LET b == call[2]
      targets == dx_result_of_call(ir, call) \cup {Entry("DX")}
      first == ScanDx(ir, live, targets, b, call[3]) IN
  /\ call \in live
  /\ \/ first.reads
     \/ first.through /\ ScanOn(ir, live, targets, {b}, successors(ir, b) \ {b})

ir_dx_reads(ir) ==
  {At(ir, r).o[1][2] : r \in {q \in AllRefs(ir) : /\ At(ir, q).op = "CallArgs"
                                                  /\ caller_reads_dx_after_call(ir, semantic_live(ir), q)}}
has_reachable_ret(ir) == \E r \in ReachableRefs(ir) : At(ir, r).op = "Ret"

(***************************************************************************)
(* The fixpoint loop.                                                      *)
(***************************************************************************)
Declared(i, decl) == IF i[1] = "known" THEN <<"known", i[2], decl[i[2]], i[4]>> ELSE i
Annotate(p, decl) ==
  [b \in DOMAIN p |-> [p[b] EXCEPT !.body = [k \in DOMAIN p[b].body |-> Declared(p[b].body[k], decl)]]]
inferred == [f \in Names |-> infer_register_inputs(irs[f])]
none == [f \in Names |-> <<>>]

Init ==
  /\ sys \in Systems
  /\ regargs = none /\ irs = none /\ iters = 0 /\ converged = FALSE /\ rows = none /\ status = "build"

(* build_all: every function through the stages of SsaPipeline. *)
Stage(from, to, built) ==
  /\ status = from /\ status' = to
  /\ irs' = [f \in Names |-> built[f]]
  /\ UNCHANGED <<sys, regargs, converged, rows>>
build_all ==
  /\ Stage("build", "built", [f \in Names |-> build(Annotate(sys[f], regargs))])
  /\ iters' = iters + 1
Symbolize == Stage("built", "sym", [f \in Names |-> symbolize(optimize(irs[f]))]) /\ UNCHANGED iters
Forward == Stage("sym", "fwd", [f \in Names |-> optimize(Sweep(forward_store_to_load, irs[f]))]) /\ UNCHANGED iters
Lift == Stage("fwd", "lifted", [f \in Names |-> optimize(mem_symbol_to_ref(irs[f]))]) /\ UNCHANGED iters
finalize_for_emission ==
  Stage("lifted", "compare", [f \in Names |-> finalize(optimize(fuse_mem(irs[f])))]) /\ UNCHANGED iters

Settled ==
  /\ status = "compare" /\ regargs = inferred
  /\ converged' = TRUE /\ status' = "report"
  /\ UNCHANGED <<sys, regargs, irs, iters, rows>>
update_regargs ==
  /\ status = "compare" /\ regargs # inferred
  /\ regargs' = inferred
  /\ status' = IF iters = MAX_FIXPOINT_ITERS THEN "report" ELSE "build"
  /\ UNCHANGED <<sys, irs, iters, converged, rows>>

(* The rows: registers, and the return type of a function without one. *)
report ==
  /\ status = "report"
  /\ LET dx_reads == UNION {ir_dx_reads(irs[f]) : f \in Names} IN
     rows' = [f \in Names |-> [regs |-> inferred[f],
                               ret |-> IF ~has_reachable_ret(irs[f]) THEN "void"
                                       ELSE IF f \in dx_reads THEN "u32" ELSE "u16"]]
  /\ status' = "done"
  /\ UNCHANGED <<sys, regargs, irs, iters, converged>>

Next == build_all \/ Symbolize \/ Forward \/ Lift \/ finalize_for_emission \/ Settled \/ update_regargs \/ report
Spec == Init /\ [][Next]_vars

(***************************************************************************)
(* The guest, callees included.  A state also counts the known calls made  *)
(* by the function under observation: after call number poke DX is off by  *)
(* one, and the run ends at the next call, noting what that callee gets.   *)
(***************************************************************************)
Start(in, poke, off) ==
  [regs |-> in.regs, ds |-> in.ds, ss |-> in.ss, seen |-> <<>>, fuel |-> Fuel,
   depth |-> 0, calls |-> 0, poke |-> poke, off |-> off, callee |-> "none"]

RECURSIVE Run(_, _, _)
RECURSIVE Body(_, _, _)
RegargsOf(f) == {regargs[f][k] : k \in DOMAIN regargs[f]}
(* What the callee of body[k] is handed: words on the stack, registers. *)
Handed(s, body, k, regs) ==
  <<body[k][2], [j \in 1..InferredArgs(body, k) |-> s.ss[(s.regs["SP"] + j - 1) % M]], [reg \in regs |-> s.regs[reg]]>>
Invoke(s, body, k) ==
  LET g == body[k][2]
      sp == s.regs["SP"]
      top == s.depth = 0
      n == IF top THEN s.calls + 1 ELSE s.calls
      entered == [s EXCEPT !.regs["SP"] = (sp - 1) % M, !.ss[(sp - 1) % M] = 0, !.depth = @ + 1, !.calls = n,
                           !.seen = Append(@, Handed(s, body, k, RegargsOf(g)))]
      back == [Run(entered, g, 1) EXCEPT !.regs["SP"] = sp, !.depth = s.depth] IN
  IF top /\ s.calls = s.poke /\ s.poke > 0
  THEN [s EXCEPT !.fuel = 0, !.seen = Append(@, <<s.ds, Handed(s, body, k, RegargsOf(g))>>)]
  ELSE IF top /\ n = s.poke THEN [back EXCEPT !.regs["DX"] = (@ + s.off) % M, !.callee = g]
  ELSE back
Body(s, body, k) ==
  IF k > Len(body) \/ s.fuel = 0 THEN s
  ELSE Body(IF body[k][1] = "known" THEN Invoke(s, body, k) ELSE GuestStep(s, body, k), body, k + 1)
Run(s, f, b) ==
  LET t == Body([s EXCEPT !.fuel = @ - 1], sys[f][b].body, 1)
      e == sys[f][b].term IN
  IF s.fuel = 0 \/ t.fuel = 0 THEN [t EXCEPT !.fuel = 0, !.regs["AX"] = 0, !.regs["DX"] = 0]
  ELSE CASE e[1] = "ret" -> t
         [] e[1] = "jmp" -> Run(t, f, e[2])
         [] e[1] = "jcc" -> Run(t, f, IF Compute(e[2], <<t.regs[e[3]]>>) = 1 THEN e[4] ELSE e[5])
Effects(s) == <<s.seen, s.ds>>
Seen(s) == <<Effects(s), s.regs["AX"], s.regs["DX"]>>

(***************************************************************************)
(* Properties.                                                             *)
(***************************************************************************)
Calls(f) == {r \in ReachableRefs(irs[f]) : At(irs[f], r).op = "CallArgs"}
(* A call that hands on a declared input still holding its entry value: no *)
(* write of the register stands between it and the call before it.         *)
PassesOn(f) ==
  \E call \in Calls(f) :
    LET ir == irs[f]
        b4 == Before(ir, call)
        since == {k \in DOMAIN b4 : \A j \in DOMAIN b4 : is_call(At(ir, b4[j]).op) => j < k} IN
    \E reg \in RegargsOf(At(ir, call).o[1][2]) :
      ~\E k \in since : At(ir, b4[k]).op = "WriteVar16" /\ At(ir, b4[k]).o[1] = Register(reg)
RECURSIVE CalleesOf(_)
CalleesOf(S) ==
  LET more == UNION {{At(irs[f], r).o[1][2] : r \in Calls(f)} : f \in S} IN
  IF more \subseteq S THEN S ELSE CalleesOf(S \cup more)

Varied(in, reg) == {[in EXCEPT !.regs[reg] = n] : n \in 0..3}
Matters(f, reg, obs(_)) ==
  \E in \in Inputs : \E x \in Varied(in, reg) : obs(Run(Start(in, 0, 0), f, 1)) # obs(Run(Start(x, 0, 0), f, 1))
Finished == status = "done" /\ converged

(* A register the report leaves out makes no difference: whatever the      *)
(* caller leaves in it, the function and its callees make the same calls   *)
(* with the same arguments, write the same memory and return the same; and *)
(* the rounds end by agreeing, not by running out.                         *)
(* Exempt: a function that (itself or a callee) hands on an input it never *)
(* touched, which the inference does not follow; and AX and DX, the result *)
(* registers, where they can only reach the result or cross a call.        *)
InputsFound ==
  status = "done" =>
    /\ converged
    /\ \A f \in Names : (~\E g \in CalleesOf({f}) : PassesOn(g)) =>
         /\ \A reg \in {"BX", "CX"} \ RegargsOf(f) : ~Matters(f, reg, Seen)
         /\ Calls(f) = {} => \A reg \in {"AX", "DX"} \ RegargsOf(f) : ~Matters(f, reg, Effects)

(* And a register it names does: saving and restoring it, passing it on    *)
(* the way out or getting it back from a callee is not taking it as input. *)
InputsEarned == Finished => \A f \in Names : \A reg \in RegargsOf(f) : Matters(f, reg, Seen)

(* Both ways: the declared inputs are exactly the inputs (abi.rs liveness   *)
(* of entry registers, the rounds of app_infer.rs).                         *)
InputsExact == InputsFound /\ InputsEarned

(* Two callers whose reads of DX the scan misses.  In the first the block  *)
(* of a call has a phi made after the call, erased since or not: it stands *)
(* at the front, so the position of the call is past its number, and the   *)
(* scan, which begins after that number, ends at the call itself.  The     *)
(* second hands the DX of a result on as a declared input: that write of   *)
(* DX ends the scan before its own operand is looked at.                   *)
LatePhi(f) ==
  \E call \in Calls(f) : irs[f][call[2]].code[call[3]] # call[3]
HandsDxOn(f) ==
  LET ir == irs[f] IN
  \E r \in AllRefs(ir), call \in Calls(f) :
    /\ At(ir, r).op = "WriteVar16" /\ writes_dx(At(ir, r))
    /\ derives_from(ir, At(ir, r).o[2], dx_result_of_call(ir, call))
(* And one it counts too much for: a caller that takes DX as an input of   *)
(* its own and makes the call before its last use of it.                   *)
TakesDx(f) == "DX" \in RegargsOf(f)

(* The high half of a result is reported as used if a wrong DX after a     *)
(* call changes what the caller does up to its next call (whose arguments  *)
(* count) or its return: apart from the callers LatePhi and HandsDxOn,     *)
(* where the code misses it.  What is kept beyond the next call is not     *)
(* followed, neither here nor by the code.                                 *)
Poked(f, in, n, off) == Run(Start(in, n, off), f, 1)
DxReadsFound ==
  status = "done" =>
    \A f \in {f \in Names : ~LatePhi(f) /\ ~HandsDxOn(f)}, in \in Inputs, n \in 1..2 :
      LET right == Poked(f, in, n, 0) IN
      right.callee # "none" /\ Seen(Poked(f, in, n, 1)) # Seen(right) => rows[right.callee].ret = "u32"
(* And only then, if no caller of the function is one that TakesDx.        *)
DxReadsEarned ==
  status = "done" =>
    \A g \in {g \in Names : rows[g].ret = "u32" /\ ~\E f \in Names : TakesDx(f) /\ g \in CalleesOf({f})} :
      \E f \in Names, in \in Inputs, n \in 1..2 :
        LET right == Poked(f, in, n, 0) IN
        right.callee = g /\ Seen(Poked(f, in, n, 1)) # Seen(right)
(* Both ways, for the callers the three exceptions leave (abi.rs: the scan *)
(* after a call, the projections of its result).                           *)
DxReadsExact == DxReadsFound /\ DxReadsEarned
====
