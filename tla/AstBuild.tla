------------------------------ MODULE AstBuild ------------------------------
(***************************************************************************)
(* dis86/src/decompile/ast.rs and gen.rs: the statements of a structured   *)
(* function, and where control goes in the C that is printed for them.     *)
(* What a block computes is one "code" statement; the properties are about *)
(* the order in which the printed code reaches the blocks.                 *)
(***************************************************************************)
EXTENDS ControlFlow, Integers

VARIABLE ast   \* the statements of ast::Function, <<>> until it is built

vars == <<cfg, data, bodies, work, phase, labeled, ast>>

Stmt(t, b) == [t |-> t, b |-> b]

(* Builder::emit_jump.  Jump.cond_inverted has turned the condition of     *)
(* CondTargetFalse round; CondTargetBoth prints as if/else of two gotos.   *)
EmitJump(jump) ==
  LET Goto(i) == << Stmt("goto", EntryBlock(jump.tgts[i], {})) >>
      Cond(inverted, then, else) ==
        << [t |-> "if", inverted |-> inverted, then |-> then, else |-> else] >>
  IN  CASE jump.to \in {"none", "fallthrough"} -> << >>
        [] jump.to = "target" -> Goto(1)
        [] jump.to = "true"   -> Cond(FALSE, Goto(1), << >>)
        [] jump.to = "false"  -> Cond(TRUE, Goto(1), << >>)
        [] jump.to = "both"   -> Cond(FALSE, Goto(1), Goto(2))
        [] jump.to = "table"  -> << Stmt("panic", 0) >>

(* convert_basic_block without its jump, also the header of an if or switch *)
EmitBlock(b) == (IF b \in labeled THEN << Stmt("label", b) >> ELSE << >>) \o << Stmt("code", b) >>

RECURSIVE ConvertBodyUntil(_, _, _), ConvertElem(_, _), ConvertCases(_, _, _, _)

(* convert_body_until: consume the elements of one depth from the flat     *)
(* iteration; an if's then-arm stops at the first element of its else-arm. *)
ConvertBodyUntil(it, depth, stop) ==
  IF it = << >> \/ (it # << >> /\ (Head(it).depth < depth \/ Head(it).id = stop))
  THEN [blk |-> << >>, it |-> it]
  ELSE IF Head(it).depth > depth THEN [blk |-> << Stmt("panic", 0) >>, it |-> << >>]
  ELSE LET one  == ConvertElem(it, depth)
           rest == ConvertBodyUntil(one.it, depth, stop)
       IN  [blk |-> one.blk \o rest.blk, it |-> rest.it]

ConvertBody(it, depth) == ConvertBodyUntil(it, depth, 0)

(* convert_ifstmt *)
ConvertIf_nostop(id, it, depth) ==
  LET then == ConvertBodyUntil(it, depth + 1, 0)
  IN  [blk |-> EmitBlock(data[id].entry)
                 \o << [t |-> "if", inverted |-> data[id].inverted, then |-> then.blk, else |-> << >>] >>
                 \o EmitJump(data[id].jump),
       it  |-> then.it]
ConvertIf(id, it, depth) ==
  LET inner == data[id].inner
      stop  == IF Len(inner) = 2 THEN bodies[inner[2]].layout[1] ELSE 0
      then  == ConvertBodyUntil(it, depth + 1, stop)
      else  == IF Len(inner) = 2 THEN ConvertBody(then.it, depth + 1) ELSE [blk |-> << >>, it |-> then.it]
  IN  [blk |-> EmitBlock(data[id].entry)
                 \o << [t |-> "if", inverted |-> data[id].inverted, then |-> then.blk, else |-> else.blk] >>
                 \o EmitJump(data[id].jump),
       it  |-> else.it]

(* The cases of convert_switch: gotos to one label share a case *)
ConvertCases(it, depth, idx, cases) ==
  IF it = << >> \/ (it # << >> /\ Head(it).depth <= depth) THEN [cases |-> cases, it |-> it]
  ELSE IF data[Head(it).id].kind = "goto"
       THEN LET label == EntryBlock(Head(it).id, {})
                same  == {c \in DOMAIN cases : cases[c].goto = label}
            IN  ConvertCases(Tail(it), depth, idx + 1,
                  IF same # {}
                  THEN [cases EXCEPT ![Min(same)].vals = @ \cup {idx}]
                  ELSE Append(cases, [vals |-> {idx}, goto |-> label, body |-> << Stmt("goto", label) >>]))
       ELSE LET body == ConvertBody(Tail(it), depth + 2)
            IN  ConvertCases(body.it, depth, idx + 1,
                  Append(cases, [vals |-> {idx}, goto |-> 0, body |-> body.blk]))

(* convert_switch *)
ConvertSwitch(id, it, depth) ==
  LET c == ConvertCases(it, depth, 1, << >>)
  IN  [blk |-> EmitBlock(data[id].entry) \o << [t |-> "switch", cases |-> c.cases] >>, it |-> c.it]

(* convert_basic_block, convert_loop and the dispatch of convert_body_until *)
ConvertElem(it, depth) ==
  LET id == Head(it).id
  IN  CASE data[id].kind = "block"  -> [blk |-> EmitBlock(id) \o EmitJump(data[id].jump), it |-> Tail(it)]
        [] data[id].kind = "loop"   -> LET body == ConvertBody(Tail(it), depth + 1)
                                       IN  [blk |-> << [t |-> "loop", body |-> body.blk] >> \o EmitJump(data[id].jump),
                                            it  |-> body.it]
        [] data[id].kind = "if"     -> ConvertIf(id, Tail(it), depth)
        [] data[id].kind = "switch" -> ConvertSwitch(id, Tail(it), depth)
        [] OTHER                    -> [blk |-> << Stmt("panic", 0) >>, it |-> Tail(it)]

(* Builder::build *)
Build ==
  /\ phase = "emit"
  /\ LET all == ConvertBody(Iter, 0)
     IN  /\ ast' = all.blk
         /\ phase' = IF all.it = << >> THEN "done" ELSE "panic rest"
  /\ UNCHANGED <<cfg, data, bodies, work, labeled>>

Init == CFInit /\ ast = << >>

Next == \/ InferLoop /\ UNCHANGED ast
        \/ InferSwitch /\ UNCHANGED ast
        \/ InferIf /\ UNCHANGED ast
        \/ Descend /\ UNCHANGED ast
        \/ ScheduleLayout /\ UNCHANGED ast
        \/ LabelBlocks /\ UNCHANGED ast
        \/ Build

Spec == Init /\ [][Next]_vars

--------------------------------------------------------------------------------
(* Where control goes in the printed C (Gen::stmt).  A continuation k is   *)
(* the stack of statement lists still to run.                              *)

NoBlock == 0     \* control runs off the function's last statement
Nowhere == -1    \* a goto without its label, the default case, a panic

RECURSIVE Labels(_), Codes(_), First(_, _, _), Edges(_, _, _)

Labels(ss) ==
  UNION {CASE s.t = "label"  -> {s.b}
           [] s.t = "loop"   -> Labels(s.body)
           [] s.t = "if"     -> Labels(s.then) \cup Labels(s.else)
           [] s.t = "switch" -> UNION {Labels(c.body) : c \in Range(s.cases)}
           [] OTHER          -> {} : s \in Range(ss)}

(* The blocks in the order they are printed *)
Codes(ss) ==
  FlattenSeq([i \in DOMAIN ss |->
    CASE ss[i].t = "code"   -> << ss[i].b >>
      [] ss[i].t = "loop"   -> Codes(ss[i].body)
      [] ss[i].t = "if"     -> Codes(ss[i].then) \o Codes(ss[i].else)
      [] ss[i].t = "switch" -> FlattenSeq([c \in DOMAIN ss[i].cases |-> Codes(ss[i].cases[c].body)])
      [] OTHER              -> << >>])

(* The first block executed from ss on *)
First(ss, k, labels) ==
  IF ss = << >> THEN IF k = << >> THEN NoBlock ELSE First(Head(k), Tail(k), labels)
  ELSE LET s == Head(ss)
       IN  CASE s.t = "label" -> First(Tail(ss), k, labels)
             [] s.t = "code"  -> s.b
             [] s.t = "goto"  -> IF s.b \in labels THEN s.b ELSE Nowhere
             [] s.t = "loop"  -> First(s.body, <<ss>> \o k, labels)
             [] OTHER         -> Nowhere

(* What follows case c of a switch: the later cases, then the default *)
AfterCase(cases, c) ==
  [i \in 1..(Len(cases) - c) |-> cases[c + i].body] \o << << Stmt("unreachable", 0) >> >>

(* Every way control leaves a block: <<block, exit taken, block reached>> *)
Edges(ss, k, labels) ==
  IF ss = << >> THEN {}
  ELSE
  LET s    == Head(ss)
      rest == Tail(ss)
      Arms(branch) == << <<branch.then, <<Tail(rest)>> \o k>>, <<branch.else, <<Tail(rest)>> \o k>> >>
      Leave(b) ==
        IF cfg.exits[b] = << >> THEN {}
        ELSE IF rest # << >> /\ rest[1].t = "if"
        THEN {<<b, i, First(Arms(rest[1])[IF rest[1].inverted THEN 3 - i ELSE i][1],
                            <<Tail(rest)>> \o k, labels)>> : i \in 1..2}
        ELSE IF rest # << >> /\ rest[1].t = "switch"
        THEN {<<b, i, LET c == CHOOSE c \in DOMAIN rest[1].cases : i \in rest[1].cases[c].vals
                      IN  First(rest[1].cases[c].body, AfterCase(rest[1].cases, c), labels)>>
                : i \in DOMAIN cfg.exits[b]}
        ELSE {<<b, 1, First(rest, k, labels)>>}
  IN  Edges(rest, k, labels) \cup
      CASE s.t = "code"   -> Leave(s.b)
        [] s.t = "loop"   -> Edges(s.body, <<ss>> \o k, labels)
        [] s.t = "if"     -> Edges(s.then, <<rest>> \o k, labels) \cup Edges(s.else, <<rest>> \o k, labels)
        [] s.t = "switch" -> UNION {Edges(s.cases[c].body, AfterCase(s.cases, c), labels) : c \in DOMAIN s.cases}
        [] OTHER          -> {}

TextEdges == Edges(ast, << >>, Labels(ast))
CfgEdges  == UNION {{<<b, i, cfg.exits[b][i]>> : i \in DOMAIN cfg.exits[b]} : b \in Blocks(cfg)}

--------------------------------------------------------------------------------
RECURSIVE Cases(_)
Cases(ss) ==
  UNION {CASE s.t = "loop"   -> Cases(s.body)
           [] s.t = "if"     -> Cases(s.then) \cup Cases(s.else)
           [] s.t = "switch" -> Range(s.cases) \cup UNION {Cases(c.body) : c \in Range(s.cases)}
           [] OTHER          -> {} : s \in Range(ss)}

(* The blocks from which control reaches the end of a case: Gen::stmt      *)
(* prints no break there (gen.rs:439-458).                                 *)
RunsOn == {e[1] : e \in {f \in UNION {Edges(c.body, << >>, Labels(ast)) : c \in Cases(ast)} : f[3] = NoBlock}}

(* The printed code follows the graph: from every block, every outcome of  *)
(* its branch reaches the block the IR names, through fallthrough, goto,   *)
(* while(1), if/else and switch.  Nothing is claimed of a block from which *)
(* the end of a case is reached: without a break it runs on into the next. *)
FlowPreserved ==
  phase = "done" => {e \in TextEdges : e[1] \notin RunsOn} = {e \in CfgEdges : e[1] \notin RunsOn}

(* Every block is printed exactly once, the function's entry first. *)
PrintedOnce ==
  phase = "done" => /\ Len(Codes(ast)) = Cardinality(Blocks(cfg))
                    /\ Range(Codes(ast)) = Blocks(cfg)
                    /\ Codes(ast)[1] = 1

(* Which asserts and unwraps of the passes can fail, and when: none but    *)
(* these three.  infer_if may take the entry of the body it works on into  *)
(* an arm, so that the body has no entry to lay out first.  A jump table   *)
(* on a cycle may be taken into its own case (infer_switch).  With a jump  *)
(* table above a cycle, schedule_layout_body may be sent to an element it  *)
(* has not got.  Never do the arms of an if disagree on what follows, is a *)
(* label a cycle of gotos, or an element left when the text is built.      *)
Panics == {"panic header", "panic unavailable", "panic entry", "panic arms", "panic cycle", "panic rest"}
EntryTaken ==
  \E b \in DOMAIN bodies, e \in DOMAIN data :
    /\ data[e].kind = "if" /\ LookupFromId(bodies[b], bodies[b].entry) = 0
    /\ \E arm \in Range(data[e].inner) :
         bodies[b].entry \in bodies[arm].elems \cup DOMAIN bodies[arm].remap
RECURSIVE Onward(_)
Onward(S) ==
  LET T == S \cup UNION {Range(cfg.exits[b]) : b \in S} IN IF T = S THEN S ELSE Onward(T)
After(b) == Onward(Range(cfg.exits[b]))
PanicExplained ==
  phase \in Panics =>
    \/ phase = "panic entry" /\ EntryTaken
    \/ phase = "panic header" /\ \E t \in cfg.table : t \in After(t)
    \/ phase = "panic unavailable" /\ \E t \in cfg.table : \E b \in After(t) : b \in After(b)

(* While structure is inferred no block gets lost or doubled: every block  *)
(* is in exactly one body or the header of exactly one if or switch.       *)
Partitioned ==
  \A b \in Blocks(cfg) :
    Cardinality({i \in DOMAIN bodies : b \in bodies[i].elems})
      + Cardinality({e \in DOMAIN data : data[e].kind \in {"if", "switch"} /\ data[e].entry = b}) = 1

(* Every round of loop inference takes an entry no loop had before, so the *)
(* repeated passes reach their fixpoint.                                   *)
LoopEntriesDistinct ==
  \A d, e \in DOMAIN data :
    d # e /\ data[d].kind = "loop" /\ data[e].kind = "loop" => data[d].entry # data[e].entry

(* The structure found is a partition of the graph at every step, and the  *)
(* text printed from it has every block once, the entry first.             *)
LayoutExact == PrintedOnce /\ Partitioned /\ LoopEntriesDistinct
================================================================================
