------------------------------- MODULE MCBatch -------------------------------
(***************************************************************************)
(* Every image of four bytes over a small instruction set under the        *)
(* configurations that matter, decompiled to C; a few images under every   *)
(* combination of modes and of mistakes in the configuration; and images   *)
(* of seven bytes for the block graph and the flag analyses, whose run     *)
(* ends with the argument checks.                                          *)
(***************************************************************************)
EXTENDS Batch

C == 1
Other == 2
Op(kind, len, to) == [kind |-> kind, len |-> len, to |-> to]
R(start, end) == Region(C, start, C, end)
F(start, end, regions) ==
  [name |-> "f", seg |-> C, start |-> start, end |-> end, entry |-> -1, mode |-> "near",
   regions |-> regions]
G == [name |-> "g", seg |-> C, start |-> 2, end |-> 4, entry |-> -1, mode |-> "near",
      regions |-> <<>>]
T(start, end, typed, access) ==
  [name |-> "t", seg |-> C, start |-> start, endseg |-> C, end |-> end, typed |-> typed,
   access |-> access]
Cfg(funcs, text) == [segs |-> <<[name |-> "c", seg |-> C]>>, funcs |-> funcs, text |-> text,
                     indirects |-> <<>>]

Ranges ==
  {F(0, 4, <<>>), F(0, 2, <<>>), F(1, 4, <<>>),
   F(0, -1, <<R(0, 2), R(3, 4)>>), F(1, 4, <<R(0, 4)>>), F(2, -1, <<R(2, 4), R(0, 1)>>),
   F(2, 4, <<R(0, 2), R(2, 4)>>), F(0, 4, <<R(2, 3), R(0, 1)>>)}
WrongRanges ==
  {F(2, 2, <<>>), F(0, -1, <<>>), F(0, 8, <<>>), F(0, 3, <<R(0, 4)>>),
   F(0, -1, <<R(0, 3), R(2, 4)>>), F(0, 4, <<R(0, 2), R(3, 2)>>), F(2, 4, <<R(0, 2)>>),
   F(0, 2, <<R(0, 1), Region(Other, 0, Other, 1)>>), F(0, -1, <<Region(C, 0, Other, 3)>>),
   F(0, 4, <<R(0, 2), R(2, 8)>>), [F(0, 1, <<>>) EXCEPT !.seg = Other],
   [F(0, 2, <<>>) EXCEPT !.entry = 3], [F(0, 2, <<>>) EXCEPT !.mode = "far"],
   [F(0, 2, <<>>) EXCEPT !.name = "g"], F(2, 3, <<>>)}
Texts == {<<>>, <<T(1, 2, FALSE, -1)>>, <<T(2, 4, TRUE, 0)>>, <<T(0, 1, FALSE, -1)>>}
WrongTexts ==
  {<<T(3, 3, FALSE, -1)>>, <<T(3, 8, FALSE, -1)>>, <<T(3, 4, FALSE, 1)>>,
   <<T(3, 4, TRUE, 8)>>, <<T(2, 4, FALSE, -1), T(3, 4, TRUE, -1)>>,
   <<[T(3, 1, FALSE, -1) EXCEPT !.endseg = Other]>>,
   <<[T(0, 1, FALSE, -1) EXCEPT !.seg = Other, !.endseg = Other]>>}

Instrs == {Op("bad", 1, -1), Op("op", 1, -1), Op("op", 2, -1), Op("ret", 1, -1),
           Op("jcc", 1, 3), Op("call", 1, 2)}
Ret == Op("ret", 1, -1)
Padded(f) == f @@ (4 :> Ret) @@ (5 :> Ret) @@ (6 :> Ret)
Img(a, b, c, d) == Padded((0 :> a) @@ (1 :> b) @@ (2 :> c) @@ (3 :> d))
Some ==
  {Img(Op("op", 1, -1), Op("ret", 1, -1), Op("op", 1, -1), Op("ret", 1, -1)),
   Img(Op("callf", 1, 2), Op("ret", 1, -1), Op("push_cs", 1, -1), Op("ret", 1, -1)),
   Img(Op("push_cs", 1, -1), Op("call", 1, 2), Op("op", 1, -1), Op("retf", 1, -1)),
   Img(Op("call_indirect", 1, -1), Op("jmp", 1, 3), Op("hlt", 1, -1), Op("iret", 1, -1)),
   Img(Op("call", 1, 2), Op("jmpf", 1, 0), Op("jmp_indirect", 1, -1), Op("retf", 1, -1)),
   Img(Op("op", 1, -1), Op("jcc", 1, 3), Op("ret", 1, -1), Op("retf", 1, -1)),
   Img(Op("op", 1, -1), Op("ret", 1, -1), Op("bad", 1, -1), Op("ret", 1, -1))}

Sel(kind, name) == [kind |-> kind, name |-> name]
Between(a, b) == [kind |-> "range", start |-> a, end |-> b]
Code_run == [flags |-> {"emit_code"}, select |-> Sel("segment", "c")]
MCSelections ==
  {Sel("segment", "c"), Sel("function", "f"), Sel("segment", "x"), Sel("function", "x"),
   Sel("none", ""), Sel("both", ""), Between(0, 2), Between(1, 8), Between(2, -1), Between(2, 2)}
Flags ==
  {{"emit_code"}, {"emit_code", "strict"}, {"emit_dis", "emit_code"}, {"emit_ast"},
   {"report"}, {"report", "strict"}, {"report", "emit_code"}, {"report", "emit_dis"},
   {"validate_config"}, {"validate_config", "strict"}, {"analyze"}, {"infer_abi"},
   {"report", "analyze"}, {"infer_abi", "emit_code"}, {"validate_config", "emit_dis"},
   {"infer_abi", "build_pin_all"}, {}}
AllArgs == [flags : Flags, select : MCSelections]
FewArgs == [flags : {{"emit_code"}, {"report"}, {"analyze"}, {"validate_config"}, {"infer_abi"}},
            select : {Sel("segment", "c"), Sel("function", "f")}]

\* Images for the block graph and the flags: branches both ways, into an
\* instruction, out of the function, through a table and to another segment;
\* producers, consumers and losers of the carry and the direction flag.
I(kind) == Op(kind, 1, -1)
J(to) == Op("jcc", 1, to)
FlagImages ==
  {(0 :> a) @@ (1 :> b) @@ (2 :> c) @@ (3 :> d) @@ (4 :> e) @@ (5 :> I("adc")) @@ (6 :> g) :
     a \in {I("adc"), I("cmp"), I("std"), J(4)},
     b \in {I("cmp"), I("std"), I("mul"), J(3)},
     c \in {I("rep_movs"), I("cld"), J(5), J(0)},
     d \in {I("rep_movs"), Op("jmp", 1, 1), I("popf"), I("nop")},
     e \in {I("rep_cmps"), I("nop"), J(2)},
     g \in {Ret, Op("jmp", 1, 0)}}
GraphImages ==
  {(0 :> a) @@ (1 :> b) @@ (2 :> c) @@ (3 :> d) @@ (4 :> e) @@ (5 :> Ret) @@ (6 :> g) :
     a \in {I("op"), J(3), Op("jmpf", 1, 70000), Op("jmp_indirect", 1, 4)},
     b \in {Ret, J(2), Op("jmp_indirect", 1, -1)},
     c \in {I("op"), I("nop"), Op("op", 2, -1), Op("jmpf", 1, 0)},
     d \in {I("hlt"), Ret, J(7)},
     e \in {Op("iret", 1, 2), Op("jmp", 1, 1), J(9)},
     g \in {Ret, Op("jmp", 1, 0)}}
Wide ==
  {F(0, 7, <<>>), F(2, -1, <<R(0, 7)>>), F(1, -1, <<R(0, 3), R(4, 7)>>), F(4, -1, <<R(3, 7), R(0, 2)>>)}
WideTexts == {<<>>, <<T(4, 6, TRUE, -1)>>, <<T(4, 6, FALSE, -1)>>}
Refused == [flags |-> {}, select |-> Sel("both", "")]

Family(cfgs, images, A) == [cfgs |-> cfgs, images |-> images, args |-> A]
Good == Cfg(<<F(0, 2, <<>>), G>>, <<>>)
MistakenConfigs ==
  {Cfg(<<f, G>>, <<>>) : f \in WrongRanges}
  \cup {Cfg(<<F(0, 2, <<>>), G>>, t) : t \in WrongTexts}
  \cup {[Good EXCEPT !.segs = s] : s \in {<<>>, <<[name |-> "c", seg |-> C], [name |-> "c", seg |-> Other]>>,
                                          <<[name |-> "c", seg |-> C], [name |-> "d", seg |-> C]>>}}
  \cup {[Good EXCEPT !.indirects = s] :
          s \in {<<[seg |-> C, addr |-> 1]>>, <<[seg |-> C, addr |-> 1], [seg |-> C, addr |-> 1]>>,
                 <<[seg |-> C, addr |-> 8]>>}}
  \cup {[Good EXCEPT !.funcs = <<>>]}

MCScenarios ==
  {Family({Cfg(<<f>>, t) : f \in Ranges, t \in Texts}, {Padded(f) : f \in [0 .. 3 -> Instrs]}, {Code_run}),
   Family({Cfg(<<f>>, <<>>) : f \in Wide}, FlagImages, {Refused}),
   Family({Cfg(<<f>>, t) : f \in Wide, t \in WideTexts}, GraphImages, {Refused}),
   Family({Good}, Some, AllArgs),
   Family(MistakenConfigs, Some, FewArgs)}
=============================================================================
