---- MODULE MCAbi ----
(***************************************************************************)
(* Programs of three functions for AbiInference: main calls mid, mid calls *)
(* leaf (or itself).  A caller sets a register up before a call, saves one *)
(* across it, passes a word on the stack, branches on the result, keeps a  *)
(* DX of its own or the result's past a call, calls in a loop.  The        *)
(* contract of a call is what the callee really leaves changed, the        *)
(* declarations of inputs start empty.  Each exception of AbiInference     *)
(* (PassesOn, LatePhi, HandsDxOn, TakesDx) is met by some program.         *)
(***************************************************************************)
EXTENDS AbiInference

R(reg) == <<"reg", reg>>
Block(body, term) == [body |-> body, term |-> term]
Jump(t) == <<"jmp", t>>
If0(reg, t, f) == <<"jcc", "EqFlags", reg, t, f>>
IfNot0(reg, t, f) == <<"jcc", "NeqFlags", reg, t, f>>
Ret == <<"ret">>
Straight(body) == <<Block(body, Ret)>>
Known(f) == <<"known", f, <<>>, {}>>

(* code, and the registers of {BX, CX} it leaves changed *)
Fn(code, changes) == [code |-> code, changes |-> changes]
ConstAx == <<"mov", "AX", K(1)>>
Leaves == {
  Fn(Straight(<<<<"mov", "AX", R("BX")>>>>), {}),
  Fn(Straight(<<<<"push", "BX">>, <<"mov", "BX", K(1)>>, <<"store", K(0), R("BX")>>, <<"pop", "BX">>>>), {}),
  Fn(Straight(<<<<"mov", "BX", K(2)>>, <<"mov", "AX", R("BX")>>>>), {"BX"}),
  Fn(Straight(<<<<"store", K(0), R("CX")>>, ConstAx>>), {}),
  Fn(Straight(<<ConstAx, <<"mov", "DX", R("CX")>>>>), {}),
  Fn(Straight(<<<<"store", K(0), R("DX")>>, ConstAx>>), {}),
  Fn(Straight(<<<<"push", "BX">>, <<"mov", "BX", R("CX")>>, <<"Add", "BX", K(1)>>, <<"mov", "AX", R("BX")>>, <<"pop", "BX">>>>), {}),
  Fn(<<Block(<<>>, If0("BX", 2, 3)), Block(<<<<"mov", "AX", R("CX")>>>>, Jump(4)), Block(<<ConstAx>>, Jump(4)), Block(<<>>, Ret)>>, {}),
  Fn(<<Block(<<<<"push", "BX">>, <<"push", "CX">>, <<"mov", "BX", K(2)>>, ConstAx>>, Jump(2)),
       Block(<<<<"Add", "AX", R("CX")>>, <<"Sub", "BX", K(1)>>>>, IfNot0("BX", 2, 3)),
       Block(<<<<"pop", "CX">>, <<"pop", "BX">>>>, Ret)>>, {})}

SetUps == {<<>>, <<<<"mov", "BX", K(1)>>, <<"mov", "CX", K(2)>>>>, <<<<"mov", "BX", R("CX")>>, <<"mov", "CX", K(2)>>>>,
           <<<<"mov", "CX", R("BX")>>, <<"mov", "BX", K(2)>>>>, <<<<"load", "BX", K(0)>>, <<"mov", "CX", R("AX")>>>>}
CallForms(f) == {<<Known(f)>>, <<<<"push", "BX">>, Known(f), <<"pop", "BX">>>>, <<<<"push", "AX">>, Known(f), <<"pop", "CX">>>>,
                 <<<<"push", "AX">>, <<"push", "BX">>, Known(f), <<"Add", "SP", K(2)>>>>}
Afters == {<<>>, <<<<"store", K(1), R("AX")>>>>, <<<<"store", K(1), R("BX")>>>>, <<<<"mov", "DX", K(0)>>>>,
           <<<<"store", K(1), R("DX")>>, <<"mov", "DX", K(1)>>>>, <<<<"mov", "BX", R("DX")>>, <<"mov", "DX", K(0)>>>>}
Callers(f) == {Straight(a \o b \o c) : a \in SetUps, b \in CallForms(f), c \in Afters}
Branchers(f) ==
  {<<Block(a \o <<Known(f), <<"load", "AX", K(7)>>>>, If0("AX", 2, 3)), Block(<<<<"store", K(1), R(x)>>>>, Jump(4)), Block(<<ConstAx>>, Jump(4)),
     Block(<<<<"mov", "DX", K(0)>>>>, Ret)>> : a \in SetUps, x \in {"DX", "BX"}}
(* DX read and written at once, returned in AX, kept or handed on past the *)
(* next call; a DX of the caller's own used after the call.                *)
Keepers(f) ==
  {Straight(a \o <<Known(f)>> \o c) :
     a \in {<<>>, <<<<"mov", "BX", R("DX")>>>>},
     c \in {<<<<"Add", "DX", K(1)>>, <<"store", K(1), R("DX")>>, <<"mov", "DX", K(0)>>>>,
            <<<<"mov", "AX", R("DX")>>>>, <<<<"mov", "AX", R("DX")>>, <<"mov", "DX", K(0)>>>>,
            <<<<"store", K(1), R("BX")>>, <<"mov", "DX", K(0)>>>>,
            <<<<"mov", "BX", R("DX")>>, Known(f), <<"store", K(1), R("BX")>>, <<"mov", "DX", K(0)>>>>,
            <<<<"mov", "CX", R("DX")>>, Known(f), <<"mov", "DX", K(0)>>>>}}
(* The call in a loop: its counter is read before the call or only after. *)
Loops(f) ==
  {<<Block(<<<<"mov", "CX", K(1)>>>>, Jump(2)),
     Block(a \o <<Known(f), <<"store", K(1), R("DX")>>, <<"Sub", "CX", K(1)>>, <<"mov", "DX", K(0)>>>>, IfNot0("CX", 2, 3)),
     Block(<<ConstAx>>, Ret)>> : a \in {<<>>, <<<<"mov", "BX", R("CX")>>>>}}
(* Counts CX down by calling itself, with BX handed on changed or not. *)
Recursive(bx) ==
  <<Block(<<<<"store", K(0), R("BX")>>>>, If0("CX", 3, 2)),
    Block(<<<<"Sub", "CX", K(1)>>, <<"mov", "BX", bx>>, <<"known", "mid", <<>>, {"BX", "CX"}>>, <<"store", K(1), R("DX")>>>>, Jump(3)),
    Block(<<<<"mov", "AX", R("BX")>>>>, Ret)>>

Changes(code, callee) ==
  LET body == code[1].body
      Saved(reg) == \E j, k \in DOMAIN body : j < k /\ body[j] = <<"push", reg>> /\ body[k] = <<"pop", reg>>
      Dest(i) == IF i[1] \in {"mov", "load", "pop"} THEN {i[2]} ELSE {} IN
  {reg \in {"BX", "CX"} : ~Saved(reg) /\ (reg \in callee \/ \E k \in DOMAIN body : reg \in Dest(body[k]))}
Contracted(code, f, changes) ==
  [b \in DOMAIN code |-> [code[b] EXCEPT !.body =
     [k \in DOMAIN @ |-> IF @[k][1] = "known" /\ @[k][2] = f THEN [@[k] EXCEPT ![4] = changes] ELSE @[k]]]]
System(leaf, mid, main) ==
  LET m == Contracted(mid, "leaf", leaf.changes) IN
  [leaf |-> leaf.code, mid |-> m, main |-> Contracted(main, "mid", IF Len(mid) = 3 THEN {"BX", "CX"} ELSE Changes(mid, leaf.changes))]
Mains == {Straight(<<<<"mov", "BX", R("CX")>>, <<"mov", "CX", R("AX")>>, Known("mid")>>),
          Straight(<<<<"mov", "CX", K(1)>>, <<"mov", "BX", K(1)>>, Known("mid"), <<"store", K(2), R("DX")>>, ConstAx>>)}
MCSystems ==
  {System(l, m, n) : l \in Leaves, m \in Callers("leaf") \cup Branchers("leaf") \cup Keepers("leaf") \cup Loops("leaf"), n \in Mains}
  \cup {System(l, Recursive(x), n) : l \in Leaves, x \in {R("CX"), R("DX"), K(1)}, n \in Mains}

MCInputs == {[regs |-> ("AX" :> a @@ "BX" :> b @@ "CX" :> (3 * a) \div 2 @@ "DX" :> 1 @@ "SP" :> 0),
              ds |-> [x \in 0..(M - 1) |-> IF x = 7 THEN b ELSE (2 * x + 1) % M], ss |-> [x \in 0..(M - 1) |-> (x + 2) % M]] :
               a \in {0, 2}, b \in {0, 2}}
MCGlobals == (0 :> 1 @@ 1 :> 1 @@ 2 :> 2)
====
