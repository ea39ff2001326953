---- MODULE MCSsa ----
(***************************************************************************)
(* Guest programs for SsaPipeline: one block, a diamond, a loop with an    *)
(* exit, and a block nothing jumps to.  Bodies come from menus aimed at a  *)
(* question each: what registers carry across joins and loops, what pushes *)
(* and pops become, 32-bit values, calls and interrupts.  Calls are        *)
(* followed by no read of a register value older than the call (entry      *)
(* values are live registers in the C), a slot is pushed and popped in one *)
(* block of a program that calls out, and memory is written at constant    *)
(* addresses only.                                                         *)
(***************************************************************************)
EXTENDS SsaPipeline

R(reg) == <<"reg", reg>>
Block(body, term) == [body |-> body, term |-> term]
Jump(t) == <<"jmp", t>>
If0(reg, t, f) == <<"jcc", "EqFlags", reg, t, f>>
IfNot0(reg, t, f) == <<"jcc", "NeqFlags", reg, t, f>>
Ret == <<"ret">>

Moves == {<<"mov", "BX", R("AX")>>, <<"mov", "AX", R("BX")>>, <<"mov", "CX", R("BX")>>, <<"mov", "AX", K(1)>>}
Sums == {<<"Add", "AX", R("BX")>>, <<"Sub", "BX", K(1)>>, <<"Add", "BX", K(1)>>, <<"Xor", "CX", R("CX")>>,
         <<"Or", "AX", R("AX")>>}
Memory == {<<"load", "AX", K(0)>>, <<"store", K(0), R("BX")>>, <<"load", "CX", R("BX")>>,
           <<"load", "CX", K(5)>>, <<"store", K(5), R("AX")>>}
Wide == {<<"cwd">>, <<"div", K(2)>>, <<"les", K(2)>>, <<"store", K(2), R("AX")>>, <<"store", K(3), R("DX")>>}
Sets == {<<"set", "BX", "AX", "EqFlags">>, <<"set", "BX", "AX", "NeqFlags">>}
Stack == {<<"push", "AX">>, <<"push", "DX">>, <<"pop", "BX">>, <<"pop", "CX">>, <<"pop", "AX">>}

Seqs(S, n) == [1..n -> S]
Balanced(s) == \A k \in 1..Len(s) :
  Cardinality({j \in 1..k : s[j][1] = "pop"}) <= Cardinality({j \in 1..k : s[j][1] = "push"})
Straight(bodies) == {<<Block(x, Ret)>> : x \in bodies}
Diamond(b1, b2, b3, b4) ==
  {<<Block(w, If0("AX", 2, 3)), Block(x, Jump(4)), Block(y, Jump(4)), Block(z, Ret)>> :
     w \in b1, x \in b2, y \in b3, z \in b4}
Loop(b1, b2, b3) ==
  {<<Block(w, Jump(2)), Block(x, IfNot0("BX", 2, 3)), Block(y, Ret)>> : w \in b1, x \in b2, y \in b3}
Dead(b1, b2, b3) ==
  {<<Block(w, Jump(3)), Block(x, Jump(3)), Block(y, Ret)>> : w \in b1, x \in b2, y \in b3}

One(S) == {<<s>> : s \in S}
Plain == Moves \cup Sums
SetUp == {<<<<"mov", "AX", K(1)>>, <<"mov", "BX", K(2)>>>>, <<<<"load", "AX", K(0)>>, <<"mov", "BX", R("AX")>>>>}
Calls == {<<<<"push", "AX">>, <<"call", 1>>, <<"pop", "CX">>>>,
          <<<<"push", "BX">>, <<"push", "AX">>, <<"call", 2>>, <<"Add", "SP", K(2)>>>>,
          <<<<"push", "BX">>, <<"call", 0>>, <<"pop", "BX">>>>}
After == {<<"store", K(0), R("AX")>>, <<"load", "CX", K(0)>>, <<"Add", "AX", R("BX")>>, <<"div", K(2)>>,
          <<"load", "BX", K(5)>>}
IntOnly == <<<<"int">>>>
CountDown == {<<"Sub", "BX", K(1)>>}

Lines ==
  Straight(Seqs(Plain, 3) \cup Seqs(Memory \cup Plain, 2) \cup Seqs(Wide, 3) \cup Seqs(Wide \cup Sets, 2)
           \cup {s \in Seqs(Stack \cup Sums, 3) \cup Seqs(Stack, 4) : Balanced(s)})
CallingOut ==
  Straight({a \o b \o <<c>> : a \in SetUp, b \in Calls, c \in After}
           \cup {a \o b \o <<x>> \o c : a \in SetUp, b \in Calls, c \in Calls, x \in Plain})
  \cup Diamond(SetUp, {IntOnly}, Calls, One(Plain)) \cup Loop(SetUp, {c \o <<x>> : c \in Calls, x \in CountDown}, One(Plain))
(* What an instruction computes before an interrupt it does not compute    *)
(* again after it: the optimiser would merge the two.                      *)
Interrupting ==
  Straight({<<a[1], a[2], <<"int">>, a[3]>> : a \in {s \in Seqs(Plain, 3) : s[3] \notin {s[1], s[2]}}})
Branching ==
  Diamond(One(Moves), One(Plain \cup Memory), One(Sums \cup Memory), One(Moves))
  \cup Diamond({<<<<"cwd">>>>, <<<<"les", K(2)>>>>}, One(Wide), One(Wide),
               {<<<<"div", K(2)>>>>, <<<<"store", K(2), R("AX")>>, <<"store", K(3), R("DX")>>>>})
  \cup Diamond({<<<<"push", "AX">>>>},
               {<<x, y>> : x \in {<<"pop", "BX">>, <<"pop", "CX">>}, y \in {<<"push", "AX">>, <<"push", "DX">>}},
               One(Sums), One({<<"pop", "BX">>, <<"pop", "CX">>}))
Looping ==
  Loop(One(Moves), {<<x, y>> : x \in Plain \cup Sets, y \in CountDown}, One(Moves))
  \cup Loop({<<<<"push", "AX">>>>}, {<<<<"pop", "CX">>, <<"Add", "AX", K(1)>>, <<"push", "AX">>, x>> : x \in CountDown},
            {<<<<"pop", "AX">>>>})
Unreached ==
  Dead(One(Moves), {<<x, y>> : x \in Plain \cup Memory, y \in {<<"push", "AX">>, <<"pop", "BX">>} \cup CountDown},
       {<<x, y>> : x \in Moves, y \in {<<"Add", "AX", R("BX")>>, <<"Xor", "CX", R("CX")>>}})
MCPrograms == Lines \cup CallingOut \cup Interrupting \cup Branching \cup Looping \cup Unreached

MCInputs == {[regs |-> ("AX" :> a @@ "BX" :> b @@ "CX" :> 3 @@ "DX" :> 1 @@ "SP" :> 0),
              ds |-> [x \in 0..(M - 1) |-> (2 * x + 1) % M], ss |-> [x \in 0..(M - 1) |-> (x + 2) % M]] :
               a \in {0, 2}, b \in {0, 2}}
MCGlobals == (0 :> 1 @@ 1 :> 1 @@ 2 :> 2)
====
