------------------------------ MODULE MCFuncScan ------------------------------
(***************************************************************************)
(* Instances of FuncScan for TLC: a segment of four bytes, 1 to 4.         *)
(* Functions have regions that touch, that leave a gap, that run past the  *)
(* segment or into another one, that miss the start, or an end only; one   *)
(* starts past the segment.                                                *)
(***************************************************************************)
EXTENDS FuncScan

CONSTANTS Branches, Calls     \* where branches and near calls may go

In(s, e) == Region(0, s, 0, e)
Fn(start, end, regions) ==
  [seg |-> 0, start |-> start, end |-> end, entry |-> NoAddr, regions |-> regions]

MCFuncs ==
  {<<Fn(1, NoEnd, <<In(3, 5), In(1, 3)>>)>>,
   <<Fn(1, NoEnd, <<In(1, 2), In(3, 7)>>)>>,
   <<Fn(2, NoEnd, <<In(3, 5)>>), Fn(6, NoEnd, <<>>)>>,
   <<[Fn(1, 4, <<>>) EXCEPT !.entry = Elsewhere], Fn(3, NoEnd, <<In(3, 4), Region(0, 1, 1, 3)>>)>>}

MCText == {<<>>, <<In(4, 5), In(2, 2), Region(1, 2, 1, 3)>>}

Plain(kind, len) == [kind |-> kind, len |-> len, to |-> NoAddr]

MCInstrs ==
  {Plain("plain", 2), Plain("push_cs", 1), Plain("call_indirect", 1),
   Plain("near", 1), Plain("far", 1), Plain("jmp_indirect", 1), Plain("bad", 1)}
  \cup {[kind |-> kind, len |-> 1, to |-> to] : kind \in {"jmp", "jcc"}, to \in Branches}
  \cup {[kind |-> "call", len |-> 1, to |-> to] : to \in Calls}
  \cup {[kind |-> "jmpf", len |-> 2, to |-> to] : to \in {5, Elsewhere}}
  \cup {[kind |-> "callf", len |-> 2, to |-> to] : to \in {3, Elsewhere}}
=============================================================================
