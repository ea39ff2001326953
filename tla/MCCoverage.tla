------------------------------ MODULE MCCoverage ------------------------------
(***************************************************************************)
(* Instances of Coverage for TLC: segment 0 with addresses 0 to 4, of      *)
(* which the span asks for 1 to 3.  One function with up to two regions in *)
(* any order, overlapping, touching, empty, inverted or across segments,   *)
(* beside one known by its end only; up to two declared data regions.      *)
(***************************************************************************)
EXTENDS Coverage

Offs == 0 .. 4
Within == {Region(0, s, 0, e) : s \in Offs, e \in Offs}
Odd == {Region(0, 1, 1, 3), Region(1, 1, 1, 3)}

UpToTwo(S) == {<<>>} \cup {<<a>> : a \in S} \cup {<<a, b>> : a \in S, b \in S}
Fn(start, end, regions) == [seg |-> 0, start |-> start, end |-> end, regions |-> regions]

MCFuncs ==
  {<<Fn(0, NoEnd, rs), Fn(3, 4, <<>>)>> : rs \in UpToTwo(Within \cup Odd)}
MCText ==
  UpToTwo({Region(0, s, 0, e) : s \in {1, 2}, e \in {1, 3, 4}} \cup Odd)
=============================================================================
