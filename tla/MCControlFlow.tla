--------------------------- MODULE MCControlFlow ---------------------------
(***************************************************************************)
(* The graphs: blocks in address order, the entry (1) has no predecessor,  *)
(* the second exit of a conditional jump is the next block, every block is *)
(* reachable.                                                              *)
(***************************************************************************)
EXTENDS AstBuild

CONSTANTS
  NPlain,   \* blocks of the graphs without phis and tables
  NPhi,     \* blocks of the graphs whose joins have phis
  NTable    \* blocks of the graphs with a jump table

Successors(x, S) == UNION {Range(x[b]) : b \in S}
RECURSIVE Closure(_, _)
Closure(x, S) == IF Successors(x, S) \subseteq S THEN S ELSE Closure(x, S \cup Successors(x, S))
Reachable(x) == Closure(x, {1}) = DOMAIN x

Exits(b, n) == {<< >>} \cup {<<a>> : a \in 2..n}
                \cup (IF b < n THEN {<<a, b + 1>> : a \in 2..n} ELSE {})
RECURSIVE Shapes(_, _)
Shapes(b, n) == IF b = 0 THEN {<< >>} ELSE {Append(x, e) : x \in Shapes(b - 1, n), e \in Exits(b, n)}

Graph(x, table, phis) == [blocks |-> DOMAIN x, exits |-> x, table |-> table, phis |-> phis]
Joins(x) == {b \in DOMAIN x : Cardinality({p \in DOMAIN x : b \in Range(x[p])}) > 1}

Plain == {Graph(x, {}, {}) : x \in {y \in Shapes(NPlain, NPlain) : Reachable(y)}}
WithPhis == UNION {{Graph(x, {}, P) : P \in (SUBSET Joins(x)) \ {{}}}
                     : x \in {y \in Shapes(NPhi, NPhi) : Reachable(y)}}
WithTable ==
  LET Tables == [1..2 -> 2..NTable] \cup [1..3 -> 2..NTable]
      Shape(t) == {[y EXCEPT ![t] = k] : y \in {z \in Shapes(NTable, NTable) : z[t] = << >>}, k \in Tables}
  IN  UNION {{Graph(x, {t}, {}) : x \in {y \in Shape(t) : Reachable(y)}} : t \in 1..2}

MCCfgs == Plain \cup WithPhis \cup WithTable
=============================================================================
