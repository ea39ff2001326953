---------------------------- MODULE ControlFlow ----------------------------
(***************************************************************************)
(* dis86/src/decompile/control_flow.rs: structured control flow from the   *)
(* graph of basic blocks.                                                  *)
(*                                                                         *)
(* ElemIds index `data`; the first Len(cfg.exits) of them are the basic    *)
(* blocks of the function, block 1 its entry.  A body is named by its      *)
(* index in `bodies`; body 1 is the function's.  0 is Rust's None.         *)
(***************************************************************************)
EXTENDS Naturals, Sequences, FiniteSets, SequencesExt, FiniteSetsExt, Functions

CONSTANTS
  Cfgs,       \* the graphs: [blocks, exits : sequence of block sequences,
              \*  table : blocks that end in a jump table, phis : blocks that begin with phis]
  JoinPreds   \* a block with more predecessors than this is taken for a join (10 in the code)

ASSUME JoinPredsAssumption == JoinPreds \in Nat

VARIABLES
  cfg,      \* the function's graph (ir::IR as from_ir_naive reads it)
  data,     \* ControlFlowData: the elements
  bodies,   \* the bodies the elements own
  work,     \* bodies infer_structure has still to visit, the current one first
  phase,    \* the pass: "loop", "switch" and "if" over the first body of work, then "schedule", "label", "emit", "done"; or a panic
  labeled   \* the basic blocks that get a label

Body(entry, elems, remap, exclude) ==
  [entry |-> entry, elems |-> elems, remap |-> remap, exclude |-> exclude, layout |-> <<>>]

Elem(kind, entry, exits, inner) ==
  [kind |-> kind, entry |-> entry, exits |-> exits, inner |-> inner,
   inverted |-> FALSE, jump |-> [to |-> "unset", tgts |-> <<>>]]

(* itertools::sorted of a set of ids *)
Sorted(S) == [i \in 1..Cardinality(S) |-> CHOOSE x \in S : Cardinality({y \in S : y < x}) = i - 1]

Blocks(g) == DOMAIN g.exits

NPreds(g, b) == Cardinality({p \in Blocks(g) : b \in Range(g.exits[p])})

(* Finalizer::insert_intermediate_phi_blocks: a block with several exits   *)
(* reaches a block with phis (g.phis) through a new block of its own, one  *)
(* per target.                                                             *)
RECURSIVE InsertPhiBlocks(_, _)
InsertPhiBlocks(g, b) ==
  IF b > Cardinality(g.blocks) THEN g
  ELSE LET x     == g.exits[b]
           first == SelectSeq([i \in DOMAIN x |-> i], LAMBDA i : x[i] \in g.phis /\ \A j \in 1..i-1 : x[j] # x[i])
           new   == [t \in {x[first[k]] : k \in DOMAIN first} |->
                       Len(g.exits) + CHOOSE k \in DOMAIN first : x[first[k]] = t]
       IN  InsertPhiBlocks(
             IF Len(x) <= 1 THEN g
             ELSE [g EXCEPT !.exits = [@ EXCEPT ![b] = [i \in DOMAIN x |-> IF x[i] \in DOMAIN new THEN new[x[i]] ELSE x[i]]]
                                        \o [k \in DOMAIN first |-> <<x[first[k]]>>]],
             b + 1)

(* ControlFlow::from_ir_naive *)
FromIrNaive(g) ==
  /\ cfg = g
  /\ data = [b \in Blocks(g) |-> Elem("block", b, g.exits[b], <<>>)]
  /\ bodies = << Body(1, Blocks(g), << >>, {}) >>
  /\ work = <<1>>
  /\ phase = "loop"
  /\ labeled = {}

CFInit == \E g \in Cfgs : FromIrNaive(InsertPhiBlocks(g, 1))

--------------------------------------------------------------------------------
(* Looking through a body's remap *)

Remap(body, id) == IF id \in DOMAIN body.remap THEN body.remap[id] ELSE id

(* Body::exit, Body::exits *)
BodyExits(body, id) ==
  [i \in DOMAIN data[id].exits |-> Remap(body, data[id].exits[i])]

(* Body::lookup_from_id *)
LookupFromId(body, id) ==
  IF Remap(body, id) \in body.elems THEN Remap(body, id) ELSE 0

MovableFrom(body, id) == id \in body.elems /\ id # body.entry

(* Body::remove_elems and the insertion of the element that took them in *)
Replace(elems, taken, id) == (elems \ taken) \cup {id}

--------------------------------------------------------------------------------
(* Inference *)

(* DFS::next until Done: the cycles and exits met along every simple path, *)
(* in the order of the search.  Leaving a node clears its visited mark.    *)
RECURSIVE DFS(_, _, _)
DFS(body, path, i) ==
  IF i > Len(data[Last(path)].exits) THEN << >>
  ELSE LET next == Remap(body, data[Last(path)].exits[i])
           met  == CASE next \notin body.elems  -> << [act |-> "exit", to |-> next, path |-> path] >>
                     [] next \in body.elems \cap body.exclude -> << >>
                     [] next \in (body.elems \ body.exclude) \cap Range(path) ->
                          << [act |-> "cycle", to |-> next, path |-> path] >>
                     [] OTHER -> DFS(body, Append(path, next), 1)
       IN  met \o DFS(body, path, i + 1)

Cycles(body) == SelectSeq(DFS(body, <<body.entry>>, 1), LAMBDA e : e.act = "cycle")

(* The part of a cycle's path from the loop entry on *)
LoopSuffix(cycle) ==
  {cycle.path[i] : i \in {j \in DOMAIN cycle.path :
     \A k \in j + 1 .. Len(cycle.path) : cycle.path[k] # cycle.to}}

(* find_loop_exits: a HashSet drained in no particular order *)
FindLoopExits(entry, body) ==
  {e.to : e \in {f \in Range(DFS(body, <<entry>>, 1)) : f.act = "exit"}}

Orders(S) == SetToSeqs(S)

(* The Loop of infer_loop: every cycle to the entry adds its path and its back edge *)
LoopBody_open(entry, own) == Body(entry, UNION {LoopSuffix(c) : c \in own}, << >>, {})
LoopBody(entry, own) ==
  Body(entry, UNION {LoopSuffix(c) : c \in own}, << >>, {Last(c.path) : c \in own})

cur == Head(work)
curbody == bodies[cur]

(* Body::insert_loop *)
InsertLoop(loop) ==
  LET id == Len(data) + 1
  IN  /\ \E order \in Orders(FindLoopExits(loop.entry, [loop EXCEPT !.exclude = {}])) :
           data' = Append(data, Elem("loop", loop.entry, order, <<Len(bodies) + 1>>))
      /\ bodies' = Append([bodies EXCEPT
                            ![cur].elems = Replace(@, loop.elems, id),
                            ![cur].remap = (loop.entry :> id) @@ @], loop)

(* infer_loop: the first cycle met names the entry *)
InferLoop ==
  /\ phase = "loop" /\ Cycles(curbody) # << >>
  /\ LET found == Cycles(curbody)
     IN  InsertLoop(LoopBody(found[1].to, {c \in Range(found) : c.to = found[1].to}))
  /\ UNCHANGED <<cfg, work, phase, labeled>>

(* try_infer_case_body: everything reachable from the case's target inside *)
(* the parent, by the elements' own exits.                                 *)
RECURSIVE CaseSearch(_, _, _)
CaseSearch(body, queue, inner) ==
  IF queue = << >> THEN inner
  ELSE LET captured == SelectSeq(data[Head(queue)].exits, LAMBDA e :
                         /\ e \notin inner
                         /\ MovableFrom(body, e)
                         /\ ~(data[e].kind = "block" /\ NPreds(cfg, e) > JoinPreds))
           new == ToSet(captured)
       IN  CaseSearch(body, Tail(queue) \o Sorted(new), inner \cup new)

CaseInner(body, entry) == CaseSearch(body, <<entry>>, {entry})

CaseExits(inner) == (UNION {ToSet(data[e].exits) : e \in inner}) \ inner

(* The jump table's targets in order: a target that is still in the parent *)
(* and is not its entry moves into a case body of its own, any other one   *)
(* becomes a goto.  acc holds the parent's body and what the cases made.   *)
RECURSIVE SwitchCases(_, _)
SwitchCases(tgts, acc) ==
  IF tgts = << >> THEN acc
  ELSE LET tgt   == Head(tgts)
           moves == MovableFrom(acc.parent, tgt)
           inner == CaseInner(acc.parent, tgt)
       IN  SwitchCases(Tail(tgts),
             [parent |-> IF moves THEN [acc.parent EXCEPT !.elems = @ \ inner] ELSE acc.parent,
              cases  |-> Append(acc.cases,
                           IF moves THEN [entry |-> tgt, elems |-> inner] ELSE [entry |-> 0, elems |-> {tgt}]),
              exits  |-> acc.exits \cup IF moves THEN CaseExits(inner) ELSE {tgt}])

(* infer_structure repeats each pass until it finds nothing, in this order, *)
(* and never returns to an earlier one for the same body.                  *)
LoopsDone == \/ phase = "loop" /\ Cycles(curbody) = << >>
             \/ phase \in {"switch", "if"}

TableBlocks(body) == {e \in body.elems : data[e].kind = "block" /\ e \in cfg.table}

SwitchesDone == phase = "if" \/ TableBlocks(curbody) = {}

(* Body::insert_switch with insert_elem_block and insert_goto: the bodies *)
(* of the moved cases, then the switch's own.                             *)
InsertSwitch(entry, acc) ==
  LET n       == Len(acc.cases)
      moved   == {i \in 1..n : acc.cases[i].entry # 0}
      caseId  == [i \in 1..n |-> Len(data) + i]
      bodyOf  == [i \in 1..n |-> Len(bodies) + Cardinality({j \in moved : j <= i})]
      swBody  == Len(bodies) + Cardinality(moved) + 1
      id      == Len(data) + n + 1
      CaseElem(i) ==
        IF i \in moved
        THEN Elem("elemblock", acc.cases[i].entry,
                  Sorted(CaseExits(acc.cases[i].elems)), <<bodyOf[i]>>)
        ELSE Elem("goto", caseId[i], SetToSeq(acc.cases[i].elems), << >>)
  IN  /\ data' = data \o [i \in 1..n |-> CaseElem(i)]
                      \o << Elem("switch", entry, Sorted(acc.exits), <<swBody>>) >>
      /\ bodies' =
           [bodies EXCEPT ![cur].elems = Replace(acc.parent.elems, {entry}, id),
                          ![cur].remap = (entry :> id) @@ @]
           \o [k \in 1..Cardinality(moved) |->
                LET i == CHOOSE j \in moved : bodyOf[j] = Len(bodies) + k
                IN  Body(acc.cases[i].entry, acc.cases[i].elems, << >>, {})]
           \o << Body(entry, Range(caseId),
                      [e \in {acc.cases[i].entry : i \in moved} |->
                         caseId[CHOOSE i \in moved : acc.cases[i].entry = e /\ \A j \in moved : acc.cases[j].entry = e => j <= i]],
                      {}) >>

(* infer_switch.  A case that leads back to the switch has taken its header *)
(* along, and insert_switch cannot remove it a second time (remove_elem).    *)
InferSwitch ==
  /\ LoopsDone /\ phase # "if" /\ TableBlocks(curbody) # {}
  /\ LET entry == Min(TableBlocks(curbody))
         acc   == SwitchCases(data[entry].exits, [parent |-> curbody, cases |-> << >>, exits |-> {}])
     IN  \/ entry \in acc.parent.elems /\ InsertSwitch(entry, acc) /\ phase' = "switch"
         \/ entry \notin acc.parent.elems /\ phase' = "panic header" /\ UNCHANGED <<data, bodies>>
  /\ UNCHANGED <<cfg, work, labeled>>

(* sequentially_reaching: the single-exit chain from src to dst, or <<>> *)
RECURSIVE SequentiallyReaching(_, _, _, _)
SequentiallyReaching(body, src, dst, seen) ==
  IF src \in Range(seen) \/ src \notin body.elems \/ Len(data[src].exits) # 1 THEN << >>
  ELSE IF BodyExits(body, src)[1] = dst THEN Append(seen, src)
  ELSE SequentiallyReaching(body, BodyExits(body, src)[1], dst, Append(seen, src))

Chain(body, src, dst) == SequentiallyReaching(body, src, dst, << >>)

IfHeaders(body) == {h \in body.elems : data[h].kind = "block" /\ Len(data[h].exits) = 2}

IfShape(header, arms, join, inverted) ==
  [header |-> header, arms |-> arms, join |-> join, inverted |-> inverted]

(* infer_if, first pass: one exit of the header leads to the other *)
OneArmed(body, h) ==
  LET a == BodyExits(body, h)[1]
      b == BodyExits(body, h)[2]
  IN  IF Chain(body, a, b) # << >> THEN {IfShape(h, <<Chain(body, a, b)>>, b, FALSE)}
      ELSE IF Chain(body, b, a) # << >> THEN {IfShape(h, <<Chain(body, b, a)>>, a, TRUE)}
      ELSE {}

(* second pass, with normalize_if_arms: two disjoint arms to one join *)
TwoArmed(body, h) ==
  LET Arm(i, j) == Chain(body, BodyExits(body, h)[i], j)
      Joins == {j \in body.elems \ {h} :
                  /\ Arm(1, j) # << >> /\ Arm(2, j) # << >>
                  /\ Range(Arm(1, j)) \cap Range(Arm(2, j)) = {}}
  IN  IF Joins = {} THEN {}
      ELSE {IfShape(h, <<Arm(1, Min(Joins)), Arm(2, Min(Joins))>>, Min(Joins), FALSE)}

FoundIf(body) ==
  LET First(shapes) == CHOOSE s \in shapes : \A t \in shapes : s.header <= t.header
      one == UNION {OneArmed(body, h) : h \in IfHeaders(body)}
      two == UNION {TwoArmed(body, h) : h \in IfHeaders(body)}
  IN  IF one # {} THEN {First(one)} ELSE IF two # {} THEN {First(two)} ELSE {}

(* An arm's body maps the entries of its structured elements to them *)
ArmBody(arm) ==
  Body(arm[1], Range(arm),
       [e \in {data[x].entry : x \in {y \in Range(arm) : data[y].entry # y}} |->
          CHOOSE x \in Range(arm) : data[x].entry = e /\ x # e], {})

(* Body::insert_ifstmt *)
InsertIf(s) ==
  LET id == Len(data) + 1
  IN  /\ data' = Append(data, [Elem("if", s.header, <<s.join>>,
                   [i \in DOMAIN s.arms |-> Len(bodies) + i]) EXCEPT !.inverted = s.inverted])
      /\ bodies' = [bodies EXCEPT
                     ![cur].elems = Replace(@, {s.header} \cup UNION {Range(a) : a \in Range(s.arms)}, id),
                     ![cur].remap = (s.header :> id) @@ @]
                   \o [i \in DOMAIN s.arms |-> ArmBody(s.arms[i])]

(* infer_if *)
InferIf ==
  /\ LoopsDone /\ SwitchesDone
  /\ phase' = "if"
  /\ \E s \in FoundIf(curbody) : InsertIf(s)
  /\ UNCHANGED <<cfg, work, labeled>>

(* infer_structure: nothing more to infer in this body, visit the bodies   *)
(* of its elements.                                                        *)
Descend ==
  /\ LoopsDone /\ SwitchesDone /\ FoundIf(curbody) = {}
  /\ work' = FlattenSeq([i \in 1..Cardinality(curbody.elems) |->
                           data[Sorted(curbody.elems)[i]].inner]) \o Tail(work)
  /\ phase' = IF work' = << >> THEN "schedule" ELSE "loop"
  /\ UNCHANGED <<cfg, data, bodies, labeled>>

--------------------------------------------------------------------------------
(* Scheduling: st = [data, bodies, next, panic] is threaded through; ps is *)
(* the chain of Parents, innermost first.                                  *)

(* Parent::elem_avail *)
ElemAvail(st, ps, id) ==
  LET hits == {i \in DOMAIN ps : LookupFromId(st.bodies[ps[i].b], id) \in ps[i].remain}
  IN  IF hits = {} THEN 0 ELSE LookupFromId(st.bodies[ps[Min(hits)].b], id)

SetJump(st, id, to, tgts, next) ==
  [st EXCEPT !.data[id].jump = [to |-> to, tgts |-> tgts], !.next = next]

FirstAvail(st, ps, exits) ==
  LET avail == SelectSeq([i \in DOMAIN exits |-> ElemAvail(st, ps, exits[i])], LAMBDA e : e # 0)
  IN  IF avail = << >> THEN 0 ELSE avail[1]

(* schedule_layout_basic_block: fall through to what can still be laid out *)
ScheduleBasicBlock(st, id, ps) ==
  LET exits == st.data[id].exits
      avail == [i \in DOMAIN exits |-> ElemAvail(st, ps, exits[i])]
  IN  CASE Len(exits) = 0 -> SetJump(st, id, "none", << >>, 0)
        [] Len(exits) = 1 ->
             IF avail[1] # 0 THEN SetJump(st, id, "fallthrough", << >>, avail[1])
                             ELSE SetJump(st, id, "target", exits, 0)
        [] Len(exits) = 2 ->
             IF avail[2] # 0 THEN SetJump(st, id, "true", <<exits[1]>>, avail[2])
             ELSE IF avail[1] # 0 THEN SetJump(st, id, "false", <<exits[2]>>, avail[1])
             ELSE SetJump(st, id, "both", exits, 0)
        [] OTHER -> SetJump(st, id, "table", exits, 0)

RECURSIVE ScheduleRest(_, _, _, _), ScheduleElem(_, _, _), ScheduleCases(_, _, _)

(* schedule_layout_body: the body's entry first, then what the last        *)
(* element asked for, or the first element that remains.                   *)
ScheduleRest(st, b, ps, remaining) ==
  IF remaining = {} \/ st.panic # "" THEN st
  ELSE LET c == IF st.next # 0 THEN st.next ELSE Min(remaining)
       IN  IF c \notin remaining THEN [st EXCEPT !.panic = "panic unavailable"]
           ELSE ScheduleRest(
                  ScheduleElem([st EXCEPT !.bodies[b].layout = Append(@, c)], c,
                               <<[b |-> b, remain |-> remaining \ {c}]>> \o ps),
                  b, ps, remaining \ {c})

ScheduleBody(st, b, ps) ==
  LET entry == LookupFromId(st.bodies[b], st.bodies[b].entry)
  IN  IF entry = 0 THEN [st EXCEPT !.panic = "panic entry"]
      ELSE ScheduleRest([st EXCEPT !.next = entry], b, ps, st.bodies[b].elems)

(* schedule_layout_loop: nothing outside the loop is available inside it *)
ScheduleLoop_outer(st, id, ps) ==
  LET st1 == ScheduleBody(st, st.data[id].inner[1], ps)
  IN  SetJump(st1, id, "none", << >>, FirstAvail(st1, ps, st.data[id].exits))
ScheduleLoop(st, id, ps) ==
  LET st1 == ScheduleBody(st, st.data[id].inner[1], << >>)
  IN  SetJump(st1, id, "none", << >>, FirstAvail(st1, ps, st.data[id].exits))

(* schedule_layout_ifstmt, with its two assertions *)
ScheduleIf(st, id, ps) ==
  LET inner == st.data[id].inner
      exit  == st.data[id].exits[1]
      next  == ElemAvail(st, ps, exit)
      st1   == ScheduleBody(st, inner[1], ps)
      st2   == IF Len(inner) = 2 THEN ScheduleBody(st1, inner[2], ps) ELSE [st1 EXCEPT !.next = next]
      agree == st1.next = next /\ st2.next = next
      st3   == IF st2.panic = "" /\ ~agree THEN [st2 EXCEPT !.panic = "panic arms"] ELSE st2
  IN  IF next # 0 THEN SetJump(st3, id, "fallthrough", << >>, next)
                  ELSE SetJump(st3, id, "target", <<exit>>, 0)

(* schedule_layout_switch lays the cases out in the order of the table *)
ScheduleCases(st, cases, ps) ==
  IF cases = << >> THEN st ELSE ScheduleCases(ScheduleElem(st, Head(cases), ps), Tail(cases), ps)

ScheduleSwitch(st, id, ps) ==
  LET b     == st.data[id].inner[1]
      cases == Sorted(st.bodies[b].elems)
      st1   == ScheduleCases([st EXCEPT !.bodies[b].layout = cases], cases, ps)
  IN  SetJump(st1, id, "none", << >>, FirstAvail(st1, ps, st.data[id].exits))

(* schedule_layout_elem, schedule_layout_goto, schedule_layout_elem_block *)
ScheduleElem(st, id, ps) ==
  LET e == st.data[id]
  IN  CASE e.kind = "block"     -> ScheduleBasicBlock(st, id, ps)
        [] e.kind = "goto"      -> SetJump(st, id, "target", e.exits, ElemAvail(st, ps, e.exits[1]))
        [] e.kind = "elemblock" -> LET st1 == ScheduleBody(st, e.inner[1], ps)
                                   IN  SetJump(st1, id, "none", << >>, st1.next)
        [] e.kind = "loop"      -> ScheduleLoop(st, id, ps)
        [] e.kind = "if"        -> ScheduleIf(st, id, ps)
        [] e.kind = "switch"    -> ScheduleSwitch(st, id, ps)

(* schedule_layout *)
ScheduleLayout ==
  /\ phase = "schedule"
  /\ LET st == ScheduleBody([data |-> data, bodies |-> bodies, next |-> 0, panic |-> ""], 1, << >>)
     IN  /\ data' = st.data /\ bodies' = st.bodies
         /\ phase' = IF st.panic = "" THEN "label" ELSE st.panic
  /\ UNCHANGED <<cfg, work, labeled>>

--------------------------------------------------------------------------------
(* Labels *)

(* ControlFlowIter: the elements in the order of the text, with their depth *)
RECURSIVE IterBody(_, _)
IterBody(b, depth) ==
  FlattenSeq([i \in DOMAIN bodies[b].layout |->
    LET id == bodies[b].layout[i]
        Inner(k) == IterBody(data[id].inner[k], depth + 1)
    IN  << [id |-> id, depth |-> depth] >>
          \o FlattenSeq([k \in DOMAIN data[id].inner |-> Inner(k)])])

Iter == IterBody(1, 0)

(* The entry basic block of an element; 0 for a cyclic chain of gotos *)
RECURSIVE EntryBlock(_, _)
EntryBlock(id, seen) ==
  IF id \in seen THEN 0
  ELSE CASE data[id].kind = "block" -> id
         [] data[id].kind = "goto"  -> EntryBlock(data[id].exits[1], seen \cup {id})
         [] OTHER                   -> EntryBlock(data[id].entry, seen \cup {id})

JumpTargets == UNION {Range(data[e.id].jump.tgts) : e \in Range(Iter)}

(* label_blocks_by_demand *)
LabelBlocks ==
  /\ phase = "label"
  /\ labeled' = {EntryBlock(t, {}) : t \in JumpTargets}
  /\ phase' = IF 0 \in labeled' THEN "panic cycle" ELSE "emit"
  /\ UNCHANGED <<cfg, data, bodies, work>>
================================================================================
