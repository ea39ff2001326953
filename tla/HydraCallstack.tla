---------------------------- MODULE HydraCallstack ----------------------------
(***************************************************************************)
(* The callstack model of the Hydra core (hydra/src/callstack.c): a shadow *)
(* of the guest's calls, fed by two-phase events.  hydra_machine_exec      *)
(* looks at the instruction the guest is about to execute and records an   *)
(* event; hydra_machine_notify, called by the host after the exec, applies *)
(* it.  The state is one record, so that the exec layer can chain the      *)
(* calls it makes within one of its own steps:                             *)
(*   stack - call_stack[0 .. call_idx); of an entry only whether its       *)
(*           source lies below the load segment is kept, the one thing     *)
(*           the code decides on                                           *)
(*   event - call_event                                                    *)
(*   low   - whether last_code lies below the load segment                 *)
(*   fail  - which FAIL or assert of this file stopped the process         *)
(* An address is a record [cs, ip] of absolute segment and offset.  The    *)
(* debug printing (ENABLE_DEBUG_CALLSTACK is 0) and the trace records are  *)
(* left out; what the printing code evaluates before its early return is   *)
(* not.                                                                    *)
(***************************************************************************)
EXTENDS Naturals, Sequences

CONSTANTS
  MaxCallStack,   \* entries of call_stack (1024)
  CodeStart,      \* CODE_START_SEG, the load segment of the guest's code
  RomBase,        \* first segment above conventional memory (0xc000)
  CallSites,      \* addresses whose bytes decode as a call instruction
  RetSites,       \* addresses whose bytes decode as a ret, retf or iret
  Handlers,       \* conf table: interrupt handler entries
  IgnoreAddrs,    \* conf table: addresses the model ignores
  JumpRets        \* conf table: jumps that act as returns

\* hydra_callstack_init
CallstackInit ==
  [stack |-> <<>>, event |-> "NONE", low |-> TRUE, fail |-> "none"]

\* addr_relative_to_segment FAILs on an address below the load segment.
RelativeFails(a) == a.cs < CodeStart

callstack_enter(c, fromLow) ==
  IF Len(c.stack) >= MaxCallStack
  THEN [c EXCEPT !.fail = "callstack overflow"]
  ELSE [c EXCEPT !.stack = Append(@, fromLow)]

\* callstack_pop tolerates an underflow.  The addresses made relative for the
\* "unexpected return location" warning must not lie below the load segment.
callstack_leave(c, cur) ==
  LET underflow == c.stack = <<>>
      popped == IF underflow THEN <<>> ELSE SubSeq(c.stack, 1, Len(c.stack) - 1)
      below == \/ c.low
               \/ RelativeFails(cur)
               \/ ~underflow /\ c.stack[Len(c.stack)]
  IN [c EXCEPT !.stack = popped,
               !.fail = IF below THEN "below load segment" ELSE @]

\* The drivers pass a constant interrupt count, so the branch of update()
\* that reports a new interrupt and drops the pending event is not taken.
\* top is the far address on top of the guest's stack.
hydra_callstack_track(c, cur, top) ==
  LET entered == IF cur \in Handlers
                 THEN callstack_enter(c, RelativeFails(top)) ELSE c
      ignored == cur.cs >= RomBase \/ cur \in IgnoreAddrs
      event == CASE ignored             -> c.event
                 [] cur \in RetSites    -> "RET"
                 [] cur \in CallSites   -> "CALL"
                 [] cur \in JumpRets    -> "JMP_RET"
                 [] OTHER               -> c.event
  IN [entered EXCEPT !.event = event, !.low = RelativeFails(cur)]

hydra_callstack_trigger_enter(c, ret) ==
  IF c.event # "NONE"
  THEN [c EXCEPT !.fail = "event pending"]
  ELSE [c EXCEPT !.low = RelativeFails(ret), !.event = "CALL"]

hydra_callstack_ret(c) ==
  IF c.event # "NONE"
  THEN [c EXCEPT !.fail = "event pending"]
  ELSE [c EXCEPT !.event = "RET"]

\* A process that stopped in the step before is not notified.
hydra_callstack_notify(c, cur) ==
  LET applied == CASE c.event = "NONE" -> c
                   [] c.event = "CALL" -> callstack_enter(c, c.low)
                   [] OTHER            -> callstack_leave(c, cur)
  IN IF c.fail # "none" THEN c
     ELSE [applied EXCEPT !.event = "NONE", !.low = RelativeFails(cur)]
=============================================================================
