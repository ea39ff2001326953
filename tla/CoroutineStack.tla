---------------------------- MODULE CoroutineStack ----------------------------
(***************************************************************************)
(* What the execution layer promises: hooks are coroutines of the guest.   *)
(* One party runs at a time, the guest or one hook.  A running hook may    *)
(* call back into the guest, which suspends it; suspended hooks are        *)
(* continued innermost first; a hook ends while it runs.                   *)
(***************************************************************************)
EXTENDS Naturals, Sequences

CONSTANTS Ids, Guest

VARIABLES
  nest,   \* suspended hooks, outermost first
  run     \* the hook that runs, or Guest

Init == nest = <<>> /\ run = Guest

\* The guest enters a hook: it gets an id that is not in use.
Begin(e) ==
  /\ run = Guest
  /\ \A k \in 1 .. Len(nest) : nest[k] # e
  /\ run' = e
  /\ UNCHANGED nest

\* The running hook calls a guest function.
Suspend ==
  /\ run # Guest
  /\ nest' = Append(nest, run)
  /\ run' = Guest

\* The guest function the innermost hook called returns.
Resume ==
  /\ run = Guest
  /\ nest # <<>>
  /\ run' = nest[Len(nest)]
  /\ nest' = SubSeq(nest, 1, Len(nest) - 1)

\* The running hook returns.
Finish ==
  /\ run # Guest
  /\ run' = Guest
  /\ UNCHANGED nest

Next == (\E e \in Ids : Begin(e)) \/ Suspend \/ Resume \/ Finish

Spec == Init /\ [][Next]_<<nest, run>>
=============================================================================
