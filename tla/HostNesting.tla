------------------------------ MODULE HostNesting ------------------------------
(***************************************************************************)
(* What nested hooks and guest code may rely on, with a memory of one      *)
(* event.  The driver looks at an address only right after an instruction  *)
(* of the guest (host_driver.c:382-396).  unseen remembers that a hooked   *)
(* address was entered behind its back, and nothing is promised from then  *)
(* on.  It is a history variable: no step of the driver depends on it.     *)
(***************************************************************************)
EXTENDS HostDriver

VARIABLE unseen

Hooked == HookAddrs \cup Registry

\* A hooked function that returns straight into a hook: the hook called it, or
\* called a function that jumped to it.
ReturnsToHook(a, s) == a \in Hooked /\ s # <<>> /\ IsMagic(Last(s))

\* A hook has jumped to a hooked function, and its dispatch is over.
JumpsToHook == At("dispatch", "top") /\ Returns /\ pc' \in Hooked /\ ~declined'

EntersUnseen == ReturnsToHook(pc', stk') \/ JumpsToHook

Seen(A) == A /\ unseen' = (unseen \/ EntersUnseen)

WatchedNext ==
  \/ Seen(MzEntryStop) \/ Seen(MzSkip) \/ Seen(MzFails) \/ Seen(Install) \/ Seen(Go)
  \/ Seen(GuestRuns) \/ Seen(GoFails)
  \/ Seen(StopTracked) \/ Seen(StopPageIn) \/ Seen(StopUnrelated) \/ Seen(StopUnexpected)
  \/ Seen(AfterStop) \/ Seen(Cleanup) \/ Seen(Ended)
  \/ Seen(DispatchTooDeep) \/ Seen(DispatchCapture) \/ Seen(DispatchRestore)
  \/ Seen(DispatchResume) \/ Seen(DispatchLeave) \/ Seen(DispatchCall)
  \/ Seen(DispatchFails) \/ Seen(DispatchNoContext)
  \/ Seen(Trace) \/ Seen(TraceFails)
  \/ Seen(PageInTooDeep) \/ Seen(PageInEnter) \/ Seen(PagerStep) \/ Seen(PagedInNow)
  \/ Seen(BodyReturns) \/ Seen(BodyPageIn) \/ Seen(BodyDispatch) \/ Seen(BodyStep)
  \/ Seen(PageInFails) \/ Seen(ReconcileFails)

WatchedInit == Init /\ unseen = FALSE

WatchedSpec == WatchedInit /\ [][WatchedNext]_<<vars, unseen>>

WatchedFairSpec == WatchedSpec /\ WF_vars(Host /\ frames' # frames)

---------------------------------------------------------------------------
\* The next thing to happen is an instruction of the guest.
CpuRuns ==
  \/ InRun("go") \/ InRun("running")
  \/ At("trace", "step") /\ Top.n < MaxTrace
  \/ At("pagein", "enter")
  \/ At("pagein", "pager") /\ pc # Top.os
  \/ BodyGoesOn /\ pc \notin bps

\* The activations of trace_to_return in fr, and the magic return addresses in s.
Traces(fr) == {i \in DOMAIN fr : fr[i].fn = "trace"}
Magics(s) == {k \in DOMAIN s : IsMagic(s[k])}

\* The former wait for exactly the latter, in this order.
WaitsFor(fr, s) ==
  \E slot \in [Traces(fr) -> Magics(s)] :
    /\ \A i, j \in Traces(fr) : i < j => slot[i] < slot[j]
    /\ \A k \in Magics(s) : \E i \in Traces(fr) : slot[i] = k
    /\ \A i \in Traces(fr) : fr[i].want = s[slot[i]]

\* Three stacks tell the same story: the activations of trace_to_return wait,
\* outermost first, for exactly the magic return addresses on the guest's
\* stack, and the contexts in use are those, with the one the guest has just
\* returned to.  So no context is left suspended when the guest is released.
Back == IF IsMagic(pc) THEN {pc[2]} ELSE {}
NestingAgrees ==
  Running =>
    /\ WaitsFor(frames, stk)
    /\ active = {stk[k][2] : k \in Magics(stk)} \cup Back

\* The guest CPU is never let go at a magic return address: every call of a
\* hook is seen to return (docs/dosemu2/TESTING.md:151).
NoMagicExecuted == CpuRuns => ~IsMagic(pc)

\* The guest executes the instruction under a tracked breakpoint only after a
\* dispatch there declined it: no hooked function is entered natively.
TrackedAreDispatched == CpuRuns /\ pc \in bps => declined

\* With more contexts than nested dispatches, as in the driver, the nesting
\* cap is reached before the contexts run out.
DepthBeforeContexts == MaxDepth < MaxExec => reason # "MAX_EXEC"

\* As long as no hooked address is entered unseen, whatever else hooks and guest
\* functions call, jump to, decline or page in: driver stack, context table and
\* guest stack agree, no magic return address and no tracked entry is executed,
\* and the nesting cap fires before the contexts run out (trace_to_return,
\* dispatch_hook).  A hooked function a hook calls directly, or jumps to, is
\* outside: trace_to_return steps before it looks (host_driver.c:361, 390), so
\* its first instruction runs natively, and its return may pass the awaited
\* address.  docs/dosemu2/TESTING.md:151 and HOST_DESIGN.md:254 promise a
\* dispatch there; this property does not.
NestingSafe ==
  ~unseen => NestingAgrees /\ NoMagicExecuted /\ TrackedAreDispatched /\ DepthBeforeContexts
=============================================================================
