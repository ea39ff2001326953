------------------------------ MODULE HostDriver ------------------------------
(***************************************************************************)
(* The dosemu host's execution loop (hydra/src/dosemu_host/host_driver.c): *)
(* host_run releases a remote guest CPU until a debugger stop, dispatches  *)
(* hooks through hydra_machine_exec, and single-steps the guest code that  *)
(* hooks call.  dispatch_hook, trace_to_return and overlay_handle_pagein   *)
(* call each other; frames is the C stack of their activations.            *)
(*                                                                         *)
(* An error return of any of them makes every caller return at once, so    *)
(* an error unwinds frames in one step.  The guest and the debugger's      *)
(* breakpoint table are external; the execution layer is seen from the     *)
(* outside, as the contexts in use (HydraExec has its inside).             *)
(***************************************************************************)
EXTENDS Naturals, Sequences, FiniteSets

CONSTANTS
  Fns,          \* guest functions without a hook
  Hooks,        \* guest functions with a static hook
  Stubs,        \* overlay entry stubs
  OvlHooks,     \* those with an overlay hook (the stub registry)
  OvlOf,        \* [Stubs -> overlay number]
  Places,       \* segments an overlay can be paged into (1 ..)
  Main,         \* the program's main function
  CallKinds,    \* kinds of calls hooks make: "far", "near"
  HookCalls,    \* addresses hooks call
  HookJumps,    \* addresses hooks jump to
  HooksResume,  \* hooks may decline (HYDRA_RESULT_RESUME)
  TailJumps,    \* guest functions may jump to another function's entry
  StartModes, CaptureAddr, RestoreEntry,
  OverlaysArmed, MzLoad,
  MaxBps, MaxOverlays, MaxDepth, MaxRedirects, MaxTrace,
  MaxExec,      \* execution contexts
  Faults,       \* debugger commands may fail
  StubFaults,   \* arming an overlay stub may fail
  MaxStack      \* bound on the guest's stack

ASSUME BoundsAssumption ==
  /\ MaxDepth \in Nat /\ MaxRedirects \in Nat /\ MaxTrace \in Nat
  /\ MaxBps \in Nat /\ MaxOverlays \in Nat /\ MaxStack \in Nat /\ MaxExec \in Nat
ASSUME KindsAssumption ==
  /\ CallKinds \subseteq {"far", "near"}
  /\ StartModes \subseteq {"NORMAL", "CAPTURE", "RESTORE"}
  /\ TailJumps \in BOOLEAN /\ HooksResume \in BOOLEAN /\ Faults \in BOOLEAN /\ StubFaults \in BOOLEAN
  /\ OverlaysArmed \in BOOLEAN /\ MzLoad \in BOOLEAN
ASSUME StubsAssumption == OvlHooks \subseteq Stubs /\ Places \subseteq Nat \ {0}

VARIABLES
  pc, stk,      \* the guest CPU: where it is and its return addresses
  bytes,        \* [Stubs -> 0 (CD 3F) or the segment of its EA far jump]
  active,       \* execution contexts suspended in a call
  saved,        \* their CS:IP at the call
  map,          \* the core's overlay segment table (0: not mapped)
  mode,         \* HYDRA_MODE
  frames,       \* activations of the driver's functions, innermost last
  bps,          \* tracked breakpoints
  srv,          \* the debugger's breakpoints
  bpint,        \* BPINT 3F is set
  declined,     \* the last dispatch at pc returned RESUME; CPU not yet run
  reason        \* why the run is over

cpuVars == <<pc, stk, bytes>>
execVars == <<active, saved, map, mode>>
bpVars == <<bps, srv, bpint>>
vars == <<pc, stk, bytes, active, saved, map, mode, frames, bps, srv, bpint,
          declined, reason>>

---------------------------------------------------------------------------
(* Addresses: <<kind, number>>.  A function has an entry and one place its *)
(* calls return to ("in"); the body of a stub's function is the function   *)
(* of the same number.                                                     *)

Entry(f) == <<"entry", f>>
In(f) == <<"in", f>>
StubAddr(s) == <<"stub", s>>
Pager(s) == <<"pager", s>>
Boot == <<"boot", 0>>       \* the program's startup code
Loader == <<"loader", 0>>   \* DOS loading the program

\* The magic return addresses: ffff:id, and cs:ff00+id for a near call.
MagicAddr(kind, e) == <<kind, e>>
IsMagic(a) == a[1] \in {"far", "near"}

Callable == {Entry(f) : f \in Fns \cup Hooks} \cup {StubAddr(s) : s \in Stubs}
HookAddrs == {Entry(h) : h \in Hooks}
Registry == {StubAddr(s) : s \in OvlHooks}
Unpaged(a) == a[1] = "stub" /\ bytes[a[2]] = 0

Last(s) == s[Len(s)]
Front(s) == SubSeq(s, 1, Len(s) - 1)

\* A function's number says what it is.  Hooks call and jump to functions; the
\* special modes stop at the entry of one.
ASSUME NamesAssumption ==
  /\ Fns \cap Hooks = {} /\ Fns \cap Stubs = {} /\ Hooks \cap Stubs = {}
  /\ HookCalls \subseteq Callable /\ HookJumps \subseteq Callable
  /\ {CaptureAddr, RestoreEntry} \subseteq
       {Entry(f) : f \in Fns \cup Hooks \cup Stubs \cup {Main}}

Ids == 0 .. MaxExec - 1
Ovls == {OvlOf[s] : s \in Stubs}

---------------------------------------------------------------------------
(* The guest CPU (external): one instruction. *)

Cpu(p, s, b) == [pc |-> p, stk |-> s, bytes |-> b]

\* The overlay manager loads overlay n at place p: its stubs become far jumps,
\* those of the overlay that was there become INT 3F again.
PagedIn(n, p) ==
  [t \in Stubs |-> IF OvlOf[t] = n THEN p
                   ELSE IF bytes[t] = p THEN 0 ELSE bytes[t]]

GuestCode ==
  LET f == pc[2]
      call == IF Len(stk) < MaxStack THEN Callable ELSE {}
      jump == IF TailJumps /\ f # Main /\ stk # <<>> THEN Callable ELSE {}
  IN   {Cpu(a, Append(stk, In(f)), bytes) : a \in call}
  \cup {Cpu(a, stk, bytes) : a \in jump}
  \cup (IF f # Main /\ stk # <<>> THEN {Cpu(Last(stk), Front(stk), bytes)} ELSE {})

CpuStep ==
  CASE pc = Boot -> {Cpu(Entry(Main), stk, bytes)}
    [] pc[1] \in {"entry", "in"} -> GuestCode
    [] pc[1] = "stub" ->
         IF bytes[pc[2]] = 0
         THEN {Cpu(Pager(pc[2]), Append(stk, pc), bytes)}
         ELSE {Cpu(Entry(pc[2]), stk, bytes)}
    [] pc[1] = "pager" ->
         {Cpu(Last(stk), Front(stk), PagedIn(OvlOf[pc[2]], p)) : p \in Places}
    [] OTHER -> {}          \* a magic address: no code there

\* A debugger single step ("t") runs an INT to its return.
TraceStep ==
  IF Unpaged(pc)
  THEN {Cpu(pc, stk, PagedIn(OvlOf[pc[2]], p)) : p \in Places}
  ELSE CpuStep

SetCpu(c) == pc' = c.pc /\ stk' = c.stk /\ bytes' = c.bytes

---------------------------------------------------------------------------
(* The C stack *)

NoAddr == <<"none", 0>>
Frame(fn, at, depth, n, want, os) ==
  [fn |-> fn, at |-> at, depth |-> depth, n |-> n, want |-> want, os |-> os]

Top == Last(frames)
Calls(f) == frames' = Append(frames, f)
Becomes(f) == frames' = Append(Front(frames), f)
Returns == frames' = Front(frames)
RunAt(at) == <<Frame("run", at, 0, 0, NoAddr, NoAddr)>>
InRun(at) == frames = RunAt(at)
Goes(at) == frames' = RunAt(at)

\* goto done, from any depth.
Done(why) == reason' = why /\ Goes("done")

Init ==
  /\ pc = (IF MzLoad THEN Loader ELSE Boot) /\ stk = <<>>
  /\ bytes = [s \in Stubs |-> 0]
  /\ active = {} /\ saved = [e \in Ids |-> NoAddr]
  /\ map = [n \in Ovls |-> 0]
  /\ mode \in StartModes
  /\ frames = RunAt(IF MzLoad THEN "load" ELSE "install")
  /\ bps = {} /\ srv = {} /\ bpint = FALSE
  /\ declined = FALSE
  /\ reason = "none"

---------------------------------------------------------------------------
(* Breakpoints: the tracked table and the debugger's own.  A failed command *)
(* may or may not have taken effect there.                                  *)

FailureSets(S) == IF Faults THEN SUBSET S ELSE {{}}

\* Breakpoints whose clear fails (F) stay tracked.
host_bp_clear_all(F, G) ==
  bps' = F /\ srv' = srv \ ((bps \ F) \cup G)

\* Mutant: the capture address is not relocated by the load segment.
SpecialBpUnrelocated ==
  IF mode = "CAPTURE" THEN {In(CaptureAddr[2])}
  ELSE IF mode = "RESTORE" THEN {RestoreEntry} ELSE {}

\* install_special_mode_breakpoint
SpecialBp ==
  IF mode = "CAPTURE" THEN {CaptureAddr}
  ELSE IF mode = "RESTORE" THEN {RestoreEntry} ELSE {}

\* overlay_reconcile_all over guest memory b: mappings follow the bytes, a
\* tracked breakpoint on an unpaged stub is dropped from the table, every
\* paged stub is armed.
PagedStubs(b) == {StubAddr(s) : s \in {t \in OvlHooks : b[t] # 0}}
RegistryOvls == {OvlOf[s] : s \in OvlHooks}
Mapping(b) ==
  [n \in Ovls |-> IF n \notin RegistryOvls THEN map[n]
                  ELSE IF \E s \in OvlHooks : OvlOf[s] = n /\ b[s] # 0
                  THEN b[CHOOSE s \in OvlHooks : OvlOf[s] = n /\ b[s] # 0]
                  ELSE 0]
Tracked(b, base) == (base \ Registry) \cup PagedStubs(b)

\* Mutant: the mappings are left alone.
overlay_reconcile_unmapped(b) ==
  IF OverlaysArmed
  THEN bps' = Tracked(b, bps) /\ srv' = srv \cup PagedStubs(b) /\ UNCHANGED map
  ELSE UNCHANGED <<bps, srv, map>>

overlay_reconcile_all(b) ==
  IF OverlaysArmed
  THEN /\ bps' = Tracked(b, bps)
       /\ srv' = srv \cup PagedStubs(b)
       /\ map' = Mapping(b)
  ELSE UNCHANGED <<bps, srv, map>>

---------------------------------------------------------------------------
(* host_run *)

MzEntryStop ==
  /\ InRun("load")
  /\ pc' = Boot
  /\ Goes("install")
  /\ UNCHANGED <<stk, bytes, execVars, bpVars, declined, reason>>

\* A stop that is not the program's entry: the loader is let go again.
MzSkip ==
  /\ InRun("load")
  /\ UNCHANGED vars

MzFails ==
  /\ InRun("load")
  /\ Done("ERROR")
  /\ UNCHANGED <<cpuVars, execVars, bpVars, declined>>

Budget == Cardinality(HookAddrs) + Cardinality(Registry) + Cardinality(SpecialBp)

PreflightFails ==
  \/ Cardinality(Registry) > MaxOverlays
  \/ Budget > MaxBps
  \/ Registry # {} /\ ~OverlaysArmed

\* Preflight, install_hook_breakpoints, overlay_registry_reset,
\* install_special_mode_breakpoint, the first reconciliation and BPINT 3F.
Install ==
  /\ InRun("install")
  /\ IF PreflightFails
     THEN Done("ERROR") /\ UNCHANGED <<bpVars, map>>
     ELSE \E F \in FailureSets(HookAddrs \cup SpecialBp), ok \in {~Faults, TRUE} :
            \E G \in SUBSET F :
              /\ srv' = srv \cup ((HookAddrs \cup SpecialBp) \ F) \cup G
                          \cup (IF F = {} THEN PagedStubs(bytes) ELSE {})
              /\ bps' = bps \cup ((HookAddrs \cup SpecialBp) \ F)
                          \cup (IF F = {} THEN PagedStubs(bytes) ELSE {})
              /\ map' = IF F = {} THEN Mapping(bytes) ELSE map
              /\ bpint' = (F = {} /\ ok /\ Registry # {})
              /\ IF F = {} /\ ok THEN Goes("go") /\ UNCHANGED reason
                 ELSE Done("ERROR")
  /\ UNCHANGED <<cpuVars, active, saved, mode, declined>>

\* host_go_and_wait: the guest runs on its own.  The instruction it is
\* released at is executed; it stops at a breakpoint or an INT 3F.
StopsAt(c) ==
  c.pc \in srv \/ (bpint /\ c.pc[1] = "stub" /\ c.bytes[c.pc[2]] = 0)

Go ==
  /\ InRun("go")
  /\ Goes("running")
  /\ UNCHANGED <<cpuVars, execVars, bpVars, declined, reason>>

GuestRuns ==
  /\ InRun("running")
  /\ \E c \in CpuStep : SetCpu(c) /\ Goes(IF StopsAt(c) THEN "stopped" ELSE "running")
  /\ declined' = FALSE
  /\ UNCHANGED <<execVars, bpVars, reason>>

\* No stop in time, or dosemu has gone.
GoFails ==
  /\ InRun("running")
  /\ \E why \in {"TIMEOUT", "DOSEMU_EXIT"} : Done(why)
  /\ UNCHANGED <<cpuVars, execVars, bpVars, declined>>

StopTracked ==
  /\ InRun("stopped")
  /\ pc \in bps
  /\ overlay_reconcile_all(bytes)
  /\ frames' = Append(RunAt("after"), Frame("dispatch", "top", 0, 0, NoAddr, NoAddr))
  /\ UNCHANGED <<cpuVars, active, saved, mode, bpint, declined, reason>>

StopPageIn ==
  /\ InRun("stopped")
  /\ pc \notin bps /\ bpint /\ pc \in Registry /\ Unpaged(pc)
  /\ frames' = Append(RunAt("after"), Frame("pagein", "enter", 0, 0, NoAddr, pc))
  /\ UNCHANGED <<cpuVars, execVars, bpVars, declined, reason>>

\* An INT 3F that is not one of the registry's stubs: step into its handler
\* and let the guest go on.
StopUnrelated ==
  /\ InRun("stopped")
  /\ pc \notin bps /\ bpint /\ pc \notin Registry /\ Unpaged(pc)
  /\ \E c \in CpuStep : SetCpu(c)
  /\ Goes("go")
  /\ declined' = FALSE
  /\ UNCHANGED <<execVars, bpVars, reason>>

StopUnexpected ==
  /\ InRun("stopped")
  /\ pc \notin bps /\ ~(bpint /\ Unpaged(pc))
  /\ Done("UNEXPECTED")
  /\ UNCHANGED <<cpuVars, execVars, bpVars, declined>>

\* stop_fn, max_steps, or around the loop.
AfterStop ==
  /\ InRun("after")
  /\ \/ Goes("go") /\ UNCHANGED reason
     \/ \E why \in {"CALLBACK", "MAXSTEPS"} : Done(why)
  /\ UNCHANGED <<cpuVars, execVars, bpVars, declined>>

\* Cleanup; a breakpoint that cannot be cleared turns the result into ERROR.
Cleanup ==
  /\ InRun("done")
  /\ \E F \in FailureSets(bps), ok \in {~Faults, TRUE} : \E G \in SUBSET F :
       /\ host_bp_clear_all(F, G)
       /\ bpint' = (bpint /\ ~ok)
       /\ reason' = IF (F # {} \/ (bpint /\ ~ok)) /\ reason # "DOSEMU_EXIT"
                    THEN "ERROR" ELSE reason
  /\ Goes("returned")
  /\ UNCHANGED <<cpuVars, execVars, declined>>

Ended ==
  /\ InRun("returned") \/ InRun("exited")
  /\ UNCHANGED vars

---------------------------------------------------------------------------
(* dispatch_hook *)

At(fn, at) == Top.fn = fn /\ Top.at = at

DispatchTooDeep ==
  /\ At("dispatch", "top") /\ Top.n = 0 /\ Top.depth > MaxDepth
  /\ Done("DEPTH")
  /\ UNCHANGED <<cpuVars, execVars, bpVars, declined>>

CaptureStop == mode = "CAPTURE" /\ pc = CaptureAddr
RestoreStop == mode = "RESTORE" /\ pc = RestoreEntry

Dispatching == At("dispatch", "top") /\ Top.depth <= MaxDepth

\* Mutant: nothing is cleared before the capture.
DispatchCaptureDirty ==
  /\ Dispatching /\ CaptureStop
  /\ Goes("exited") /\ reason' = "exit 0"
  /\ UNCHANGED <<cpuVars, execVars, bpVars, declined>>

\* state_save and exit(0), with every breakpoint cleared before.
DispatchCapture ==
  /\ Dispatching /\ CaptureStop
  /\ \E F \in FailureSets(bps) : \E G \in SUBSET F :
       /\ host_bp_clear_all(F, G)
       /\ IF F = {} THEN Goes("exited") /\ reason' = "exit 0" ELSE Done("ERROR")
  /\ UNCHANGED <<cpuVars, execVars, bpint, declined>>

\* state_restore: memory and CPU are the snapshot's; breakpoints and overlay
\* state are rebuilt from it.
Snapshots ==
  {[s \in Stubs |-> IF OvlOf[s] = n THEN p ELSE 0] : n \in Ovls, p \in Places \cup {0}}
    \cup {[s \in Stubs |-> 0]}

\* Mutant: the hooks are not armed again.
DispatchRestoreUnarmed ==
  /\ Dispatching /\ RestoreStop
  /\ \E b \in Snapshots :
       /\ host_bp_clear_all({}, {})
       /\ SetCpu(Cpu(In(Main), <<>>, b))
       /\ mode' = "NORMAL"
       /\ map' = Mapping(b)
       /\ declined' = FALSE
       /\ Returns
  /\ UNCHANGED <<active, saved, bpint, reason>>

DispatchRestore ==
  /\ Dispatching /\ RestoreStop
  /\ \E F \in FailureSets(bps) : \E G \in SUBSET F :
       IF F # {}
       THEN /\ host_bp_clear_all(F, G)
            /\ Done("ERROR")
            /\ UNCHANGED <<cpuVars, map, mode, declined>>
       ELSE \E b \in Snapshots, F2 \in FailureSets(HookAddrs) :
              /\ SetCpu(Cpu(In(Main), <<>>, b))
              /\ mode' = "NORMAL"
              /\ map' = Mapping(b)
              /\ bps' = (HookAddrs \ F2) \cup (IF F2 = {} THEN PagedStubs(b) ELSE {})
              /\ srv' = (srv \ bps) \cup bps'
              /\ declined' = FALSE
              /\ IF F2 = {} THEN Returns /\ UNCHANGED reason ELSE Done("ERROR")
  /\ UNCHANGED <<active, saved, bpint>>

\* hydra_machine_exec: the context whose magic return address the guest is
\* at, a new context for a hook, or none.
Resumed == {e \in active : pc \in {MagicAddr(k, e) : k \in CallKinds}}
HookHere ==
  mode = "NORMAL" /\ (pc \in HookAddrs \/ (pc \in Registry /\ ~Unpaged(pc)))
Free == {e \in Ids \ active : \A d \in Ids \ active : e <= d}
Runners == IF mode # "NORMAL" THEN {}
           ELSE IF Resumed # {} THEN Resumed ELSE IF HookHere THEN Free ELSE {}
\* CS:IP as the hook sees it: after a call its own again, after an overlay
\* stub the body's.
HookPc(e) == IF e \in active THEN saved[e]
             ELSE IF pc[1] = "stub" THEN Entry(pc[2]) ELSE pc

NextTop == Frame("dispatch", "top", Top.depth, Top.n + 1, NoAddr, NoAddr)

\* Nothing to run, or the hook declines: the guest goes on where it is.
DispatchResume ==
  /\ Dispatching /\ ~CaptureStop /\ ~RestoreStop
  /\ \/ Runners = {} /\ ~(HookHere /\ Free = {}) /\ UNCHANGED <<pc, active>>
     \/ \E e \in Runners : HooksResume /\ pc' = HookPc(e) /\ active' = active \ {e}
  /\ declined' = TRUE
  /\ Returns
  /\ UNCHANGED <<stk, bytes, saved, map, mode, bpVars, reason>>

\* The hook returns or jumps: redirected, and the dispatch is over.
DispatchLeave ==
  /\ Dispatching /\ Top.n < MaxRedirects
  /\ \E e \in Runners :
       /\ \/ stk # <<>> /\ pc' = Last(stk) /\ stk' = Front(stk)
          \/ \E a \in HookJumps : pc' = a /\ UNCHANGED stk
       /\ active' = active \ {e}
  /\ Returns
  /\ declined' = FALSE
  /\ UNCHANGED <<bytes, saved, map, mode, bpVars, reason>>

\* Mutant: the return address of the next free context is awaited.
DispatchCallNextId ==
  /\ Dispatching /\ Top.n < MaxRedirects
  /\ Len(stk) < MaxStack
  /\ \E e \in Runners, k \in CallKinds, a \in HookCalls :
       /\ pc' = a
       /\ stk' = Append(stk, MagicAddr(k, e))
       /\ active' = active \cup {e}
       /\ saved' = [saved EXCEPT ![e] = HookPc(e)]
       /\ frames' = Front(frames) \o
            <<NextTop, Frame("trace", "step", Top.depth, 0, MagicAddr(k, e + 1), NoAddr)>>
  /\ declined' = FALSE
  /\ UNCHANGED <<bytes, map, mode, bpVars, reason>>

\* The hook calls a guest function, which is traced to its return.
DispatchCall ==
  /\ Dispatching /\ Top.n < MaxRedirects
  /\ Len(stk) < MaxStack
  /\ \E e \in Runners, k \in CallKinds, a \in HookCalls :
       /\ pc' = a
       /\ stk' = Append(stk, MagicAddr(k, e))
       /\ active' = active \cup {e}
       /\ saved' = [saved EXCEPT ![e] = HookPc(e)]
       /\ frames' = Front(frames) \o
            <<NextTop, Frame("trace", "step", Top.depth, 0, MagicAddr(k, e), NoAddr)>>
  /\ declined' = FALSE
  /\ UNCHANGED <<bytes, map, mode, bpVars, reason>>

\* The hook ran, but its redirect is one too many or cannot be pushed to the
\* CPU.
DispatchFails ==
  /\ Dispatching
  /\ Top.n = MaxRedirects \/ Faults
  /\ \E e \in Runners : active' \in {active \ {e}, active \cup {e}}
  /\ Done(IF Top.n = MaxRedirects THEN "REDIRECTS" ELSE "ERROR")
  /\ UNCHANGED <<cpuVars, saved, map, mode, bpVars, declined>>

\* No context is free (execution_acquire).
DispatchNoContext ==
  /\ Dispatching /\ HookHere /\ Resumed = {} /\ Free = {}
  /\ Goes("exited") /\ reason' = "MAX_EXEC"
  /\ UNCHANGED <<cpuVars, execVars, bpVars, declined>>

---------------------------------------------------------------------------
(* trace_to_return *)

\* Mutant: steps of a trace are not counted.
NextTraceUncounted == Frame("trace", "step", Top.depth, Top.n, Top.want, NoAddr)

NextTrace == Frame("trace", "step", Top.depth, Top.n + 1, Top.want, NoAddr)
Nested == Frame("dispatch", "top", Top.depth + 1, 0, NoAddr, NoAddr)

\* Mutant: a hook met under a trace ends the trace.
TraceStopsAtHook ==
  /\ At("trace", "step") /\ Top.n < MaxTrace
  /\ \E c \in TraceStep :
       /\ SetCpu(c)
       /\ IF c.pc = Top.want \/ c.pc \in bps THEN Returns ELSE Becomes(NextTrace)
  /\ declined' = FALSE
  /\ UNCHANGED <<execVars, bpVars, reason>>

Trace ==
  /\ At("trace", "step") /\ Top.n < MaxTrace
  /\ \E c \in TraceStep :
       /\ SetCpu(c)
       /\ IF c.pc = Top.want THEN Returns
          ELSE IF c.pc \in bps THEN frames' = Front(frames) \o <<NextTrace, Nested>>
          ELSE Becomes(NextTrace)
  /\ declined' = FALSE
  /\ UNCHANGED <<execVars, bpVars, reason>>

\* The step budget is exhausted, or a step does not complete.  At a magic
\* address there is no guest code for the step to come back from.
TraceFails ==
  /\ At("trace", "step")
  /\ Top.n = MaxTrace \/ Faults \/ IsMagic(pc)
  /\ Done("BUDGET")
  /\ UNCHANGED <<cpuVars, execVars, bpVars, declined>>

---------------------------------------------------------------------------
(* overlay_handle_pagein *)

PageInTooDeep ==
  /\ At("pagein", "enter") /\ Top.depth > MaxDepth
  /\ Done("DEPTH")
  /\ UNCHANGED <<cpuVars, execVars, bpVars, declined>>

\* The stub is classified (a stale breakpoint is dropped) and its INT is
\* stepped into.
PageInEnter ==
  /\ At("pagein", "enter") /\ Top.depth <= MaxDepth
  /\ bps' = bps \ {Top.os}
  /\ \E c \in CpuStep : SetCpu(c)
  /\ Becomes(Frame("pagein", "pager", Top.depth, 0, NoAddr, Top.os))
  /\ declined' = FALSE
  /\ UNCHANGED <<execVars, srv, bpint, reason>>

PagerStep ==
  /\ At("pagein", "pager") /\ pc # Top.os /\ Top.n < MaxTrace
  /\ \E c \in CpuStep : SetCpu(c)
  /\ Becomes(Frame("pagein", "pager", Top.depth, Top.n + 1, NoAddr, Top.os))
  /\ UNCHANGED <<execVars, bpVars, declined, reason>>

\* The pager is back at its stub, now a far jump: its first call is sent
\* straight to the body.
PagedInNow ==
  /\ At("pagein", "pager") /\ pc = Top.os /\ Top.n < MaxTrace
  /\ LET s == pc[2]
     IN /\ map' = [map EXCEPT ![OvlOf[s]] = bytes[s]]
        /\ pc' = Entry(s)
        /\ Becomes(Frame("pagein", "body", Top.depth, 0, Last(stk), Top.os))
  /\ UNCHANGED <<stk, bytes, active, saved, mode, bpVars, declined, reason>>

NextBody == Frame("pagein", "body", Top.depth, Top.n + 1, Top.want, Top.os)

\* The body has returned: now the stub is armed.
BodyReturns ==
  /\ At("pagein", "body") /\ pc = Top.want /\ Top.n < MaxTrace
  /\ overlay_reconcile_all(bytes)
  /\ Returns
  /\ UNCHANGED <<cpuVars, active, saved, mode, bpint, declined, reason>>

BodyGoesOn == At("pagein", "body") /\ pc # Top.want /\ Top.n < MaxTrace

BodyPageIn ==
  /\ BodyGoesOn /\ pc \in Registry /\ Unpaged(pc)
  /\ bps' = bps \ {pc}
  /\ frames' = Front(frames) \o
       <<NextBody, Frame("pagein", "enter", Top.depth + 1, 0, NoAddr, pc)>>
  /\ UNCHANGED <<cpuVars, execVars, srv, bpint, declined, reason>>

BodyDispatch ==
  /\ BodyGoesOn /\ ~(pc \in Registry /\ Unpaged(pc)) /\ pc \in bps
  /\ frames' = Front(frames) \o <<NextBody, Nested>>
  /\ UNCHANGED <<cpuVars, execVars, bpVars, declined, reason>>

BodyStep ==
  /\ BodyGoesOn /\ ~(pc \in Registry /\ Unpaged(pc)) /\ pc \notin bps
  /\ \E c \in TraceStep : SetCpu(c)
  /\ Becomes(NextBody)
  /\ declined' = FALSE
  /\ UNCHANGED <<execVars, bpVars, reason>>

PageInFails ==
  /\ Top.fn = "pagein"
  /\ Faults \/ (Top.at # "enter" /\ Top.n = MaxTrace) \/ IsMagic(pc)
  /\ Done("BUDGET")
  /\ UNCHANGED <<cpuVars, execVars, bpVars, declined>>

\* overlay_reconcile_all cannot arm stub x, at a stop or after a first native
\* body: those armed before it are tracked, x's stale entry is gone, and the
\* run ends (overlay_replant_bp).
ReconcileFails ==
  /\ StubFaults /\ OverlaysArmed
  /\ \/ InRun("stopped") /\ pc \in bps
     \/ At("pagein", "body") /\ pc = Top.want /\ Top.n < MaxTrace
  /\ \E x \in PagedStubs(bytes) : \E P \in SUBSET (PagedStubs(bytes) \ {x}), G \in SUBSET {x} :
       /\ bps' = (Tracked(bytes, bps) \cap (bps \cup P)) \ {x}
       /\ srv' = srv \cup P \cup G
  /\ map' = Mapping(bytes)
  /\ Done("ERROR")
  /\ UNCHANGED <<cpuVars, active, saved, mode, bpint, declined>>

---------------------------------------------------------------------------
Host ==
  \/ MzEntryStop \/ MzSkip \/ MzFails
  \/ Install \/ Go
  \/ StopTracked \/ StopPageIn \/ StopUnrelated \/ StopUnexpected
  \/ AfterStop \/ Cleanup
  \/ DispatchTooDeep \/ DispatchCapture \/ DispatchRestore \/ DispatchResume
  \/ DispatchLeave \/ DispatchCall \/ DispatchFails \/ DispatchNoContext
  \/ Trace \/ TraceFails
  \/ PageInTooDeep \/ PageInEnter \/ PagerStep \/ PagedInNow
  \/ BodyReturns \/ BodyPageIn \/ BodyDispatch \/ BodyStep \/ PageInFails
  \/ ReconcileFails

Next == Host \/ GuestRuns \/ GoFails \/ Ended

Spec == Init /\ [][Next]_vars

\* The host thread is never stopped for good; each command it waits for is
\* answered, or times out.
FairSpec == Spec /\ WF_vars(Host /\ frames' # frames)

---------------------------------------------------------------------------
(* Properties *)

TypeOK ==
  /\ active \subseteq Ids
  /\ bps \subseteq HookAddrs \cup Registry \cup {CaptureAddr, RestoreEntry}
  /\ bytes \in [Stubs -> Places \cup {0}]
  /\ map \in [Ovls -> Places \cup {0}]
  /\ mode \in {"NORMAL", "CAPTURE", "RESTORE"}
  /\ bpint \in BOOLEAN /\ declined \in BOOLEAN
  /\ Len(frames) > 0 /\ Len(stk) <= MaxStack + 1

Running == reason = "none"

\* Whenever the guest runs alone every static hook is armed, and what the
\* table tracks is set in the debugger; also after a restore has replaced
\* guest memory.
HooksArmed ==
  InRun("go") \/ InRun("running") => HookAddrs \subseteq bps /\ bps \subseteq srv

\* A hook dispatched at a stop of the guest finds the overlay segments the
\* guest's stubs have now.
OverlayMapFresh ==
  OverlaysArmed /\ At("dispatch", "top") /\ Top.depth = 0 /\ Top.n = 0 /\ Running =>
    \A s \in OvlHooks : map[OvlOf[s]] = bytes[s]

\* No breakpoint is in guest memory when it is captured (host_driver.c:72-75:
\* "an uncleared INT3 must never enter ... a memory snapshot").
SnapshotClean == reason = "exit 0" => srv = {}

\* A run that does not report an error leaves nothing behind in the debugger.
CleanRun ==
  InRun("returned") /\ reason \notin {"ERROR", "DOSEMU_EXIT"} => srv = {} /\ ~bpint

\* A stop is dispatched once: after a hook declined, the guest executes the
\* instruction (docs/dosemu2/OVERLAY_DESIGN.md:46: "never double-dispatch").
NeverDoubleDispatch == At("dispatch", "top") /\ Top.n = 0 => ~declined

\* Every stop at a hook is dispatched, exactly once: hooks are armed whenever
\* the guest runs alone, also after a restore, and a declined stop is stepped
\* over (host_run, dispatch_hook).
DispatchDiscipline == HooksArmed /\ NeverDoubleDispatch

\* Breakpoints stay out of what outlives the run: the snapshot, and the
\* debugger the host lets go of, also when debugger commands fail (host_cleanup).
SnapshotFaithful == SnapshotClean /\ CleanRun

\* Every dispatch ends: the host is back in host_run whatever the guest and
\* the hooks do.
DispatchesEnd == (Top.fn # "run") ~> (Top.fn = "run")
=============================================================================
