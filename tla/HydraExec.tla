------------------------------ MODULE HydraExec ------------------------------
(***************************************************************************)
(* The execution layer of the Hydra core: hydra/src/exec.c, with the call  *)
(* seams of hydra/src/machine.c and the two entry points of api_impl.c.    *)
(*                                                                         *)
(* A hook (a decompiled function) runs on a thread of its own, in one of   *)
(* MaxExec execution contexts.  The host's thread ("main") and the hook's  *)
(* thread hand the machine to each other through the context's mutex and   *)
(* its two condition variables.  A hook that calls a guest function        *)
(* pushes a magic return address naming its context, posts a CALL result   *)
(* and waits; the host lets the guest run, and when the guest returns to   *)
(* the magic address hydra_exec_run finds the context again and wakes its  *)
(* thread.  The guest may enter further hooks in between, so contexts nest.*)
(*                                                                         *)
(* The guest is external: between two stops it makes far and near calls,   *)
(* returns by the frame it was called with, and jumps.  Its stack holds    *)
(* frames, one per call; sp counts them.                                   *)
(***************************************************************************)
EXTENDS HydraCallstack, Integers, FiniteSets, FiniteSetsExt, SequencesExt

CONSTANTS
  MaxExec,          \* MAX_EXEC (1024), contexts
  NearIds,          \* ids a near magic address can carry (256)
  MagicSeg,         \* 0xffff, segment of the far magic addresses
  RomSeg,           \* 0xf000, segment that has no near magic addresses
  MagicOff,         \* 0xff00, first offset of the near magic window
  Hooks,            \* absolute entries of the hooks without the OVERLAY flag
  Stubs,            \* absolute entries of the hooks with the OVERLAY flag
  Bodies,           \* where the overlay pager can place a stub's body
  MaxTracked,       \* MAX_OVERLAY_TRACKING (1024)
  Fns,              \* entries of guest functions that have no hook
  Main,             \* where the guest starts
  RelocChoices,     \* the maybe_reloc arguments hooks pass to a near call
  StartModes,       \* HYDRA_MODE at start: of "NORMAL", "CAPTURE", "RESTORE"
  CaptureAddr,      \* HYDRA_MODE->capture_addr, absolute
  RestoreEntry,     \* hydra_hook_entry_addr()
  ExitCodes,        \* exit codes a terminating hook reports
  MaxStack,         \* bound: frames on the guest's stack
  MaxCalls          \* bound: depth of the callstack model at which hooks
                    \* stop issuing calls

ASSUME ExecAssumption ==
  /\ MaxExec \in Nat \ {0}
  /\ NearIds \in 0 .. MaxExec
  /\ MagicSeg \in Nat /\ RomSeg \in Nat /\ MagicOff \in Nat
  /\ RomSeg # MagicSeg
  /\ CodeStart \in Nat
  /\ MaxStack \in Nat
  /\ ExitCodes \subseteq Nat
  /\ RelocChoices \subseteq BOOLEAN
  /\ StartModes \subseteq {"NORMAL", "CAPTURE", "RESTORE"}
  /\ MaxTracked \in Nat
  /\ \A a \in Hooks \cup Stubs \cup Bodies \cup Fns \cup {Main, CaptureAddr, RestoreEntry} :
       a \in [cs : Nat, ip : Nat]

VARIABLES
  m,              \* the host's registers: cs, ip, sp
  mem,            \* the guest's stack memory: frame number -> frame
  stubMem,        \* bytes at each stub: the far jump's target, or NoAddr
                  \* for "int 3f"
  tracking,       \* overlay_tracking: stub -> target last seen, or NoAddr
  pc,             \* where the host's thread is
  cur,            \* the context the host's thread works on
  res,            \* the result hydra_exec_run got
  state,          \* executions[e].state
  machine,        \* executions[e].machine.registers
  result,         \* executions[e].result
  saved,          \* saved_cs, saved_ip, maybe_reloc
  mutex,          \* owner of executions[e].mutex
  tpc,            \* where the thread of context e is
  thread_active,
  last_exit_code,
  mode,           \* HYDRA_MODE->mode
  cst,            \* the callstack model
  fault,          \* the FAIL, assert or exit that ended the process
  back            \* history: the context to whose magic return address the
                  \* guest has just returned, until it is resumed

vars == <<m, mem, stubMem, tracking, pc, cur, res, state, machine, result,
          saved, mutex, tpc, thread_active, last_exit_code, mode, cst, fault,
          back>>

Ctx == 0 .. MaxExec - 1
NoExec == MaxExec                \* NULL
Addr == [cs : Nat, ip : Nat]
NoAddr == [cs |-> MagicSeg, ip |-> MaxExec]
Regs == [cs : Nat, ip : Nat, sp : 0 .. MaxStack]
Frame == [far : BOOLEAN, cs : Nat, ip : Nat, by : 0 .. MaxExec]

At(r) == [cs |-> r.cs, ip |-> r.ip]

ExecStates == {"UNINIT", "IDLE", "ACTIVE", "DONE"}
ResultTypes == {"RESUME", "JUMP", "JUMP_NEAR", "CALL", "CALL_NEAR",
                "RET_NEAR", "RET_FAR", "TERMINATE"}
CallTypes == {"CALL", "CALL_NEAR"}
RetTypes == {"RET_NEAR", "RET_FAR"}
Results == [type : ResultTypes, to : Addr, code : Nat]
Result(type, to, code) == [type |-> type, to |-> to, code |-> code]

HostPcs == {"guest", "stop", "begin", "create", "continue", "enter wait",
            "wait", "woken", "copy", "join", "apply", "terminated"}
\* Between acquiring or resuming a context and having its result in hand.
HandoverPcs == HostPcs \ {"guest", "stop", "apply", "terminated"}
ThreadPcs == {"none", "start", "run", "posted", "wait", "woken", "returned",
              "exited"}

---------------------------------------------------------------------------
(* Addresses and the guest's stack *)

FarMagic(e) == [cs |-> MagicSeg, ip |-> e]
NearMagicIp(e) == MagicOff + e

\* A return address lies inside the calling function, never at an entry:
\* entries have even offsets, the rest of the function the next odd one.
After(ip) == IF ip % 2 = 0 THEN ip + 1 ELSE ip

\* The field "by" is history: the context whose call pushed the frame, or
\* NoExec for a call of the guest itself.
FarFrame(a, by) == [far |-> TRUE, cs |-> a.cs, ip |-> a.ip, by |-> by]
NearFrame(ip, by) == [far |-> FALSE, cs |-> 0, ip |-> ip, by |-> by]

Push(r, frame) ==
  /\ r.sp < MaxStack
  /\ mem' = [mem EXCEPT ![r.sp + 1] = frame]

\* Values that no step reads again before writing them are forgotten, here
\* and in JoinThread and ApplyResult: the frame above the stack pointer, the
\* fields of a released context, the host's copy of a result.
NoFrame == [far |-> FALSE, cs |-> 0, ip |-> 0, by |-> MaxExec]
NoResult == [type |-> "RESUME", to |-> NoAddr, code |-> 0]
NoRegs == [cs |-> 0, ip |-> 0, sp |-> 0]
NotSaved == [cs |-> 0, ip |-> 0, reloc |-> FALSE]
Forget(k) == [mem EXCEPT ![k] = NoFrame]

\* RETF takes segment and offset from the stack, RET only the offset.
FarPopped(r) == [cs |-> mem[r.sp].cs, ip |-> mem[r.sp].ip, sp |-> r.sp - 1]
NearPopped(r) == [cs |-> r.cs, ip |-> mem[r.sp].ip, sp |-> r.sp - 1]

\* Where a host calls hydra_machine_exec: at the hooks, and wherever a magic
\* return address may be.
StopAddr(a) ==
  \/ a \in Hooks \cup Stubs
  \/ a.cs = MagicSeg
  \/ a.ip >= MagicOff
  \/ mode = "CAPTURE" /\ a = CaptureAddr
  \/ mode = "RESTORE" /\ a = RestoreEntry

GuestOrStop(a) == IF StopAddr(a) THEN "stop" ELSE "guest"

\* What the guest can execute: entries, and inside each function the place
\* its calls return to.  A hook starts at its entry or, for an overlay stub,
\* at a body, wherever the pager has placed it.
GuestCode ==
  LET entries == Hooks \cup Stubs \cup Bodies \cup Fns \cup {Main, CaptureAddr}
  IN entries \cup {[cs |-> a.cs, ip |-> After(a.ip)] : a \in entries}

BodySegs == {b.cs : b \in Bodies}
HookCode == Hooks \cup {[cs |-> seg, ip |-> b.ip] : seg \in BodySegs, b \in Bodies}
HookSegs == {h.cs : h \in HookCode}

\* How the program is laid out: an overlay is the same code wherever it is
\* placed; hooks and stubs lie outside the overlay area, stubs are entries of
\* their own, neither lies in the segment of the far magic addresses, and no
\* hook in the ROM; guest code in the segment of the far magic addresses lies
\* above the context numbers; code in the near window lies in no segment of a
\* hook, and there is none at all if hooks call with maybe_reloc, which
\* try_resume "cannot verify".
ASSUME LayoutAssumption ==
  /\ \A a \in GuestCode, seg \in BodySegs :
       a.cs \in BodySegs => [cs |-> seg, ip |-> a.ip] \in GuestCode
  /\ \A h \in Hooks \cup Stubs : h.cs \notin BodySegs
  /\ \A s \in Stubs : s \notin Hooks \cup Fns /\ After(s.ip) # s.ip /\ s.cs # MagicSeg
  /\ MagicSeg \notin HookSegs /\ RomSeg \notin HookSegs
  /\ \A a \in GuestCode : a.cs = MagicSeg => a.ip >= MaxExec
  /\ \A a \in GuestCode :
       a.cs \notin {MagicSeg, RomSeg} /\ a.ip >= MagicOff /\ a.ip - MagicOff < MaxExec
         => a.cs \notin HookSegs /\ TRUE \notin RelocChoices

\* When the callstack model cannot stop the process: hooks call no deeper than
\* it has room for, no code lies below the load segment, and no address a host
\* dispatches at decodes as a call or a return or is an interrupt handler's.
ASSUME CallstackAssumption ==
  /\ MaxCalls \in Nat /\ MaxCallStack \in Nat /\ MaxCalls <= MaxCallStack
  /\ MagicSeg >= CodeStart
  /\ \A a \in GuestCode : a.cs >= CodeStart
  /\ \A a \in CallSites \cup RetSites \cup JumpRets \cup Handlers :
       a \notin Hooks \cup Stubs \cup {CaptureAddr, RestoreEntry} /\ a.ip < MagicOff

---------------------------------------------------------------------------
Init ==
  /\ m = [cs |-> Main.cs, ip |-> Main.ip, sp |-> 0]
  /\ mem = [k \in 1 .. MaxStack |-> NoFrame]
  /\ stubMem = [s \in Stubs |-> NoAddr]
  /\ tracking = [s \in Stubs |-> NoAddr]
  /\ pc = "guest"
  /\ cur = NoExec
  /\ res = NoResult
  /\ state = [e \in Ctx |-> "UNINIT"]
  /\ machine = [e \in Ctx |-> NoRegs]
  /\ result = [e \in Ctx |-> NoResult]
  /\ saved = [e \in Ctx |-> NotSaved]
  /\ mutex = [e \in Ctx |-> "free"]
  /\ tpc = [e \in Ctx |-> "none"]
  /\ thread_active = NoExec
  /\ last_exit_code = -1
  /\ mode \in StartModes
  /\ cst = CallstackInit
  /\ fault = "none"
  /\ back = NoExec

execVars == <<state, machine, result, saved, mutex, tpc, thread_active>>
overlayVars == <<stubMem, tracking>>

---------------------------------------------------------------------------
(* The guest (external): what it does between two stops of the host *)

GuestGoesTo(r, by) ==
  /\ m' = r
  /\ back' = by
  /\ pc' = GuestOrStop(At(r))
  /\ UNCHANGED <<tracking, cur, res, execVars, last_exit_code, mode, cst, fault>>

GuestCallFar(to) ==
  /\ pc = "guest"
  /\ Push(m, FarFrame([cs |-> m.cs, ip |-> After(m.ip)], NoExec))
  /\ GuestGoesTo([cs |-> to.cs, ip |-> to.ip, sp |-> m.sp + 1], NoExec)
  /\ UNCHANGED stubMem

GuestCallNear(to) ==
  /\ pc = "guest"
  /\ to.cs = m.cs
  /\ Push(m, NearFrame(After(m.ip), NoExec))
  /\ GuestGoesTo([cs |-> m.cs, ip |-> to.ip, sp |-> m.sp + 1], NoExec)
  /\ UNCHANGED stubMem

\* A tail jump; a function called near stays in its segment.  Stubs jump far
\* and are never called near.
GuestJump(to) ==
  /\ pc = "guest"
  /\ m.sp > 0
  /\ mem[m.sp].far \/ (to.cs = m.cs /\ to \notin Stubs)
  /\ GuestGoesTo([cs |-> to.cs, ip |-> to.ip, sp |-> m.sp], NoExec)
  /\ UNCHANGED <<mem, stubMem>>

GuestRet ==
  /\ pc = "guest"
  /\ m.sp > 0
  /\ mem' = Forget(m.sp)
  /\ GuestGoesTo(IF mem[m.sp].far THEN FarPopped(m) ELSE NearPopped(m),
                 mem[m.sp].by)
  /\ UNCHANGED stubMem

\* At an unpaged stub the guest executes INT 3F: the pager places the body,
\* patches the stub to a far jump and returns to it.
GuestPageIn(body) ==
  /\ pc = "guest"
  /\ At(m) \in Stubs
  /\ stubMem[At(m)] = NoAddr
  /\ \A s \in Stubs : stubMem[s].cs # body.cs
  /\ stubMem' = [stubMem EXCEPT ![At(m)] = body]
  /\ GuestGoesTo(m, NoExec)
  /\ UNCHANGED mem

\* The pager moves the overlay in segment old: it patches the stubs and every
\* far return address, and the running code continues in the new segment.  A
\* hook running in the overlay tolerates the move only across a near call
\* made with maybe_reloc.
GuestRelocate(old, new) ==
  LET Moved(seg) == IF seg = old THEN new ELSE seg
  IN /\ pc = "guest"
     /\ \E s \in Stubs : stubMem[s].cs = old
     /\ \A s \in Stubs : stubMem[s].cs # new
     /\ \A e \in Ctx : state[e] = "ACTIVE" /\ saved[e].cs = old => saved[e].reloc
     /\ stubMem' = [s \in Stubs |->
                      [cs |-> Moved(stubMem[s].cs), ip |-> stubMem[s].ip]]
     /\ mem' = [k \in 1 .. MaxStack |->
                  IF mem[k].far
                  THEN FarFrame([cs |-> Moved(mem[k].cs), ip |-> mem[k].ip], mem[k].by)
                  ELSE mem[k]]
     /\ GuestGoesTo([cs |-> Moved(m.cs), ip |-> m.ip, sp |-> m.sp], NoExec)

Guest ==
  \/ \E to \in Fns \cup Hooks \cup Stubs : GuestCallFar(to) \/ GuestJump(to)
  \/ \E to \in Fns \cup Hooks : GuestCallNear(to)
  \/ GuestRet
  \/ \E body \in Bodies : GuestPageIn(body)
  \/ \E old, new \in BodySegs : GuestRelocate(old, new)

---------------------------------------------------------------------------
(* The host's thread: hydra_machine_exec *)

\* A FAIL, a failed assert or an exit() ends the process.
Abort(reason) ==
  /\ fault' = reason
  /\ UNCHANGED <<m, mem, overlayVars, pc, cur, res, execVars, last_exit_code,
                 mode, cst, back>>

\* hydra_machine_exec skips the callstack at the far magic segment; every
\* hydra_exec_run starts by clearing the exit code.
Tracked ==
  IF m.cs = MagicSeg THEN cst
  ELSE hydra_callstack_track(cst, At(m),
         IF m.sp > 0 THEN [cs |-> mem[m.sp].cs, ip |-> mem[m.sp].ip]
                     ELSE At(m))

\* Mutants: the near window starts one too late; the segment is not compared;
\* it is compared although the caller may have moved.
ResumableLate(e) ==
  /\ state[e] = "ACTIVE"
  /\ \/ m.cs = MagicSeg /\ m.ip = e
     \/ m.cs # MagicSeg /\ m.cs # RomSeg /\ m.ip > MagicOff /\ m.ip - MagicOff = e

ResumableAnySegment(e) ==
  /\ state[e] = "ACTIVE"
  /\ \/ m.cs = MagicSeg /\ m.ip = e
     \/ m.cs # MagicSeg /\ m.cs # RomSeg /\ m.ip >= MagicOff /\ m.ip - MagicOff = e

\* try_resume: the context whose magic return address the guest is at.
Resumable(e) ==
  /\ state[e] = "ACTIVE"
  /\ \/ m.cs = MagicSeg /\ m.ip = e
     \/ /\ m.cs # MagicSeg /\ m.cs # RomSeg
        /\ m.ip >= MagicOff
        /\ m.ip - MagicOff = e
        /\ saved[e].reloc \/ m.cs = saved[e].cs

NoResume == \A e \in Ctx : ~Resumable(e)

\* Every action of a dispatch shares this: hydra_machine_exec tracks the
\* callstack, hydra_exec_run clears the exit code.
Dispatch == pc = "stop" /\ Tracked.fail = "none" /\ last_exit_code' = -1

TrackFails ==
  /\ pc = "stop"
  /\ Tracked.fail # "none"
  /\ Abort(Tracked.fail)

\* hydra_exec_run_special_modes.  The restored machine is the captured one;
\* the driver re-reads its registers.
CaptureState ==
  /\ Dispatch
  /\ mode = "CAPTURE" /\ At(m) = CaptureAddr
  /\ fault' = "exit 0"
  /\ UNCHANGED <<m, mem, overlayVars, pc, cur, res, execVars, mode, cst, back>>

RestoreState ==
  /\ Dispatch
  /\ mode = "RESTORE" /\ At(m) = RestoreEntry
  /\ mode' = "NORMAL"
  /\ m' = [cs |-> CaptureAddr.cs, ip |-> After(CaptureAddr.ip), sp |-> 0]
  /\ mem' = [k \in 1 .. MaxStack |-> NoFrame]
  /\ cst' = hydra_callstack_notify(Tracked, At(m'))
  /\ fault' = cst'.fail
  /\ pc' = "guest"
  /\ UNCHANGED <<overlayVars, cur, res, execVars, back>>

\* Nothing to run: no context to resume and no hook here, an overlay stub
\* that is not paged in yet, or a special mode waiting for its address.
ResumeGuest ==
  /\ Dispatch
  /\ \/ mode = "CAPTURE" /\ At(m) # CaptureAddr
     \/ mode = "RESTORE" /\ At(m) # RestoreEntry
     \/ /\ mode = "NORMAL"
        /\ NoResume
        /\ \/ At(m) \notin Hooks \cup Stubs
           \/ At(m) \in Stubs /\ stubMem[At(m)] = NoAddr
  /\ cst' = hydra_callstack_notify(Tracked, At(m))
  /\ fault' = cst'.fail
  /\ pc' = "guest"
  /\ UNCHANGED <<m, mem, overlayVars, cur, res, execVars, mode, back>>

TryResume(e) ==
  /\ Dispatch
  /\ mode = "NORMAL"
  /\ Resumable(e)
  /\ cst' = Tracked
  /\ cur' = e
  /\ pc' = "continue"
  /\ back' = NoExec
  /\ UNCHANGED <<m, mem, overlayVars, res, execVars, mode, fault>>

\* Mutant: execution_acquire skips only states above ACTIVE.
FreeOrActive == {e \in Ctx : state[e] # "DONE"}

\* The first context that is not in use.
Free == {e \in Ctx : state[e] \in {"UNINIT", "IDLE"}}

\* Mutant: the last free context.
AcquireLast(e) == e \in Free /\ \A f \in Free : e >= f

execution_acquire(e) == e \in Free /\ \A f \in Free : e <= f

\* overlay_tracking_find_or_alloc finds the table full.
Overflowing(s) ==
  tracking[s] = NoAddr /\ Cardinality({t \in Stubs : tracking[t] # NoAddr}) = MaxTracked

DispatchesHook ==
  /\ Dispatch
  /\ mode = "NORMAL"
  /\ NoResume
  /\ \/ At(m) \in Hooks
     \/ At(m) \in Stubs /\ stubMem[At(m)] # NoAddr

\* run_begin up to the context.
RunBegin ==
  /\ DispatchesHook
  /\ At(m) \in Stubs => ~Overflowing(At(m))
  /\ IF At(m) \in Stubs
     THEN /\ tracking' = [tracking EXCEPT ![At(m)] = stubMem[At(m)]]
          /\ m' = [cs |-> stubMem[At(m)].cs, ip |-> stubMem[At(m)].ip, sp |-> m.sp]
     ELSE UNCHANGED <<tracking, m>>
  /\ \E e \in Ctx :
       /\ execution_acquire(e)
       /\ cur' = e
       /\ state' = [state EXCEPT ![e] = "ACTIVE"]
  /\ cst' = Tracked
  /\ pc' = "begin"
  /\ UNCHANGED <<mem, stubMem, res, machine, result, saved, mutex, tpc,
                 thread_active, mode, fault, back>>

RunBeginFails ==
  /\ pc = "stop"
  /\ mode = "NORMAL" /\ NoResume
  /\ Tracked.fail = "none"
  /\ \/ /\ At(m) \in Hooks
        /\ Free = {}
        /\ Abort("MAX_EXEC")
     \/ /\ At(m) \in Stubs /\ stubMem[At(m)] # NoAddr
        /\ \/ Free = {} /\ ~Overflowing(At(m)) /\ Abort("MAX_EXEC")
           \/ Overflowing(At(m)) /\ Abort("overlay tracking")

---------------------------------------------------------------------------
(* The host's thread: the handover to and from the hook's thread *)

BeginLock ==
  /\ pc = "begin"
  /\ mutex[cur] = "free"
  /\ mutex' = [mutex EXCEPT ![cur] = "main"]
  /\ machine' = [machine EXCEPT ![cur] = m]
  /\ pc' = "create"
  /\ UNCHANGED <<m, mem, overlayVars, cur, res, state, result, saved, tpc,
                 thread_active, last_exit_code, mode, cst, fault, back>>

CreateThread ==
  /\ pc = "create"
  /\ tpc' = [tpc EXCEPT ![cur] = "start"]
  /\ pc' = "enter wait"
  /\ UNCHANGED <<m, mem, overlayVars, cur, res, state, machine, result, saved,
                 mutex, thread_active, last_exit_code, mode, cst, fault, back>>

\* Mutants: run_continue does not signal; run_wait does not wait.
RunContinueUnsignalled ==
  /\ pc = "continue"
  /\ mutex[cur] = "free"
  /\ mutex' = [mutex EXCEPT ![cur] = "main"]
  /\ machine' = [machine EXCEPT ![cur] = m]
  /\ pc' = "enter wait"
  /\ UNCHANGED <<m, mem, overlayVars, cur, res, state, result, saved, tpc,
                 thread_active, last_exit_code, mode, cst, fault, back>>

\* run_continue: the signal reaches the thread only if it waits.
RunContinue ==
  /\ pc = "continue"
  /\ mutex[cur] = "free"
  /\ mutex' = [mutex EXCEPT ![cur] = "main"]
  /\ machine' = [machine EXCEPT ![cur] = m]
  /\ tpc' = [tpc EXCEPT ![cur] = IF @ = "wait" THEN "woken" ELSE @]
  /\ pc' = "enter wait"
  /\ UNCHANGED <<m, mem, overlayVars, cur, res, state, result, saved,
                 thread_active, last_exit_code, mode, cst, fault, back>>

\* run_wait: pthread_cond_wait releases the mutex and sleeps ...
EnterWait ==
  /\ pc = "enter wait"
  /\ mutex' = [mutex EXCEPT ![cur] = "free"]
  /\ pc' = "wait"
  /\ UNCHANGED <<m, mem, overlayVars, cur, res, state, machine, result, saved,
                 tpc, thread_active, last_exit_code, mode, cst, fault, back>>

\* ... returns with it; the result is read and the mutex released.
TakeResult ==
  /\ pc = "woken"
  /\ mutex[cur] = "free"
  /\ res' = result[cur]
  /\ pc' = "copy"
  /\ UNCHANGED <<m, mem, overlayVars, cur, execVars, last_exit_code, mode,
                 cst, fault, back>>

CopyMachine ==
  /\ pc = "copy"
  /\ m' = machine[cur]
  /\ IF state[cur] = "DONE"
     THEN pc' = "join" /\ UNCHANGED cur
     ELSE pc' = "apply" /\ cur' = NoExec
  /\ UNCHANGED <<mem, overlayVars, res, execVars, last_exit_code, mode, cst,
                 fault, back>>

JoinThread ==
  /\ pc = "join"
  /\ tpc[cur] = "exited"
  /\ tpc' = [tpc EXCEPT ![cur] = "none"]
  /\ state' = [state EXCEPT ![cur] = "IDLE"]
  /\ pc' = "apply"
  /\ cur' = NoExec
  /\ machine' = [machine EXCEPT ![cur] = NoRegs]
  /\ result' = [result EXCEPT ![cur] = NoResult]
  /\ saved' = [saved EXCEPT ![cur] = NotSaved]
  /\ UNCHANGED <<m, mem, overlayVars, res, mutex, thread_active,
                 last_exit_code, mode, cst, fault, back>>

---------------------------------------------------------------------------
(* The host's thread: applying the result, then hydra_machine_notify *)

\* Mutant: a near return pops a segment as well.
RedirectedPopsFar ==
  [cs |-> m.cs, ip |-> mem[m.sp].ip,
   sp |-> IF res.type = "RET_NEAR" THEN m.sp - 2 ELSE m.sp]

\* The registers hydra_exec_run leaves for a result.
Redirected ==
  [cs |-> IF res.type \in {"JUMP", "CALL"} THEN res.to.cs
          ELSE IF res.type = "RET_FAR" THEN mem[m.sp].cs ELSE m.cs,
   ip |-> IF res.type \in {"JUMP", "JUMP_NEAR", "CALL", "CALL_NEAR"} THEN res.to.ip
          ELSE IF res.type \in RetTypes THEN mem[m.sp].ip ELSE m.ip,
   sp |-> IF res.type \in RetTypes THEN m.sp - 1 ELSE m.sp]

\* What it tells the callstack: the return address of a call, a return.
Recorded ==
  CASE res.type = "CALL" ->
         hydra_callstack_trigger_enter(cst, [cs |-> mem[m.sp].cs, ip |-> mem[m.sp].ip])
    [] res.type = "CALL_NEAR" ->
         hydra_callstack_trigger_enter(cst, [cs |-> m.cs, ip |-> mem[m.sp].ip])
    [] res.type \in RetTypes -> hydra_callstack_ret(cst)
    [] OTHER -> cst

\* A hook that returns RESUME leaves the guest at its entry, running natively.
ApplyResult ==
  /\ pc = "apply"
  /\ m' = Redirected
  /\ cst' = hydra_callstack_notify(Recorded, At(m'))
  /\ fault' = cst'.fail
  /\ pc' = IF res.type = "TERMINATE" THEN "terminated"
           ELSE IF res.type = "RESUME" THEN "guest" ELSE GuestOrStop(At(m'))
  /\ last_exit_code' = IF res.type = "TERMINATE" THEN res.code ELSE last_exit_code
  /\ back' = IF res.type \in RetTypes THEN mem[m.sp].by ELSE NoExec
  /\ mem' = IF res.type \in RetTypes THEN Forget(m.sp) ELSE mem
  /\ res' = IF res.type = "TERMINATE" THEN res ELSE NoResult
  /\ UNCHANGED <<overlayVars, cur, execVars, mode>>

---------------------------------------------------------------------------
(* The thread of context e: thread_func and the call seams of machine.c *)

ThreadStart(e) ==
  /\ tpc[e] = "start"
  /\ mutex[e] = "free"
  /\ mutex' = [mutex EXCEPT ![e] = "child"]
  /\ thread_active' = e
  /\ tpc' = [tpc EXCEPT ![e] = "run"]
  /\ UNCHANGED <<m, mem, overlayVars, pc, cur, res, state, machine, result,
                 saved, last_exit_code, mode, cst, fault, back>>

\* pthread_cond_signal(cond_main): only a waiting host's thread is woken.
SignalMain(x) == pc' = IF pc = "wait" /\ cur = x THEN "woken" ELSE pc

\* The tail of hydra_impl_call_far and hydra_impl_call_near_off up to the
\* wait.  The context is the one execution_context_get finds.
PostCall(e, x, frame, type, to, reloc) ==
  /\ Push(machine[x], frame)
  /\ machine' = [machine EXCEPT ![x] = [cs |-> @.cs, ip |-> @.ip, sp |-> @.sp + 1]]
  /\ saved' = [saved EXCEPT ![x] = [cs |-> machine[x].cs, ip |-> machine[x].ip,
                                    reloc |-> reloc]]
  /\ result' = [result EXCEPT ![x] = Result(type, to, 0)]
  /\ SignalMain(x)
  /\ tpc' = [tpc EXCEPT ![e] = "posted"]
  /\ UNCHANGED <<m, overlayVars, cur, res, state, mutex, thread_active,
                 last_exit_code, mode, cst, fault, back>>

hydra_impl_call_far(e, to) ==
  /\ tpc[e] = "run"
  /\ Len(cst.stack) < MaxCalls
  /\ LET x == thread_active
     IN PostCall(e, x, FarFrame(FarMagic(x), x), "CALL", to, FALSE)

hydra_impl_call_near_off(e, to, reloc) ==
  /\ tpc[e] = "run"
  /\ Len(cst.stack) < MaxCalls
  /\ LET x == thread_active
     IN /\ machine[x].cs = to.cs
        /\ IF x >= NearIds THEN Abort("near id")
           ELSE IF machine[x].cs < CodeStart THEN Abort("below load segment")
           ELSE PostCall(e, x, NearFrame(NearMagicIp(x), x), "CALL_NEAR", to, reloc)

\* pthread_cond_wait(cond_child)
ThreadWait(e) ==
  /\ tpc[e] = "posted"
  /\ mutex' = [mutex EXCEPT ![e] = "free"]
  /\ tpc' = [tpc EXCEPT ![e] = "wait"]
  /\ UNCHANGED <<m, mem, overlayVars, pc, cur, res, state, machine, result,
                 saved, thread_active, last_exit_code, mode, cst, fault, back>>

\* What the call seams do after the wait, for the registers r restores and
\* the context made active.
Restored(e, active, r) ==
  /\ mutex' = [mutex EXCEPT ![e] = "child"]
  /\ thread_active' = active
  /\ machine' = [machine EXCEPT ![e] = r]
  /\ tpc' = [tpc EXCEPT ![e] = "run"]
  /\ UNCHANGED <<m, mem, overlayVars, pc, cur, res, state, result, saved,
                 last_exit_code, mode, cst, fault, back>>

SavedRegs(e, near) ==
  [cs |-> IF near THEN machine[e].cs ELSE saved[e].cs, ip |-> saved[e].ip,
   sp |-> machine[e].sp]

\* Mutant: a near call restores the segment too.
ThreadResumeStaleCs(e) ==
  tpc[e] = "woken" /\ mutex[e] = "free" /\ Restored(e, e, SavedRegs(e, FALSE))

\* A far call restores both registers; a near call the offset only, after
\* asserting that the segment is still the caller's.
ThreadResume(e) ==
  /\ tpc[e] = "woken"
  /\ mutex[e] = "free"
  /\ LET near == result[e].type = "CALL_NEAR"
     IN IF near /\ ~saved[e].reloc /\ machine[e].cs # saved[e].cs
        THEN Abort("cs moved")
        ELSE Restored(e, e, SavedRegs(e, near))

\* What a hook can return: by the frame it was called with.
Returns(e) ==
  LET called == machine[e].sp > 0
      far == called /\ mem[machine[e].sp].far
  IN   {NoResult}
  \cup {Result("JUMP", to, 0) : to \in IF far THEN Fns ELSE {}}
  \cup {Result("JUMP_NEAR", to, 0) :
          to \in {f \in Fns : called /\ f.cs = machine[e].cs}}
  \cup (IF called
        THEN {Result(IF far THEN "RET_FAR" ELSE "RET_NEAR", NoAddr, 0)} ELSE {})
  \cup {Result("TERMINATE", NoAddr, c) : c \in ExitCodes}

\* Mutant: thread_func forgets state = DONE.
ThreadReturnStaysActive(e, r) ==
  /\ tpc[e] = "run"
  /\ result' = [result EXCEPT ![e] = r]
  /\ SignalMain(e)
  /\ tpc' = [tpc EXCEPT ![e] = "returned"]
  /\ UNCHANGED <<m, mem, overlayVars, cur, res, state, machine, saved, mutex,
                 thread_active, last_exit_code, mode, cst, fault, back>>

\* The end of thread_func: the hook returned r.
ThreadReturn(e, r) ==
  /\ tpc[e] = "run"
  /\ result' = [result EXCEPT ![e] = r]
  /\ state' = [state EXCEPT ![e] = "DONE"]
  /\ SignalMain(e)
  /\ tpc' = [tpc EXCEPT ![e] = "returned"]
  /\ UNCHANGED <<m, mem, overlayVars, cur, res, machine, saved, mutex,
                 thread_active, last_exit_code, mode, cst, fault, back>>

ThreadExit(e) ==
  /\ tpc[e] = "returned"
  /\ mutex' = [mutex EXCEPT ![e] = "free"]
  /\ tpc' = [tpc EXCEPT ![e] = "exited"]
  /\ UNCHANGED <<m, mem, overlayVars, pc, cur, res, state, machine, result,
                 saved, thread_active, last_exit_code, mode, cst, fault, back>>

---------------------------------------------------------------------------
HostDispatch ==
  \/ TrackFails \/ CaptureState \/ RestoreState \/ ResumeGuest
  \/ \E e \in Ctx : TryResume(e)
  \/ RunBegin \/ RunBeginFails

HostHandover ==
  \/ BeginLock \/ CreateThread \/ RunContinue \/ EnterWait
  \/ TakeResult \/ CopyMachine \/ JoinThread \/ ApplyResult

ThreadHandover(e) ==
  ThreadStart(e) \/ ThreadWait(e) \/ ThreadResume(e) \/ ThreadExit(e)

HookStep(e) ==
  \/ \E to \in Fns \cup Hooks \cup Stubs : hydra_impl_call_far(e, to)
  \/ \E to \in Fns \cup Hooks, reloc \in RelocChoices :
       hydra_impl_call_near_off(e, to, reloc)
  \/ \E r \in Returns(e) : ThreadReturn(e, r)

Step ==
  \/ Guest
  \/ HostDispatch
  \/ HostHandover
  \/ \E e \in Ctx : ThreadHandover(e) \/ HookStep(e)

\* The process has ended, or the machine is spent.
Stopped == (fault # "none" \/ pc = "terminated") /\ UNCHANGED vars

Next == (fault = "none" /\ Step) \/ Stopped

Spec == Init /\ [][Next]_vars

\* The scheduler runs every thread that can take a step of the handover; what
\* the guest and the hooks do is their own affair.
FairSpec ==
  /\ Spec
  /\ WF_vars(fault = "none" /\ (HostDispatch \/ HostHandover))
  /\ \A e \in Ctx : WF_vars(fault = "none" /\ ThreadHandover(e))

---------------------------------------------------------------------------
(* Properties *)

TypeOK ==
  /\ m \in Regs
  /\ mem \in [1 .. MaxStack -> Frame]
  /\ stubMem \in [Stubs -> Addr]
  /\ tracking \in [Stubs -> Addr]
  /\ pc \in HostPcs
  /\ cur \in 0 .. MaxExec
  /\ res \in Results
  /\ state \in [Ctx -> ExecStates]
  /\ machine \in [Ctx -> Regs]
  /\ result \in [Ctx -> Results]
  /\ saved \in [Ctx -> [cs : Nat, ip : Nat, reloc : BOOLEAN]]
  /\ mutex \in [Ctx -> {"free", "main", "child"}]
  /\ tpc \in [Ctx -> ThreadPcs]
  /\ thread_active \in 0 .. MaxExec
  /\ last_exit_code \in Nat \cup {-1}
  /\ back \in 0 .. MaxExec

\* A context the host's thread is not working on is free, or its thread is
\* asleep in the call seam it posted a call from; nobody holds its mutex.
Parked(e) ==
  /\ mutex[e] = "free"
  /\ \/ tpc[e] = "none" /\ state[e] \in {"UNINIT", "IDLE"}
     \/ tpc[e] = "wait" /\ state[e] = "ACTIVE" /\ result[e].type \in CallTypes

\* How far the handover between the host's thread and the thread of context e
\* has come: where both are, who holds the mutex, what has been posted.
Stage(e) ==
  \/ /\ state[e] = "ACTIVE"
     /\ \/ pc = "begin" /\ tpc[e] = "none" /\ mutex[e] = "free"
        \/ pc = "create" /\ tpc[e] = "none" /\ mutex[e] = "main"
        \/ pc = "enter wait" /\ tpc[e] \in {"start", "woken"} /\ mutex[e] = "main"
        \/ pc = "wait" /\ tpc[e] \in {"start", "woken"} /\ mutex[e] = "free"
        \/ pc = "wait" /\ tpc[e] = "run" /\ mutex[e] = "child"
  \/ /\ state[e] = "ACTIVE" /\ result[e].type \in CallTypes
     /\ \/ pc = "continue" /\ tpc[e] = "wait" /\ mutex[e] = "free"
        \/ pc = "woken" /\ tpc[e] = "posted" /\ mutex[e] = "child"
        \/ pc = "woken" /\ tpc[e] = "wait" /\ mutex[e] = "free"
        \/ pc = "copy" /\ tpc[e] = "wait" /\ mutex[e] = "free" /\ res = result[e]
  \/ /\ state[e] = "DONE"
     /\ \/ pc = "woken" /\ tpc[e] = "returned" /\ mutex[e] = "child"
        \/ pc = "woken" /\ tpc[e] = "exited" /\ mutex[e] = "free"
        \/ pc \in {"copy", "join"} /\ tpc[e] = "exited" /\ mutex[e] = "free"
             /\ res = result[e]

\* The protocol of the two condition variables, as an inductive invariant:
\* the host's thread works on at most one context, whose handover is at a
\* legal stage; every other context is parked; a thread that runs hook code
\* is the one thread_active names.
HandoverInv ==
  /\ pc \in HandoverPcs <=> cur # NoExec
  /\ \A e \in Ctx : IF e = cur THEN Stage(e) ELSE Parked(e)
  /\ \A e \in Ctx : tpc[e] \in {"run", "posted", "returned"} => thread_active = e

\* A hook that returned by RET or RETF has a frame to return by, up to the
\* moment ApplyResult pops it.
FrameInv ==
  /\ \A e \in Ctx : state[e] = "DONE" /\ result[e].type \in RetTypes
                       => machine[e].sp > 0
  /\ pc \in {"join", "apply"} /\ res.type \in RetTypes => m.sp > 0

\* While the thread of a context executes hook code, the host's thread is
\* blocked in run_wait of that very context, and thread_active names it:
\* there is one runner at a time, and the host primitives a hook calls find
\* the hook's own context (exec.c execution_context_get).
OneRunner ==
  \A e \in Ctx :
    tpc[e] \in {"run", "posted", "returned"} =>
      /\ cur = e /\ pc \in {"wait", "woken"}
      /\ thread_active = e

\* A result is taken only after the hook posted it: when run_wait copies the
\* machine out, without the mutex, the context's thread is either parked in
\* a call seam that posted a CALL, or done and past its last write.
ResultIsPosted ==
  pc \in {"copy", "join"} =>
    \/ /\ state[cur] = "ACTIVE" /\ tpc[cur] = "wait"
       /\ res.type \in CallTypes
    \/ state[cur] = "DONE" /\ tpc[cur] = "exited"

\* Host and hook threads hand the machine over without a gap: the protocol is
\* always at a legal stage, one computation runs at a time under the name
\* thread_active gives it, and no result is taken before it is posted
\* (exec.c run_begin, run_wait, run_continue; machine.c call seams).
HandoverSafe == HandoverInv /\ OneRunner /\ ResultIsPosted

\* The registers a computation of the guest is in: the host's copy, or the
\* context's while the hook's thread has the machine.
LiveRegs ==
  IF pc \in {"create", "enter wait", "wait", "woken", "copy"} THEN machine[cur] ELSE m

\* Contexts parked in a call seam whose guest function has not returned.
Suspended ==
  {e \in Ctx : /\ state[e] = "ACTIVE"
               /\ tpc[e] \in {"posted", "wait"}
               /\ ~(e = cur /\ pc = "continue")}

\* The magic return addresses on the guest's stack, and the contexts that
\* pushed them, bottom first, with the one the guest is just returning to.
MagicFrames == {k \in 1 .. LiveRegs.sp : mem[k].by # NoExec}
MagicRank(k) == Cardinality({j \in MagicFrames : j <= k})

MagicOrder ==
  [i \in 1 .. Cardinality(MagicFrames) |->
     mem[CHOOSE k \in MagicFrames : MagicRank(k) = i].by] \o
  (IF back = NoExec THEN <<>> ELSE <<back>>)

\* The guest's stack and the context table tell the same story: the magic
\* return addresses on it name every suspended context exactly once, in the
\* order the contexts were taken, and a context is in use only if it is
\* suspended or being run.  This is what lets a return address be a context
\* number: no context is taken twice, lost, or resumed out of turn.
NestingMatches ==
  /\ MagicOrder = [k \in 1 .. Cardinality(Suspended) |-> k - 1]
  /\ Suspended = 0 .. Cardinality(Suspended) - 1
  /\ {e \in Ctx : state[e] \in {"ACTIVE", "DONE"}} \subseteq
       Suspended \cup (IF pc \in HandoverPcs THEN {cur} ELSE {})

\* A return to a magic address is never taken for ordinary guest code: the
\* host resumes the context before the guest executes anything there.
NoMissedReturn == back # NoExec => pc = "stop"

\* Native guest code is only ever executed at addresses of guest functions.
NoDerail == pc = "guest" => At(m) \in GuestCode

\* The core aborts only at its documented limits, and at them only when the
\* nesting really is that deep: every context in use is on the guest's stack.
AbortsOnlyAtLimits ==
  /\ fault \in {"none", "exit 0", "MAX_EXEC", "near id", "overlay tracking"}
  /\ fault = "overlay tracking" =>
       /\ Cardinality({s \in Stubs : tracking[s] # NoAddr}) = MaxTracked
       /\ tracking[At(m)] = NoAddr
  /\ fault = "MAX_EXEC" => Cardinality(Suspended) = MaxExec
  /\ fault = "near id" => Cardinality(Suspended) >= NearIds

\* Every return of the guest to a hook is found, whatever code lies in the
\* magic windows: the CPU never executes at a magic address nor anywhere but
\* in guest code, and the core gives up only where it says it does
\* (exec.c execution_context_get_for_ret, run_continue).
ReturnsFound == NoMissedReturn /\ NoDerail /\ AbortsOnlyAtLimits

\* As long as a special mode is on, the guest runs alone: no hook is
\* dispatched before the capture, nor before the restore replaces the machine
\* under it (exec.c:339-342), and the restore happens at most once.
SpecialModesRunNoHook ==
  /\ mode # "NORMAL" => \A e \in Ctx : state[e] = "UNINIT" /\ tpc[e] = "none"
  /\ fault = "exit 0" => mode = "CAPTURE" /\ At(m) = CaptureAddr

\* Hooks are taken and released like a stack, and not at all while a capture
\* or a restore is pending (exec.c execution_acquire, hook dispatch).
HookDiscipline == NestingMatches /\ SpecialModesRunNoHook

\* A context is resumed only when the guest returned to the address that
\* context pushed (exec.c:268: "the guest really RETF'd onto an address we
\* pushed").
ResumesOnlyReturns ==
  [][pc = "stop" /\ pc' = "continue" => back = cur']_vars

\* A hook's context survives its calls: the registers the hook sees after a
\* call are the segment and offset it had before (near calls with
\* maybe_reloc may find the segment moved), on the stack it had.
CallsPreserveRegisters ==
  [][\A e \in Ctx : tpc[e] = "woken" /\ tpc'[e] = "run" =>
       /\ machine'[e].ip = saved[e].ip
       /\ machine'[e].cs = saved[e].cs \/ saved[e].reloc
       /\ \A k \in 1 .. machine'[e].sp : mem[k].by < e \/ mem[k].by = NoExec]_vars

\* What no step of the host may do: resume a hook the guest did not return
\* to, or hand a hook back other registers than it called with.
StepsDisciplined == ResumesOnlyReturns /\ CallsPreserveRegisters

\* A hook of an overlay runs in the segment its overlay is in now, also when
\* the pager moved the overlay during a near call the hook made with
\* maybe_reloc (machine.c:75-77).
HooksFollowOverlay ==
  \A e \in Ctx :
    tpc[e] = "run" /\ machine[e].cs \in BodySegs =>
      \E s \in Stubs : stubMem[s].cs = machine[e].cs

\* And every return finds its hook there, moved or not (exec.c try_resume).
OverlayHooksSafe == HooksFollowOverlay /\ ReturnsFound

\* A context found by its magic return address gets the machine: its thread
\* runs again (no wakeup is lost between run_continue and the call seam).
ResumeReachesHook ==
  \A e \in Ctx : (pc = "continue" /\ cur = e /\ fault = "none")
                   ~> (tpc[e] = "run" \/ fault # "none")

\* A result a hook posted reaches the host: run_wait does not sleep through
\* the signal.
PostReachesHost ==
  \A e \in Ctx : (tpc[e] \in {"posted", "returned"} /\ fault = "none")
                   ~> (pc \in {"apply", "terminated"} \/ fault # "none")

\* Neither of the two signals of a handover is lost (pthread_cond_signal in
\* run_continue and in the hook's thread).
WakeupsArrive == ResumeReachesHook /\ PostReachesHost

\* The abstract view: the suspended hooks are those with a magic return
\* address on the guest's stack; a hook that has just pushed its own is still
\* running until the host has taken its call.
Coroutines == INSTANCE CoroutineStack WITH
  Ids <- Ctx,
  Guest <- NoExec,
  run <- IF pc \in HandoverPcs THEN cur ELSE NoExec,
  nest <- IF pc \in {"wait", "woken", "copy"} /\ tpc[cur] \in {"posted", "wait"}
          THEN Front(MagicOrder) ELSE MagicOrder

\* Threads, mutexes, condition variables and magic return addresses together
\* implement the coroutine stack.
ImplementsCoroutines == Coroutines!Spec
=============================================================================
