--------------------------- MODULE HydraExecProofs ---------------------------
(***************************************************************************)
(* Theorems about HydraExec, for any number of contexts, any set of hooks, *)
(* overlay stubs and guest functions, and any depth of the guest's stack:  *)
(* types and the handover between threads first, then the inductive        *)
(* invariant behind the returns of the layer, which HydraReturnsProofs     *)
(* draws its theorems from.                                                *)
(***************************************************************************)
EXTENDS HydraExec, TLAPS

LEMMA CtxFacts ==
  /\ MaxExec \in Nat \ {0}
  /\ MaxExec \in 0 .. MaxExec
  /\ NoExec \notin Ctx
  /\ Ctx \subseteq 0 .. MaxExec
  /\ Ctx \subseteq Nat
BY ExecAssumption DEF NoExec, Ctx

LEMMA CurInCtx ==
  ASSUME TypeOK, HandoverInv PROVE pc \in HandoverPcs => cur \in Ctx
<1>1. cur \in 0 .. MaxExec
  BY DEF TypeOK
<1>2. cur # MaxExec => cur \in Ctx
  BY <1>1, ExecAssumption DEF Ctx
<1> QED
  BY <1>2 DEF HandoverInv, NoExec

LEMMA HandoverInit == Init => HandoverInv
BY CtxFacts DEF Init, HandoverInv, Parked, HandoverPcs, HostPcs

\* Steps that leave the contexts alone and stay outside the handover.
LEMMA HandoverStutter ==
  ASSUME HandoverInv, UNCHANGED <<execVars, cur>>,
         pc \notin HandoverPcs, pc' \notin HandoverPcs
  PROVE  HandoverInv'
BY CtxFacts DEF HandoverInv, Parked, Stage, execVars

LEMMA HandoverUnchanged ==
  ASSUME HandoverInv, UNCHANGED <<execVars, cur, pc, res>> PROVE HandoverInv'
<1>1. ASSUME NEW e \in Ctx PROVE (Stage(e) <=> Stage(e)') /\ (Parked(e) <=> Parked(e)')
  BY DEF Stage, Parked, execVars
<1> QED
  BY <1>1 DEF HandoverInv, execVars

\* Steps of the host's thread and of the thread of the context it works on:
\* the other contexts keep their state.
LEMMA HandoverLocal ==
  ASSUME HandoverInv, TypeOK,
         NEW c \in Ctx, cur' = c, pc' \in HandoverPcs,
         \A e \in Ctx \ {c} :
           /\ e # cur
           /\ mutex'[e] = mutex[e] /\ tpc'[e] = tpc[e]
           /\ state'[e] = state[e] /\ result'[e] = result[e],
         Stage(c)',
         tpc'[c] \in {"run", "posted", "returned"} => thread_active' = c
  PROVE  HandoverInv'
<1>1. ASSUME NEW e \in Ctx, e # c PROVE Parked(e)'
  BY <1>1 DEF HandoverInv, Parked
<1>2. ASSUME NEW e \in Ctx, tpc'[e] \in {"run", "posted", "returned"}
      PROVE  thread_active' = e
  BY <1>1, <1>2 DEF Parked
<1> QED
  BY <1>1, <1>2, CtxFacts DEF HandoverInv

LEMMA GuestOutside ==
  ASSUME Guest PROVE pc \notin HandoverPcs /\ pc' \notin HandoverPcs /\ UNCHANGED <<execVars, cur>>
BY DEF Guest, GuestCallFar, GuestCallNear, GuestJump, GuestRet, GuestPageIn,
       GuestRelocate, GuestGoesTo, GuestOrStop, HandoverPcs, HostPcs, execVars

LEMMA HandoverDispatch ==
  ASSUME TypeOK, HandoverInv, HostDispatch PROVE HandoverInv'
<1> USE DEF HandoverPcs, HostPcs, Dispatch, Abort
<1>1. CASE TrackFails
  BY <1>1, HandoverStutter DEF TrackFails
<1>2. CASE CaptureState
  BY <1>2, HandoverStutter DEF CaptureState
<1>3. CASE RestoreState
  BY <1>3, HandoverStutter DEF RestoreState
<1>4. CASE ResumeGuest
  BY <1>4, HandoverStutter DEF ResumeGuest
<1>5. ASSUME NEW e \in Ctx, TryResume(e) PROVE HandoverInv'
  <2>1. cur = NoExec /\ Parked(e) /\ state[e] = "ACTIVE"
    BY <1>5, CtxFacts DEF TryResume, Resumable, HandoverInv
  <2>2. Stage(e)'
    BY <1>5, <2>1 DEF TryResume, Stage, Parked, execVars
  <2> QED
    BY <1>5, <2>1, <2>2, HandoverLocal, CtxFacts DEF TryResume, execVars, Parked
<1>6. CASE RunBegin
  <2>1. PICK e \in Ctx : /\ e \in Free
                        /\ cur' = e
                        /\ state' = [state EXCEPT ![e] = "ACTIVE"]
    BY <1>6 DEF RunBegin, execution_acquire
  <2>2. cur = NoExec /\ Parked(e) /\ tpc[e] = "none"
    BY <1>6, <2>1, CtxFacts DEF RunBegin, DispatchesHook, HandoverInv, Parked, Free
  <2>3. Stage(e)'
    BY <1>6, <2>1, <2>2 DEF RunBegin, Stage, Parked, TypeOK
  <2> QED
    BY <1>6, <2>1, <2>2, <2>3, HandoverLocal, CtxFacts DEF RunBegin, TypeOK
<1>7. CASE RunBeginFails
  BY <1>7, HandoverStutter DEF RunBeginFails
<1> QED
  BY <1>1, <1>2, <1>3, <1>4, <1>5, <1>6, <1>7 DEF HostDispatch

LEMMA HandoverHost ==
  ASSUME TypeOK, HandoverInv, HostHandover PROVE HandoverInv'
<1> USE CtxFacts DEF HandoverPcs, HostPcs
<1>1. ASSUME cur \in Ctx,
             BeginLock \/ CreateThread \/ RunContinue \/ EnterWait \/ TakeResult
      PROVE  HandoverInv'
  <2>1. Stage(cur)
    BY <1>1 DEF HandoverInv
  <2> USE DEF TypeOK, Stage, execVars
  <2>2. CASE BeginLock
    BY <1>1, <2>1, <2>2, HandoverLocal DEF BeginLock
  <2>3. CASE CreateThread
    BY <1>1, <2>1, <2>3, HandoverLocal DEF CreateThread
  <2>4. CASE RunContinue
    BY <1>1, <2>1, <2>4, HandoverLocal DEF RunContinue
  <2>5. CASE EnterWait
    BY <1>1, <2>1, <2>5, HandoverLocal DEF EnterWait
  <2>6. CASE TakeResult
    BY <1>1, <2>1, <2>6, HandoverLocal DEF TakeResult
  <2> QED
    BY <1>1, <2>2, <2>3, <2>4, <2>5, <2>6
<1>2. CASE CopyMachine
  <2>1. cur \in Ctx /\ Stage(cur)
    BY <1>2 DEF CopyMachine, HandoverInv, TypeOK, Ctx, NoExec
  <2>2. CASE state[cur] = "DONE"
    BY <1>2, <2>1, <2>2, HandoverLocal DEF CopyMachine, Stage, TypeOK, execVars
  <2>3. CASE state[cur] # "DONE"
    <3>1. Parked(cur)
      BY <1>2, <2>1, <2>3 DEF CopyMachine, Stage, Parked
    <3> QED
      BY <1>2, <2>1, <2>3, <3>1 DEF CopyMachine, HandoverInv, Parked, execVars
  <2> QED
    BY <2>2, <2>3
<1>3. CASE JoinThread
  <2>1. cur \in Ctx /\ Stage(cur)
    BY <1>3 DEF JoinThread, HandoverInv, TypeOK, Ctx, NoExec
  <2>2. ASSUME NEW e \in Ctx PROVE Parked(e)'
    BY <1>3, <2>1 DEF JoinThread, HandoverInv, Stage, Parked, TypeOK
  <2> QED
    BY <1>3, <2>1, <2>2 DEF JoinThread, HandoverInv, Parked
<1>4. CASE ApplyResult
  BY <1>4, HandoverStutter DEF ApplyResult, GuestOrStop
<1>5. pc \in HandoverPcs => cur \in Ctx
  BY CurInCtx
<1>6. BeginLock \/ CreateThread \/ RunContinue \/ EnterWait \/ TakeResult
        => pc \in HandoverPcs
  BY DEF BeginLock, CreateThread, RunContinue, EnterWait, TakeResult
<1> QED
  BY <1>1, <1>2, <1>3, <1>4, <1>5, <1>6 DEF HostHandover

LEMMA HandoverThread ==
  ASSUME TypeOK, HandoverInv, NEW e \in Ctx, ThreadHandover(e) \/ HookStep(e)
  PROVE  HandoverInv'
<1> USE CtxFacts DEF HandoverPcs, HostPcs
<1>1. cur = e /\ Stage(e)
  BY DEF HandoverInv, Parked, ThreadHandover, HookStep, ThreadStart, ThreadWait,
         ThreadResume, ThreadExit, hydra_impl_call_far, hydra_impl_call_near_off,
         ThreadReturn
<1>3. ASSUME NEW r, Abort(r) PROVE HandoverInv'
  BY <1>3, HandoverUnchanged DEF Abort
<1> USE DEF TypeOK, Stage
<1>4. CASE ThreadStart(e)
  BY <1>1, <1>4, HandoverLocal DEF ThreadStart
<1>5. CASE ThreadWait(e)
  BY <1>1, <1>5, HandoverLocal DEF ThreadWait, HandoverInv
<1>6. CASE ThreadResume(e)
  <2>1. CASE Abort("cs moved")
    BY <1>3, <2>1
  <2>2. CASE ~Abort("cs moved")
    <3>1. /\ mutex' = [mutex EXCEPT ![e] = "child"]
          /\ tpc' = [tpc EXCEPT ![e] = "run"]
          /\ thread_active' = e
          /\ UNCHANGED <<pc, cur, state, result>>
          /\ tpc[e] = "woken" /\ mutex[e] = "free"
      BY <1>6, <2>2 DEF ThreadResume, Restored
    <3> QED
      BY <1>1, <3>1, HandoverLocal
  <2> QED
    BY <2>1, <2>2
<1>7. CASE ThreadExit(e)
  BY <1>1, <1>7, HandoverLocal DEF ThreadExit
<1>8. ASSUME NEW frame, NEW type \in CallTypes, NEW to, NEW reloc,
             tpc[e] = "run", PostCall(e, thread_active, frame, type, to, reloc)
      PROVE  HandoverInv'
  <2>1. thread_active = e
    BY <1>8 DEF HandoverInv
  <2> QED
    BY <1>1, <1>8, <2>1, HandoverLocal DEF PostCall, SignalMain, Result
<1>9. ASSUME NEW to, hydra_impl_call_far(e, to) PROVE HandoverInv'
  BY <1>8, <1>9 DEF hydra_impl_call_far, CallTypes
<1>10. ASSUME NEW to, NEW reloc, hydra_impl_call_near_off(e, to, reloc)
       PROVE  HandoverInv'
  BY <1>3, <1>8, <1>10 DEF hydra_impl_call_near_off, CallTypes
<1>11. ASSUME NEW r, ThreadReturn(e, r) PROVE HandoverInv'
  BY <1>1, <1>11, HandoverLocal DEF ThreadReturn, SignalMain, HandoverInv
<1> QED
  BY <1>4, <1>5, <1>6, <1>7, <1>9, <1>10, <1>11 DEF ThreadHandover, HookStep

LEMMA HandoverStep ==
  ASSUME TypeOK, HandoverInv, [Next]_vars PROVE HandoverInv'
<1>1. CASE Guest
  BY <1>1, GuestOutside, HandoverStutter
<1>2. CASE UNCHANGED vars
  BY <1>2, HandoverUnchanged DEF vars, execVars
<1> QED
  BY <1>1, <1>2, HandoverDispatch, HandoverHost, HandoverThread
     DEF Next, Step, Stopped

---------------------------------------------------------------------------
(* Types *)

LEMMA ConstantTypes ==
  /\ MaxStack \in Nat
  /\ NoAddr \in Addr /\ NoFrame \in Frame /\ NoResult \in Results /\ NoRegs \in Regs
  /\ NotSaved \in [cs : Nat, ip : Nat, reloc : BOOLEAN]
  /\ Hooks \cup Stubs \cup Bodies \cup Fns \cup {Main, CaptureAddr, RestoreEntry}
       \subseteq Addr
BY ExecAssumption
   DEF NoAddr, Addr, NoFrame, Frame, NoResult, Results, ResultTypes, NoRegs,
       Regs, NotSaved

LEMMA TypeInit == Init => TypeOK
BY ConstantTypes, CtxFacts
   DEF Init, TypeOK, Regs, Addr, HostPcs, NoExec, ExecStates, ThreadPcs

LEMMA FrameTypes ==
  ASSUME NEW a \in Addr, NEW by \in 0 .. MaxExec, NEW ip \in Nat
  PROVE  FarFrame(a, by) \in Frame /\ NearFrame(ip, by) \in Frame
BY DEF FarFrame, NearFrame, Frame, Addr

LEMMA AfterType == ASSUME NEW ip \in Nat PROVE After(ip) \in Nat
BY DEF After

LEMMA TypeGuestGoes ==
  ASSUME TypeOK, NEW r \in Regs, NEW by \in 0 .. MaxExec, GuestGoesTo(r, by),
         mem' \in [1 .. MaxStack -> Frame], stubMem' \in [Stubs -> Addr]
  PROVE  TypeOK'
BY DEF TypeOK, GuestGoesTo, GuestOrStop, HostPcs, execVars

LEMMA TypeGuest == ASSUME TypeOK, Guest PROVE TypeOK'
<1> USE ConstantTypes, CtxFacts DEF NoExec
<1>0. stubMem \in [Stubs -> Addr] /\ mem \in [1 .. MaxStack -> Frame]
  BY DEF TypeOK
<1>1. m.cs \in Nat /\ m.ip \in Nat /\ m.sp \in 0 .. MaxStack
  BY DEF TypeOK, Regs
<1>2. ASSUME NEW frame \in Frame, Push(m, frame)
      PROVE  mem' \in [1 .. MaxStack -> Frame] /\ m.sp + 1 \in 0 .. MaxStack
  BY <1>1, <1>2 DEF TypeOK, Push
<1>3. Forget(m.sp) \in [1 .. MaxStack -> Frame]
  BY DEF TypeOK, Forget
<1>4. ASSUME NEW to \in Fns \cup Hooks \cup Stubs, GuestCallFar(to) PROVE TypeOK'
  <2>1. to.cs \in Nat /\ to.ip \in Nat
    BY DEF Addr
  <2>2. FarFrame([cs |-> m.cs, ip |-> After(m.ip)], NoExec) \in Frame
    BY <1>1, AfterType, FrameTypes DEF Addr
  <2>3. mem' \in [1 .. MaxStack -> Frame] /\ m.sp + 1 \in 0 .. MaxStack
    BY <1>2, <1>4, <2>2 DEF GuestCallFar
  <2>4. [cs |-> to.cs, ip |-> to.ip, sp |-> m.sp + 1] \in Regs
    BY <2>1, <2>3 DEF Regs
  <2> QED
    BY <1>4, <2>3, <2>4, <1>0, TypeGuestGoes DEF GuestCallFar
<1>5. ASSUME NEW to \in Fns \cup Hooks, GuestCallNear(to) PROVE TypeOK'
  <2>1. to.ip \in Nat
    BY DEF Addr
  <2>2. NearFrame(After(m.ip), NoExec) \in Frame
    BY <1>1, AfterType DEF NearFrame, Frame
  <2>3. mem' \in [1 .. MaxStack -> Frame] /\ m.sp + 1 \in 0 .. MaxStack
    BY <1>2, <1>5, <2>2 DEF GuestCallNear
  <2>4. [cs |-> m.cs, ip |-> to.ip, sp |-> m.sp + 1] \in Regs
    BY <1>1, <2>1, <2>3 DEF Regs
  <2> QED
    BY <1>5, <2>3, <2>4, <1>0, TypeGuestGoes DEF GuestCallNear
<1>6. ASSUME NEW to \in Fns \cup Hooks \cup Stubs, GuestJump(to) PROVE TypeOK'
  <2>1. [cs |-> to.cs, ip |-> to.ip, sp |-> m.sp] \in Regs
    BY <1>1 DEF Regs, Addr
  <2> QED
    BY <1>6, <2>1, <1>0, TypeGuestGoes DEF GuestJump
<1>7. CASE GuestRet
  <2>1. mem[m.sp] \in Frame /\ m.sp - 1 \in 0 .. MaxStack
    BY <1>1, <1>7 DEF GuestRet, TypeOK
  <2>2. FarPopped(m) \in Regs /\ NearPopped(m) \in Regs /\ mem[m.sp].by \in 0 .. MaxExec
    BY <1>1, <2>1 DEF Frame, FarPopped, NearPopped, Regs
  <2> QED
    BY <1>3, <1>7, <2>2, <1>0, TypeGuestGoes DEF GuestRet
<1>8. ASSUME NEW body \in Bodies, GuestPageIn(body) PROVE TypeOK'
  <2>1. m \in Regs
    BY DEF TypeOK
  <2>2. stubMem' \in [Stubs -> Addr] /\ mem' \in [1 .. MaxStack -> Frame]
    BY <1>0, <1>8 DEF GuestPageIn
  <2> QED
    BY <1>8, <2>1, <2>2, TypeGuestGoes DEF GuestPageIn
<1>9. ASSUME NEW old \in Nat, NEW new \in Nat, GuestRelocate(old, new) PROVE TypeOK'
  <2> DEFINE Moved(seg) == IF seg = old THEN new ELSE seg
  <2>1. [cs |-> Moved(m.cs), ip |-> m.ip, sp |-> m.sp] \in Regs
    BY <1>1 DEF Regs
  <2>2. ASSUME NEW s \in Stubs
        PROVE  [cs |-> Moved(stubMem[s].cs), ip |-> stubMem[s].ip] \in Addr
    BY DEF TypeOK, Addr
  <2>3. ASSUME NEW k \in 1 .. MaxStack
        PROVE  FarFrame([cs |-> Moved(mem[k].cs), ip |-> mem[k].ip], mem[k].by) \in Frame
    BY DEF TypeOK, Frame, FarFrame
  <2>4. stubMem' \in [Stubs -> Addr]
    BY <1>9, <2>2 DEF GuestRelocate
  <2>5. mem' \in [1 .. MaxStack -> Frame]
    BY <1>9, <2>3 DEF GuestRelocate, TypeOK
  <2> QED
    BY <1>9, <2>1, <2>4, <2>5, TypeGuestGoes DEF GuestRelocate
<1>10. \A b \in Bodies : b.cs \in Nat
  BY DEF Addr
<1> QED
  BY <1>4, <1>5, <1>6, <1>7, <1>8, <1>9, <1>10 DEF Guest, BodySegs

LEMMA TypeAbort == ASSUME TypeOK, NEW r, Abort(r) PROVE TypeOK'
BY DEF TypeOK, Abort, execVars, overlayVars

LEMMA TypeDispatch == ASSUME TypeOK, HostDispatch PROVE TypeOK'
<1> USE DEF Dispatch, execVars, overlayVars
<1>1. CASE TrackFails
  BY <1>1, TypeAbort DEF TrackFails
<1>2. CASE CaptureState
  BY <1>2 DEF CaptureState, TypeOK
<1>3. CASE RestoreState
  <2>1. [cs |-> CaptureAddr.cs, ip |-> After(CaptureAddr.ip), sp |-> 0] \in Regs
    BY ConstantTypes, AfterType DEF Regs, Addr
  <2> QED
    BY <1>3, <2>1, ConstantTypes DEF RestoreState, TypeOK, HostPcs
<1>4. CASE ResumeGuest
  BY <1>4 DEF ResumeGuest, TypeOK, HostPcs
<1>5. ASSUME NEW e \in Ctx, TryResume(e) PROVE TypeOK'
  BY <1>5, CtxFacts DEF TryResume, TypeOK, HostPcs, NoExec
<1>6. CASE RunBegin
  <2>1. m' \in Regs /\ tracking' \in [Stubs -> Addr]
    <3>1. CASE At(m) \in Stubs
      <4>1. stubMem[At(m)] \in Addr
        BY <3>1 DEF TypeOK
      <4>2. [cs |-> stubMem[At(m)].cs, ip |-> stubMem[At(m)].ip, sp |-> m.sp] \in Regs
        BY <4>1 DEF TypeOK, Regs, Addr
      <4> QED
        BY <1>6, <3>1, <4>1, <4>2 DEF RunBegin, TypeOK
    <3> QED
      BY <1>6, <3>1 DEF RunBegin, TypeOK
  <2>2. PICK e \in Ctx : cur' = e /\ state' = [state EXCEPT ![e] = "ACTIVE"]
    BY <1>6 DEF RunBegin
  <2> QED
    BY <1>6, <2>1, <2>2, CtxFacts
       DEF RunBegin, DispatchesHook, TypeOK, HostPcs, ExecStates
<1>7. CASE RunBeginFails
  BY <1>7, TypeAbort DEF RunBeginFails
<1> QED
  BY <1>1, <1>2, <1>3, <1>4, <1>5, <1>6, <1>7 DEF HostDispatch

LEMMA TypeHost ==
  ASSUME TypeOK, HandoverInv, FrameInv, HostHandover PROVE TypeOK'
<1> USE CtxFacts, ConstantTypes DEF execVars, overlayVars, HostPcs
<1>0. pc \in HandoverPcs => cur \in Ctx
  BY CurInCtx
<1>1. CASE BeginLock
  BY <1>1 DEF BeginLock, TypeOK
<1>2. CASE CreateThread
  BY <1>2 DEF CreateThread, TypeOK, ThreadPcs
<1>3. CASE RunContinue
  BY <1>0, <1>3 DEF RunContinue, TypeOK, ThreadPcs, HandoverPcs
<1>4. CASE EnterWait
  BY <1>4 DEF EnterWait, TypeOK
<1>5. CASE TakeResult
  BY <1>0, <1>5 DEF TakeResult, TypeOK, HandoverPcs
<1>6. CASE CopyMachine
  <2>1. machine[cur] \in Regs
    BY <1>0, <1>6 DEF CopyMachine, TypeOK, HandoverPcs
  <2>2. pc' \in HostPcs /\ (cur' = cur \/ cur' = MaxExec)
    BY <1>6 DEF CopyMachine, NoExec
  <2> QED
    <3>0. cur \in 0 .. MaxExec
      BY DEF TypeOK
    <3>1. cur' \in 0 .. MaxExec
      BY <2>2, <3>0
    <3> QED
      BY <1>6, <2>1, <2>2, <3>1 DEF CopyMachine, TypeOK
<1>7. CASE JoinThread
  BY <1>0, <1>7 DEF JoinThread, TypeOK, HandoverPcs, NoExec, ExecStates, ThreadPcs
<1>8. CASE ApplyResult
  <2>0. /\ m.cs \in Nat /\ m.ip \in Nat /\ m.sp \in 0 .. MaxStack
        /\ res.to.cs \in Nat /\ res.to.ip \in Nat /\ res.code \in Nat
        /\ res \in Results
    BY DEF TypeOK, Regs, Results, Addr
  <2>1. res.type \in RetTypes =>
          mem[m.sp] \in Frame /\ m.sp - 1 \in 0 .. MaxStack
    BY <1>8, <2>0 DEF ApplyResult, FrameInv, TypeOK
  <2>2. Redirected \in Regs
    BY <2>0, <2>1 DEF Redirected, RetTypes, Regs, Frame
  <2>3. Forget(m.sp) \in [1 .. MaxStack -> Frame]
    BY DEF TypeOK, Forget
  <2>4. back' \in 0 .. MaxExec
    BY <1>8, <2>1, ExecAssumption DEF ApplyResult, Frame, NoExec
  <2>5. pc' \in HostPcs /\ mem' \in [1 .. MaxStack -> Frame] /\ res' \in Results
        /\ last_exit_code' \in Nat \cup {-1}
    BY <1>8, <2>0, <2>3 DEF ApplyResult, GuestOrStop, TypeOK
  <2> QED
    BY <1>8, <2>2, <2>4, <2>5 DEF ApplyResult, TypeOK
<1> QED
  BY <1>1, <1>2, <1>3, <1>4, <1>5, <1>6, <1>7, <1>8 DEF HostHandover

LEMMA TypeThread ==
  ASSUME TypeOK, HandoverInv, NEW e \in Ctx, ThreadHandover(e) \/ HookStep(e)
  PROVE  TypeOK'
<1> USE CtxFacts, ConstantTypes DEF execVars, overlayVars, HostPcs, ThreadPcs
<1>0. machine[e].cs \in Nat /\ machine[e].ip \in Nat /\ machine[e].sp \in 0 .. MaxStack
  BY DEF TypeOK, Regs
<1>1. CASE ThreadStart(e)
  BY <1>1 DEF ThreadStart, TypeOK
<1>2. CASE ThreadWait(e)
  BY <1>2 DEF ThreadWait, TypeOK
<1>3. CASE ThreadResume(e)
  <2>1. CASE Abort("cs moved")
    BY <2>1, TypeAbort
  <2>2. CASE ~Abort("cs moved")
    <3> DEFINE r == SavedRegs(e, result[e].type = "CALL_NEAR")
    <3>0. r \in Regs
      BY <1>0 DEF TypeOK, Regs, SavedRegs
    <3> HIDE DEF r
    <3>1. machine' \in [Ctx -> Regs]
      <4>1. machine' = [machine EXCEPT ![e] = r]
        BY <1>3, <2>2 DEF ThreadResume, Restored, r
      <4> QED
        BY <3>0, <4>1 DEF TypeOK
    <3> QED
      BY <1>3, <2>2, <3>1 DEF ThreadResume, Restored, TypeOK
  <2> QED
    BY <2>1, <2>2
<1>4. CASE ThreadExit(e)
  BY <1>4 DEF ThreadExit, TypeOK
<1>5. ASSUME NEW frame \in Frame, NEW type \in CallTypes, NEW to \in Addr,
             NEW reloc \in BOOLEAN, PostCall(e, e, frame, type, to, reloc)
      PROVE  TypeOK'
  <2>1. mem' \in [1 .. MaxStack -> Frame] /\ machine[e].sp + 1 \in 0 .. MaxStack
    <3>1. /\ machine[e].sp < MaxStack
          /\ mem' = [mem EXCEPT ![machine[e].sp + 1] = frame]
      BY <1>5 DEF PostCall, Push
    <3>2. machine[e].sp + 1 \in 1 .. MaxStack
      BY <1>0, <3>1
    <3>3. mem \in [1 .. MaxStack -> Frame]
      BY DEF TypeOK
    <3> QED
      BY <3>1, <3>2, <3>3
  <2>2. machine' \in [Ctx -> Regs]
    BY <1>0, <1>5, <2>1 DEF PostCall, TypeOK, Regs
  <2>3. saved' \in [Ctx -> [cs : Nat, ip : Nat, reloc : BOOLEAN]]
    BY <1>0, <1>5 DEF PostCall, TypeOK
  <2>4. Result(type, to, 0) \in Results
    BY DEF Result, Results, ResultTypes, CallTypes
  <2>5. result' \in [Ctx -> Results]
    BY <1>5, <2>4 DEF PostCall, TypeOK
  <2> QED
    BY <1>5, <2>1, <2>2, <2>3, <2>5 DEF PostCall, SignalMain, TypeOK
<1>6. tpc[e] = "run" => thread_active = e
  BY DEF HandoverInv
<1>7. ASSUME NEW to \in Fns \cup Hooks \cup Stubs, hydra_impl_call_far(e, to)
      PROVE  TypeOK'
  <2>1. FarFrame(FarMagic(e), e) \in Frame
    BY ExecAssumption DEF FarFrame, FarMagic, Frame
  <2> QED
    BY <1>5, <1>6, <1>7, <2>1 DEF hydra_impl_call_far, CallTypes
<1>8. ASSUME NEW to \in Fns \cup Hooks, NEW reloc \in RelocChoices,
             hydra_impl_call_near_off(e, to, reloc)
      PROVE  TypeOK'
  <2>1. NearFrame(NearMagicIp(e), e) \in Frame /\ reloc \in BOOLEAN
    BY ExecAssumption DEF NearFrame, NearMagicIp, Frame
  <2> QED
    BY <1>5, <1>6, <1>8, <2>1, TypeAbort DEF hydra_impl_call_near_off, CallTypes
<1>9. ASSUME NEW r \in Returns(e), ThreadReturn(e, r) PROVE TypeOK'
  <2>1. r \in Results
    BY ExecAssumption DEF Returns, Result, Results, ResultTypes
  <2> QED
    BY <1>9, <2>1 DEF ThreadReturn, SignalMain, TypeOK, ExecStates
<1> QED
  BY <1>1, <1>2, <1>3, <1>4, <1>7, <1>8, <1>9 DEF ThreadHandover, HookStep

---------------------------------------------------------------------------
(* Frames to return by *)

LEMMA FrameInit == Init => FrameInv
BY DEF Init, FrameInv, NoResult, RetTypes

LEMMA FrameStep ==
  ASSUME TypeOK, HandoverInv, FrameInv, [Next]_vars PROVE FrameInv'
<1> USE CtxFacts DEF execVars
<1>0. /\ pc \in HandoverPcs => cur \in Ctx
      /\ NoResult.type \notin RetTypes
      /\ CallTypes \cap RetTypes = {}
  BY CurInCtx DEF NoResult, CallTypes, RetTypes
<1>1. ASSUME UNCHANGED <<state, result, machine>>, pc' \notin {"join", "apply"}
      PROVE  FrameInv'
  BY <1>1 DEF FrameInv
<1>2. CASE Guest
  <2>1. UNCHANGED execVars /\ pc' \in {"guest", "stop"}
    BY <1>2 DEF Guest, GuestCallFar, GuestCallNear, GuestJump, GuestRet,
                GuestPageIn, GuestRelocate, GuestGoesTo, GuestOrStop
  <2> QED
    BY <1>1, <2>1
<1>3. ASSUME NEW r, Abort(r) PROVE FrameInv'
  BY <1>3 DEF Abort, FrameInv
<1>4. CASE HostDispatch
  <2>1. CASE TrackFails \/ RunBeginFails
    BY <1>3, <2>1 DEF TrackFails, RunBeginFails
  <2>2. CASE CaptureState
    BY <1>1, <2>2 DEF CaptureState, Dispatch
  <2>3. CASE RestoreState
    BY <1>1, <2>3 DEF RestoreState
  <2>4. CASE ResumeGuest
    BY <1>1, <2>4 DEF ResumeGuest
  <2>5. ASSUME NEW e \in Ctx, TryResume(e) PROVE FrameInv'
    BY <1>1, <2>5 DEF TryResume
  <2>6. CASE RunBegin
    BY <2>6 DEF RunBegin, FrameInv, TypeOK
  <2> QED
    BY <1>4, <2>1, <2>2, <2>3, <2>4, <2>5, <2>6 DEF HostDispatch
<1>5. CASE HostHandover
  <2>1. CASE BeginLock
    BY <1>0, <2>1 DEF BeginLock, FrameInv, HandoverInv, Stage, HandoverPcs, HostPcs, TypeOK
  <2>2. CASE CreateThread
    BY <1>1, <2>2 DEF CreateThread
  <2>3. CASE RunContinue
    BY <1>0, <2>3 DEF RunContinue, FrameInv, HandoverInv, Stage, HandoverPcs, HostPcs, TypeOK
  <2>4. CASE EnterWait
    BY <1>1, <2>4 DEF EnterWait
  <2>5. CASE TakeResult
    BY <1>1, <2>5 DEF TakeResult
  <2>6. CASE CopyMachine
    <3>1. cur \in Ctx /\ Stage(cur)
      BY <1>0, <2>6 DEF CopyMachine, HandoverInv, HandoverPcs, HostPcs
    <3>2. res.type \in RetTypes => machine[cur].sp > 0
      BY <1>0, <2>6, <3>1 DEF CopyMachine, Stage, FrameInv
    <3> QED
      BY <2>6, <3>2 DEF CopyMachine, FrameInv
  <2>7. CASE JoinThread
    BY <1>0, <2>7 DEF JoinThread, FrameInv, HandoverPcs, HostPcs, TypeOK
  <2>8. CASE ApplyResult
    <3>1. pc' \notin {"join", "apply"}
      BY <2>8 DEF ApplyResult, GuestOrStop
    <3> QED
      BY <1>1, <2>8, <3>1 DEF ApplyResult
  <2> QED
    BY <1>5, <2>1, <2>2, <2>3, <2>4, <2>5, <2>6, <2>7, <2>8 DEF HostHandover
<1>6. ASSUME NEW e \in Ctx, ThreadHandover(e) \/ HookStep(e) PROVE FrameInv'
  <2>1. cur = e /\ Stage(e) /\ pc \notin {"join", "apply"}
    BY <1>6 DEF HandoverInv, Parked, Stage, ThreadHandover, HookStep, ThreadStart,
           ThreadWait, ThreadResume, ThreadExit, hydra_impl_call_far,
           hydra_impl_call_near_off, ThreadReturn
  <2>2. CASE ThreadStart(e) \/ ThreadWait(e) \/ ThreadExit(e)
    BY <1>1, <2>1, <2>2 DEF ThreadStart, ThreadWait, ThreadExit
  <2>3. CASE ThreadResume(e)
    <3>1. CASE Abort("cs moved")
      BY <1>3, <3>1
    <3>2. CASE ~Abort("cs moved")
      BY <2>1, <2>3, <3>2 DEF ThreadResume, Restored, FrameInv, TypeOK, Stage
    <3> QED
      BY <3>1, <3>2
  <2>4. ASSUME NEW frame, NEW type \in CallTypes, NEW to, NEW reloc,
               PostCall(e, e, frame, type, to, reloc)
        PROVE  FrameInv'
    BY <1>0, <2>1, <2>4 DEF PostCall, SignalMain, FrameInv, TypeOK, Result
  <2>5. tpc[e] = "run" => thread_active = e
    BY DEF HandoverInv
  <2>6. ASSUME NEW to, hydra_impl_call_far(e, to) PROVE FrameInv'
    BY <2>4, <2>5, <2>6 DEF hydra_impl_call_far, CallTypes
  <2>7. ASSUME NEW to, NEW reloc, hydra_impl_call_near_off(e, to, reloc)
        PROVE  FrameInv'
    BY <1>3, <2>4, <2>5, <2>7 DEF hydra_impl_call_near_off, CallTypes
  <2>8. ASSUME NEW r \in Returns(e), ThreadReturn(e, r) PROVE FrameInv'
    <3>1. r.type \in RetTypes => machine[e].sp > 0
      BY DEF Returns, Result, RetTypes, NoResult
    <3> QED
      BY <2>1, <2>8, <3>1 DEF ThreadReturn, SignalMain, FrameInv, TypeOK
  <2> QED
    BY <1>6, <2>2, <2>3, <2>6, <2>7, <2>8 DEF ThreadHandover, HookStep
<1>7. CASE UNCHANGED vars
  BY <1>7 DEF vars, FrameInv
<1> QED
  BY <1>2, <1>4, <1>5, <1>6, <1>7 DEF Next, Step, Stopped

---------------------------------------------------------------------------
(* The theorems *)

LEMMA TypeStep ==
  ASSUME TypeOK, HandoverInv, FrameInv, [Next]_vars PROVE TypeOK'
<1>1. CASE UNCHANGED vars
  BY <1>1 DEF vars, TypeOK
<1> QED
  BY <1>1, TypeGuest, TypeDispatch, TypeHost, TypeThread DEF Next, Step, Stopped

\* The execution layer keeps its variables in their types: no register,
\* context number, frame or result is ever read out of its range.
THEOREM TypeCorrect == Spec => []TypeOK
<1>1. Init => TypeOK /\ HandoverInv /\ FrameInv
  BY TypeInit, HandoverInit, FrameInit
<1>2. TypeOK /\ HandoverInv /\ FrameInv /\ [Next]_vars
        => TypeOK' /\ HandoverInv' /\ FrameInv'
  BY TypeStep, HandoverStep, FrameStep
<1> QED
  BY <1>1, <1>2, PTL DEF Spec

\* The handover of the machine between the host's thread and the hooks'
\* threads always is at a legal stage (exec.c run_begin, run_continue,
\* run_wait, thread_func; machine.c call seams).
THEOREM HandoverCorrect == Spec => []HandoverInv
<1>1. Init => TypeOK /\ HandoverInv /\ FrameInv
  BY TypeInit, HandoverInit, FrameInit
<1>2. TypeOK /\ HandoverInv /\ FrameInv /\ [Next]_vars
        => TypeOK' /\ HandoverInv' /\ FrameInv'
  BY TypeStep, HandoverStep, FrameStep
<1> QED
  BY <1>1, <1>2, PTL DEF Spec

\* There is one runner at a time, and the context the host primitives find
\* through thread_active is the running hook's own.
THEOREM OneRunnerAlways == Spec => []OneRunner
<1>1. HandoverInv => OneRunner
  BY CtxFacts DEF HandoverInv, OneRunner, Stage, Parked
<1> QED
  BY <1>1, HandoverCorrect, PTL

\* run_wait never takes a result the hook has not posted, although it waits
\* without a predicate: a signal is sent only by the context's own thread,
\* after its last write to the context.
THEOREM ResultIsPostedAlways == Spec => []ResultIsPosted
<1>1. TypeOK /\ HandoverInv => ResultIsPosted
  <2> SUFFICES ASSUME TypeOK, HandoverInv, pc \in {"copy", "join"}
               PROVE  \/ /\ state[cur] = "ACTIVE" /\ tpc[cur] = "wait"
                         /\ res.type \in CallTypes
                      \/ state[cur] = "DONE" /\ tpc[cur] = "exited"
    BY DEF ResultIsPosted
  <2>1. cur # MaxExec
    BY DEF HandoverInv, HandoverPcs, HostPcs, NoExec
  <2>2. cur \in Ctx
    BY <2>1, CtxFacts DEF TypeOK, Ctx
  <2>3. Stage(cur)
    BY <2>2 DEF HandoverInv
  <2> QED
    BY <2>3 DEF Stage
<1> QED
  BY <1>1, TypeCorrect, HandoverCorrect, PTL

\* The three together: the handover of the machine between the host's thread
\* and the hooks' threads is safe for any number of contexts.
THEOREM HandoverSafeAlways == Spec => []HandoverSafe
<1>1. HandoverInv /\ OneRunner /\ ResultIsPosted => HandoverSafe
  BY DEF HandoverSafe
<1> QED
  BY <1>1, HandoverCorrect, OneRunnerAlways, ResultIsPostedAlways, PTL

---------------------------------------------------------------------------
(***************************************************************************)
(* The inductive invariant behind the returns of the execution layer: why  *)
(* a return address can be a context number.  It has two parts.  NestInv   *)
(* relates the frames on the guest's stack to the table of contexts: the   *)
(* magic frames name the suspended contexts, in the order they were taken. *)
(* CodeInv says where each frame returns to: there are segments, one below *)
(* each frame, with which every return lands in guest code or at the magic *)
(* address of its context, in the segment that context called from.  The   *)
(* lemmas hold for any number of contexts, any layout of hooks, overlays   *)
(* and guest functions that LayoutAssumption admits, and a stack of any    *)
(* depth.                                                                  *)
(***************************************************************************)

\* The suspended contexts are the first ones; the context that runs, if any,
\* is the last of them or the next.
SuspendedInOrder ==
  /\ \A e \in Suspended : \A d \in 0 .. e - 1 : d \in Suspended
  /\ cur # NoExec => /\ \A d \in 0 .. cur - 1 : d \in Suspended
                     /\ \A e \in Suspended : e <= cur

\* The magic frames are those of the suspended contexts, in the order of the
\* contexts.  The one the guest has returned to is the last, off the stack.
FramesInOrder ==
  /\ \A k \in MagicFrames : mem[k].by \in Suspended /\ mem[k].by # back
  /\ \A j, k \in MagicFrames : j < k => mem[j].by < mem[k].by
  /\ \A e \in Suspended : e = back \/ \E k \in MagicFrames : mem[k].by = e
  /\ back # NoExec => /\ pc = "stop" /\ back \in Suspended
                      /\ \A e \in Suspended : e <= back

SpecialModes ==
  mode # "NORMAL" => \A e \in Ctx : state[e] = "UNINIT" /\ tpc[e] = "none"

NestInv == SuspendedInOrder /\ FramesInOrder /\ SpecialModes

\* The context the guest has returned to, until its thread runs again.
Resumed(e) == e = back \/ (e = cur /\ (pc = "continue" \/ tpc[e] = "woken"))

\* The overlay of a segment of the overlay area is in it.
Placed(seg) == seg \in BodySegs => \E s \in Stubs : stubMem[s].cs = seg

\* The call of context e returns from segment "from" to segment "to".
ReturnsTo(e, from, to) ==
  /\ IF result[e].type = "CALL" THEN to = saved[e].cs
     ELSE to = from /\ (saved[e].reloc \/ from = saved[e].cs)
  /\ [cs |-> to, ip |-> saved[e].ip] \in HookCode
  /\ Placed(to)

\* S gives the segment the guest is in below each frame: between frame k and
\* frame k + 1 it executes in S[k].
FrameFits(k, S) ==
  IF mem[k].by = NoExec
  THEN /\ S[k - 1] = IF mem[k].far THEN mem[k].cs ELSE S[k]
       /\ [cs |-> S[k - 1], ip |-> mem[k].ip] \in GuestCode
       /\ mem[k].ip = After(mem[k].ip)
  ELSE ReturnsTo(mem[k].by, S[k], S[k - 1])

SegmentsFit(S) ==
  /\ \A k \in 1 .. LiveRegs.sp : FrameFits(k, S)
  /\ \A e \in Ctx : Resumed(e) => ReturnsTo(e, LiveRegs.cs, S[LiveRegs.sp])
  /\ (\A e \in Ctx : ~Resumed(e)) => S[LiveRegs.sp] = LiveRegs.cs

Segs == {a.cs : a \in GuestCode \cup HookCode}
ReturnSegments == \E S \in [0 .. LiveRegs.sp -> Segs] : SegmentsFit(S)

\* The return address context e pushes in segment seg.
MagicFrame(e) ==
  IF result[e].type = "CALL" THEN FarFrame(FarMagic(e), e)
  ELSE NearFrame(NearMagicIp(e), e)
AtMagic(e, r) ==
  IF result[e].type = "CALL" THEN At(r) = FarMagic(e) ELSE r.ip = NearMagicIp(e)

FramesMagic == \A k \in MagicFrames : mem[k] = MagicFrame(mem[k].by)

CallsSaved ==
  \A e \in Ctx : state[e] = "ACTIVE" /\ tpc[e] \in {"posted", "wait", "woken"} =>
    /\ result[e].type \in CallTypes
    /\ saved[e].reloc => result[e].type = "CALL_NEAR" /\ TRUE \in RelocChoices
    /\ saved[e].cs \in HookSegs

StubsPlaced ==
  \A s \in Stubs : stubMem[s] = NoAddr \/
    \E seg \in BodySegs, b \in Bodies : stubMem[s] = [cs |-> seg, ip |-> b.ip]

\* A hook has the machine: it runs, or its result waits to be applied.
HookHasMachine == pc = "apply" \/ (pc \in HandoverPcs /\ ~Resumed(cur))

\* Nothing on the stack says which segment the guest is in.
TopFar == LiveRegs.sp > 0 => mem[LiveRegs.sp].far

CodeHere ==
  /\ pc \in {"guest", "stop"} /\ back = NoExec => At(m) \in GuestCode
  /\ pc \in {"guest", "stop"} /\ back = NoExec /\ At(m) \in Stubs => TopFar
  /\ \A e \in Ctx : Resumed(e) /\ pc \in {"stop", "continue"} => AtMagic(e, m)
  /\ HookHasMachine => At(LiveRegs) \in HookCode /\ Placed(LiveRegs.cs)
  /\ pc = "stop" => StopAddr(At(m))

\* A result fits the frame the hook was called with.
ResultFits(r) ==
  LET called == LiveRegs.sp > 0
      far == called /\ mem[LiveRegs.sp].far
  IN /\ r.type = "JUMP" => r.to \in Fns /\ far
     /\ r.type = "JUMP_NEAR" => r.to \in Fns /\ r.to.cs = LiveRegs.cs
     /\ r.type = "CALL" => r.to \in Fns \cup Hooks \cup Stubs /\ far
     /\ r.type = "CALL_NEAR" => r.to \in Fns \cup Hooks /\ r.to.cs = LiveRegs.cs
     /\ r.type = "RET_FAR" => far
     /\ r.type = "RET_NEAR" => called /\ ~far

ResultsFit ==
  /\ pc \in {"woken", "copy"} => ResultFits(result[cur])
  /\ pc \in {"join", "apply"} => ResultFits(res)

CodeInv ==
  /\ ReturnSegments /\ FramesMagic /\ CallsSaved /\ StubsPlaced
  /\ CodeHere /\ ResultsFit

---------------------------------------------------------------------------
(* The order of the contexts *)

LEMMA LiveType == ASSUME TypeOK, HandoverInv PROVE LiveRegs \in Regs
BY CurInCtx DEF TypeOK, LiveRegs, HandoverPcs, HostPcs

LEMMA SuspendedType ==
  /\ Suspended \subseteq Ctx
  /\ NoExec \notin Suspended
BY CtxFacts DEF Suspended

\* Outside the handover the contexts in use are the suspended ones.
LEMMA SuspendedParked ==
  ASSUME HandoverInv, NEW e \in Ctx, e # cur
  PROVE  (e \in Suspended <=> state[e] = "ACTIVE") /\ state[e] # "DONE"
BY DEF HandoverInv, Parked, Suspended

LEMMA OrderSame ==
  ASSUME SuspendedInOrder, Suspended' = Suspended, cur' \in {cur, NoExec}
  PROVE  SuspendedInOrder'
BY DEF SuspendedInOrder, NoExec

\* Steps that leave the magic frames and the suspended contexts alone.
LEMMA FramesSame ==
  ASSUME FramesInOrder, Suspended' = Suspended, back = NoExec, back' = NoExec,
         MagicFrames' = MagicFrames,
         \A k \in MagicFrames : mem'[k].by = mem[k].by
  PROVE  FramesInOrder'
<1>1. \A k \in MagicFrames : mem'[k].by # NoExec'
  BY DEF MagicFrames, NoExec
<1> QED
  BY <1>1, SuspendedType DEF FramesInOrder, NoExec

\* No hook has been dispatched while a special mode is on.
LEMMA ModeOfHooks ==
  ASSUME HandoverInv, SpecialModes, TypeOK
  PROVE  /\ \A e \in Ctx : state[e] # "UNINIT" => mode = "NORMAL"
         /\ cur # NoExec => mode = "NORMAL"
<1>1. cur # NoExec => cur \in Ctx
  BY CurInCtx DEF HandoverInv
<1> QED
  BY <1>1 DEF SpecialModes, HandoverInv, Stage

LEMMA NestInit == Init => NestInv
<1> SUFFICES ASSUME Init PROVE NestInv
  OBVIOUS
<1>1. Suspended = {} /\ MagicFrames = {}
  BY DEF Init, Suspended, MagicFrames, LiveRegs
<1> QED
  BY <1>1 DEF Init, NestInv, SuspendedInOrder, FramesInOrder, SpecialModes

\* Abort changes nothing but fault.
LEMMA NestUnchanged ==
  ASSUME NestInv, UNCHANGED <<m, mem, pc, cur, execVars, mode, back>>
  PROVE  NestInv'
<1>1. Suspended' = Suspended /\ MagicFrames' = MagicFrames
  BY DEF Suspended, MagicFrames, LiveRegs, execVars
<1> QED
  BY <1>1 DEF NestInv, SuspendedInOrder, FramesInOrder, SpecialModes, execVars

---------------------------------------------------------------------------
(* A stop is taken for a return exactly if it is one *)

ReturnsRecognised == pc = "stop" => \A e \in Ctx : Resumable(e) <=> e = back

LEMMA Recognised ==
  ASSUME TypeOK, HandoverInv, NestInv, CodeInv PROVE ReturnsRecognised
<1> SUFFICES ASSUME pc = "stop", NEW e \in Ctx PROVE Resumable(e) <=> e = back
  BY DEF ReturnsRecognised
<1> USE CtxFacts
<1>0. m.cs \in Nat /\ m.ip \in Nat /\ MagicOff \in Nat /\ back \in 0 .. MaxExec
  BY ExecAssumption DEF TypeOK, Regs
<1>1. cur = NoExec /\ LiveRegs = m
  BY DEF HandoverInv, HandoverPcs, HostPcs, LiveRegs
<1>2. PICK S \in [0 .. m.sp -> Segs] : SegmentsFit(S)
  BY <1>1 DEF CodeInv, ReturnSegments
<1>3. \A d \in Ctx : d \in Suspended =>
        /\ state[d] = "ACTIVE" /\ tpc[d] = "wait"
        /\ result[d].type \in CallTypes
        /\ saved[d].reloc => TRUE \in RelocChoices
        /\ saved[d].cs \in HookSegs
  BY <1>1 DEF CodeInv, CallsSaved, HandoverInv, Parked, Suspended
<1>4. ASSUME NEW d \in Ctx, d = back PROVE Resumable(d)
  <2>1. d \in Suspended /\ Resumed(d)
    BY <1>4 DEF NestInv, FramesInOrder, NoExec, Resumed
  <2>2. state[d] = "ACTIVE" /\ result[d].type \in CallTypes
    BY <1>3, <2>1
  <2>3. AtMagic(d, m)
    BY <2>1 DEF CodeInv, CodeHere
  <2>4. CASE result[d].type = "CALL"
    BY <2>2, <2>3, <2>4 DEF AtMagic, At, FarMagic, Resumable
  <2>5. CASE result[d].type # "CALL"
    <3>1. m.ip = MagicOff + d
      BY <2>3, <2>5 DEF AtMagic, NearMagicIp
    <3>2. ReturnsTo(d, m.cs, S[m.sp])
      BY <1>1, <1>2, <2>1 DEF SegmentsFit
    <3>3. /\ [cs |-> m.cs, ip |-> saved[d].ip] \in HookCode
          /\ saved[d].reloc \/ m.cs = saved[d].cs
      BY <2>5, <3>2 DEF ReturnsTo
    <3>4. m.cs \in HookSegs
      BY <3>3 DEF HookSegs
    <3>5. m.cs # MagicSeg /\ m.cs # RomSeg
      BY <3>4, LayoutAssumption
    <3>6. m.ip >= MagicOff /\ m.ip - MagicOff = d
      BY <1>0, <3>1 DEF Ctx
    <3> QED
      BY <2>2, <3>3, <3>5, <3>6 DEF Resumable
  <2> QED
    BY <2>4, <2>5
<1>5. ASSUME Resumable(e) PROVE back # NoExec
  <2> SUFFICES ASSUME back = NoExec PROVE FALSE
    OBVIOUS
  <2>1. e \in Suspended
    BY <1>1, <1>5, SuspendedParked DEF Resumable
  <2>2. At(m) \in GuestCode
    BY DEF CodeInv, CodeHere
  <2>3. At(m).cs = m.cs /\ At(m).ip = m.ip
    BY DEF At
  <2>4. m.cs # MagicSeg
    BY <1>0, <1>5, <2>2, <2>3, LayoutAssumption DEF Resumable, Ctx
  <2>5. /\ m.cs # RomSeg /\ m.ip >= MagicOff /\ m.ip - MagicOff < MaxExec
        /\ saved[e].reloc \/ m.cs = saved[e].cs
    BY <1>0, <1>5, <2>4 DEF Resumable, Ctx
  <2>6. m.cs \notin HookSegs /\ TRUE \notin RelocChoices
    BY <2>2, <2>3, <2>4, <2>5, LayoutAssumption
  <2> QED
    BY <1>3, <2>1, <2>5, <2>6
<1>6. ASSUME Resumable(e) PROVE e = back
  <2>1. back \in Ctx
    BY <1>0, <1>5, <1>6 DEF Ctx, NoExec
  <2>2. Resumable(back)
    BY <1>4, <2>1
  <2> QED
    BY <1>0, <1>6, <2>1, <2>2 DEF Resumable
<1> QED
  BY <1>4, <1>6

---------------------------------------------------------------------------
(* Steps of the guest keep the order *)

\* The top frame is popped; if it is a context's, the guest returns to it.
LEMMA FramesPopped ==
  ASSUME TypeOK, HandoverInv, FramesInOrder, back = NoExec, LiveRegs.sp > 0,
         LiveRegs'.sp = LiveRegs.sp - 1, Suspended' = Suspended,
         \A k \in 1 .. LiveRegs.sp - 1 : mem'[k] = mem[k],
         back' = mem[LiveRegs.sp].by,
         back' # NoExec => pc' = "stop"
  PROVE  FramesInOrder'
<1> DEFINE n == LiveRegs.sp
<1>0. n \in 1 .. MaxStack /\ MaxStack \in Nat
  BY LiveType, ConstantTypes DEF Regs
<1>1. MagicFrames' = MagicFrames \ {n}
  BY <1>0 DEF MagicFrames, NoExec
<1>2. \A k \in MagicFrames' : k \in 1 .. n - 1 /\ mem'[k].by = mem[k].by
  BY <1>0, <1>1 DEF MagicFrames
<1>3. n \in MagicFrames <=> back' # NoExec
  BY <1>0 DEF MagicFrames
<1>4. \A k \in MagicFrames : mem[k].by \in Suspended /\ mem[k].by \in Nat
  BY SuspendedType, CtxFacts DEF FramesInOrder
<1>5. \A k \in MagicFrames' : mem'[k].by \in Suspended /\ mem'[k].by # back'
  BY <1>0, <1>1, <1>2, <1>3, <1>4 DEF FramesInOrder, NoExec, MagicFrames
<1>6. \A j, k \in MagicFrames' : j < k => mem'[j].by < mem'[k].by
  BY <1>1, <1>2 DEF FramesInOrder
<1>7. ASSUME NEW e \in Suspended
      PROVE  e = back' \/ \E k \in MagicFrames' : mem'[k].by = e
  <2>1. PICK k \in MagicFrames : mem[k].by = e
    BY SuspendedType DEF FramesInOrder
  <2> QED
    BY <1>1, <1>2, <2>1
<1>8. ASSUME back' # NoExec, NEW e \in Suspended PROVE e <= back'
  <2>1. PICK k \in MagicFrames : mem[k].by = e
    BY SuspendedType DEF FramesInOrder
  <2>2. k = n \/ k < n
    BY <1>0, <2>1 DEF MagicFrames
  <2>3. n \in MagicFrames
    BY <1>3, <1>8
  <2>4. k < n => mem[k].by < mem[n].by
    BY <2>1, <2>3 DEF FramesInOrder
  <2> QED
    BY <1>4, <2>1, <2>2, <2>3, <2>4
<1>9. back' # NoExec => back' \in Suspended
  BY <1>3, <1>4
<1> QED
  BY <1>5, <1>6, <1>7, <1>8, <1>9 DEF FramesInOrder, NoExec

\* A frame of the guest's own is pushed.
LEMMA FramesPushed ==
  ASSUME TypeOK, HandoverInv, FramesInOrder, back = NoExec, back' = NoExec,
         Suspended' = Suspended, LiveRegs'.sp = LiveRegs.sp + 1,
         \A k \in 1 .. LiveRegs.sp : mem'[k] = mem[k],
         mem'[LiveRegs.sp + 1].by = NoExec
  PROVE  FramesInOrder'
<1>0. LiveRegs.sp \in Nat
  BY LiveType, ConstantTypes DEF Regs
<1>1. MagicFrames' = MagicFrames
  BY <1>0 DEF MagicFrames, NoExec
<1>2. \A k \in MagicFrames : mem'[k].by = mem[k].by
  BY DEF MagicFrames
<1> QED
  BY <1>1, <1>2, FramesSame

LEMMA GuestStart ==
  ASSUME TypeOK, HandoverInv, NestInv, pc \in {"guest", "stop", "apply"}
  PROVE  /\ cur = NoExec /\ LiveRegs = m
         /\ pc # "stop" => back = NoExec
         /\ \A e \in Ctx : e \in Suspended <=> state[e] = "ACTIVE"
<1>1. cur = NoExec
  BY DEF HandoverInv, HandoverPcs, HostPcs
<1> QED
  BY <1>1, SuspendedParked, CtxFacts
     DEF LiveRegs, NestInv, FramesInOrder, HandoverPcs, HostPcs

\* The guest's frames as a step of the guest finds them.
LEMMA GuestRegs ==
  ASSUME TypeOK
  PROVE  /\ m.cs \in Nat /\ m.ip \in Nat /\ m.sp \in 0 .. MaxStack /\ MaxStack \in Nat
         /\ mem \in [1 .. MaxStack -> Frame]
BY ConstantTypes DEF TypeOK, Regs

LEMMA MagicIsStop ==
  ASSUME TypeOK, NEW e \in Ctx, NEW r, r.cs \in Nat, r.ip \in Nat,
         IF result[e].type = "CALL" THEN At(r) = FarMagic(e)
         ELSE At(r).ip = NearMagicIp(e)
  PROVE  StopAddr(At(r))
<1>1. MagicOff \in Nat /\ e \in Nat
  BY ExecAssumption, CtxFacts
<1> QED
  BY <1>1 DEF StopAddr, FarMagic, NearMagicIp

LEMMA NestGuest ==
  ASSUME TypeOK, HandoverInv, NestInv, CodeInv, Guest PROVE NestInv'
<1> USE CtxFacts DEF NoExec
<1>1. pc = "guest" /\ pc' \in {"guest", "stop"} /\ UNCHANGED <<execVars, cur, mode>>
  BY DEF Guest, GuestCallFar, GuestCallNear, GuestJump, GuestRet, GuestPageIn,
         GuestRelocate, GuestGoesTo, GuestOrStop
<1>2. cur = NoExec /\ LiveRegs = m /\ LiveRegs' = m' /\ back = NoExec
  BY <1>1, GuestStart DEF LiveRegs
<1>3. Suspended' = Suspended
  BY <1>1, <1>2 DEF Suspended, execVars
<1>4. SuspendedInOrder'
  BY <1>1, <1>2, <1>3, OrderSame DEF NestInv
<1>5. SpecialModes'
  BY <1>1 DEF NestInv, SpecialModes, execVars
<1>6. FramesInOrder
  BY DEF NestInv
<1>7. ASSUME NEW by \in {NoExec}, NEW frame, frame.by = NoExec, Push(m, frame),
             m'.sp = m.sp + 1, back' = NoExec
      PROVE  FramesInOrder'
  <2>1. m.sp + 1 \in 1 .. MaxStack
    BY <1>7, GuestRegs DEF Push
  <2>2. mem' = [mem EXCEPT ![m.sp + 1] = frame]
    BY <1>7 DEF Push
  <2>3. mem'[m.sp + 1] = frame /\ \A k \in 1 .. m.sp : mem'[k] = mem[k]
    BY <2>1, <2>2, GuestRegs
  <2> QED
    BY <1>2, <1>3, <1>6, <1>7, <2>3, FramesPushed
<1>8. ASSUME m'.sp = m.sp, \A k \in 1 .. m.sp : mem'[k].by = mem[k].by, back' = NoExec
      PROVE  FramesInOrder'
  <2>1. MagicFrames' = MagicFrames /\ \A k \in MagicFrames : mem'[k].by = mem[k].by
    BY <1>2, <1>8 DEF MagicFrames
  <2> QED
    BY <1>2, <1>3, <1>6, <1>8, <2>1, FramesSame
<1>9. ASSUME NEW to, GuestCallFar(to) PROVE FramesInOrder'
  BY <1>7, <1>9 DEF GuestCallFar, GuestGoesTo, FarFrame
<1>10. ASSUME NEW to, GuestCallNear(to) PROVE FramesInOrder'
  BY <1>7, <1>10 DEF GuestCallNear, GuestGoesTo, NearFrame
<1>11. ASSUME NEW to, GuestJump(to) PROVE FramesInOrder'
  BY <1>8, <1>11 DEF GuestJump, GuestGoesTo
<1>12. ASSUME GuestRet PROVE FramesInOrder'
  <2> DEFINE n == m.sp
             r == IF mem[n].far THEN FarPopped(m) ELSE NearPopped(m)
  <2>1. /\ n \in 1 .. MaxStack
        /\ mem' = [mem EXCEPT ![n] = NoFrame]
        /\ m' = r /\ back' = mem[n].by /\ pc' = GuestOrStop(At(r))
    BY <1>12, GuestRegs DEF GuestRet, GuestGoesTo, Forget
  <2>2. m'.sp = n - 1 /\ \A k \in 1 .. n - 1 : mem'[k] = mem[k]
    BY <2>1, GuestRegs DEF FarPopped, NearPopped
  <2>3. ASSUME back' # NoExec PROVE pc' = "stop"
    <3> DEFINE e == mem[n].by
    <3>0. n \in MagicFrames
      BY <1>2, <2>1, <2>3 DEF MagicFrames
    <3>1. mem[n] = MagicFrame(e) /\ e \in Ctx
      BY <1>6, <3>0, SuspendedType DEF CodeInv, FramesMagic, FramesInOrder
    <3>2. mem[n] \in Frame
      BY <2>1, GuestRegs
    <3>3. r.cs \in Nat /\ r.ip \in Nat
      BY <2>1, <3>2, GuestRegs DEF FarPopped, NearPopped, Frame
    <3>4. IF result[e].type = "CALL" THEN At(r) = FarMagic(e) ELSE At(r).ip = NearMagicIp(e)
      BY <3>1 DEF MagicFrame, FarFrame, NearFrame, FarPopped, NearPopped, At, FarMagic
    <3>5. StopAddr(At(r))
      BY <3>1, <3>3, <3>4, MagicIsStop
    <3> QED
      BY <2>1, <3>5 DEF GuestOrStop
  <2> QED
    BY <1>2, <1>3, <1>6, <2>1, <2>2, <2>3, FramesPopped, GuestRegs
<1>13. ASSUME NEW body, GuestPageIn(body) PROVE FramesInOrder'
  BY <1>8, <1>13 DEF GuestPageIn, GuestGoesTo
<1>14. ASSUME NEW old, NEW new, GuestRelocate(old, new) PROVE FramesInOrder'
  <2>1. m'.sp = m.sp /\ back' = NoExec
    BY <1>14 DEF GuestRelocate, GuestGoesTo
  <2>2. \A k \in 1 .. MaxStack : mem'[k].by = mem[k].by
    BY <1>14 DEF GuestRelocate, FarFrame
  <2> QED
    BY <1>8, <2>1, <2>2, GuestRegs
<1>15. FramesInOrder'
  BY <1>9, <1>10, <1>11, <1>12, <1>13, <1>14 DEF Guest
<1> QED
  BY <1>4, <1>5, <1>15 DEF NestInv

---------------------------------------------------------------------------
(* Steps of the host keep the order *)

\* A stop without a context to resume is not a return.
LEMMA NotReturning ==
  ASSUME TypeOK, HandoverInv, NestInv, ReturnsRecognised, pc = "stop",
         mode # "NORMAL" \/ NoResume
  PROVE  back = NoExec
<1> SUFFICES ASSUME back # NoExec PROVE FALSE
  OBVIOUS
<1>1. back \in Suspended /\ back \in Ctx
  BY SuspendedType DEF NestInv, FramesInOrder
<1>2. Resumable(back)
  BY <1>1 DEF ReturnsRecognised
<1>3. state[back] # "UNINIT"
  BY <1>1 DEF Suspended
<1> QED
  BY <1>1, <1>2, <1>3 DEF NoResume, NestInv, SpecialModes

LEMMA NestDispatch ==
  ASSUME TypeOK, HandoverInv, NestInv, CodeInv, HostDispatch PROVE NestInv'
<1> USE CtxFacts DEF Dispatch
<1>0. pc = "stop" /\ cur = NoExec /\ LiveRegs = m /\ ReturnsRecognised
  BY GuestStart, Recognised
     DEF HostDispatch, TrackFails, CaptureState, RestoreState, ResumeGuest, TryResume,
         RunBegin, DispatchesHook, RunBeginFails
<1>1. \A e \in Ctx : e \in Suspended <=> state[e] = "ACTIVE"
  BY <1>0, GuestStart
<1>2. CASE TrackFails \/ CaptureState \/ RunBeginFails
  BY <1>2, NestUnchanged DEF TrackFails, CaptureState, RunBeginFails, Abort
<1>3. CASE RestoreState
  <2>1. UNCHANGED <<execVars, cur, back>> /\ pc' = "guest" /\ mode' = "NORMAL" /\ m'.sp = 0
    BY <1>3 DEF RestoreState
  <2>2. Suspended = {} /\ Suspended' = {}
    BY <1>1, <1>3, <2>1, SuspendedType DEF RestoreState, NestInv, SpecialModes, Suspended, execVars
  <2>3. back = NoExec
    BY <2>2 DEF NestInv, FramesInOrder
  <2>4. MagicFrames' = {}
    BY <2>1 DEF MagicFrames, LiveRegs
  <2> QED
    BY <1>0, <2>1, <2>2, <2>3, <2>4
       DEF NestInv, SuspendedInOrder, FramesInOrder, SpecialModes, NoExec
<1>4. CASE ResumeGuest
  <2>1. back = NoExec
    BY <1>0, <1>4, NotReturning DEF ResumeGuest
  <2>2. UNCHANGED <<m, mem, execVars, cur, mode, back>> /\ pc' = "guest"
    BY <1>4 DEF ResumeGuest
  <2>3. Suspended' = Suspended
    BY <1>0, <2>2 DEF Suspended, execVars
  <2>4. MagicFrames' = MagicFrames
    BY <1>0, <2>2 DEF MagicFrames, LiveRegs
  <2>5. FramesInOrder'
    BY <2>1, <2>2, <2>3, <2>4, FramesSame DEF NestInv
  <2> QED
    BY <2>2, <2>3, <2>5, OrderSame DEF NestInv, SpecialModes, execVars
<1>5. ASSUME NEW e \in Ctx, TryResume(e) PROVE NestInv'
  <2>1. e = back /\ e \in Suspended
    BY <1>0, <1>1, <1>5 DEF TryResume, ReturnsRecognised, Resumable
  <2>2. UNCHANGED <<m, mem, execVars, mode>> /\ pc' = "continue" /\ cur' = e /\ back' = NoExec
    BY <1>5 DEF TryResume
  <2>3. Suspended' = Suspended \ {e}
    BY <1>0, <2>2 DEF Suspended, execVars
  <2>4. MagicFrames' = MagicFrames
    BY <1>0, <2>2 DEF MagicFrames, LiveRegs, NoExec
  <2>5. \A d \in Suspended : d <= e
    BY <2>1 DEF NestInv, FramesInOrder, NoExec
  <2>6. \A d \in 0 .. e - 1 : d \in Suspended /\ d # e
    BY <2>1 DEF NestInv, SuspendedInOrder
  <2>7. ASSUME NEW d \in Suspended, d # e, NEW c \in 0 .. d - 1 PROVE c \in Suspended /\ c # e
    <3>1. c < d /\ d <= e
      BY <2>5, <2>7, SuspendedType
    <3> QED
      BY <2>1, <2>7, <3>1, SuspendedType DEF NestInv, SuspendedInOrder
  <2>8. SuspendedInOrder'
    BY <2>2, <2>3, <2>5, <2>6, <2>7 DEF SuspendedInOrder
  <2>9. FramesInOrder'
    BY <2>1, <2>2, <2>3, <2>4 DEF NestInv, FramesInOrder, NoExec
  <2> QED
    BY <2>2, <2>8, <2>9 DEF NestInv, SpecialModes, execVars
<1>6. CASE RunBegin
  <2>1. PICK e \in Ctx : /\ execution_acquire(e)
                         /\ cur' = e
                         /\ state' = [state EXCEPT ![e] = "ACTIVE"]
    BY <1>6 DEF RunBegin
  <2>2. /\ UNCHANGED <<mem, tpc, mode, back>> /\ pc' = "begin" /\ mode = "NORMAL"
        /\ back = NoExec /\ m'.sp = m.sp
    BY <1>0, <1>6, NotReturning DEF RunBegin, DispatchesHook
  <2>3. e \notin Suspended /\ tpc[e] = "none"
    BY <1>0, <1>1, <2>1 DEF execution_acquire, Free, HandoverInv, Parked
  <2>4. Suspended' = Suspended
    BY <1>0, <2>1, <2>2, <2>3 DEF Suspended, TypeOK
  <2>5. MagicFrames' = MagicFrames
    BY <1>0, <2>2 DEF MagicFrames, LiveRegs
  <2>6. FramesInOrder'
    BY <2>2, <2>4, <2>5, FramesSame DEF NestInv
  <2>7. \A d \in Ctx : d \in Suspended \/ d \in Free
    BY <1>0, <1>1, SuspendedParked DEF Free, TypeOK, ExecStates
  <2>8. \A d \in 0 .. e - 1 : d \in Ctx /\ d \notin Free
    BY <2>1 DEF execution_acquire, Ctx
  <2>9. \A d \in 0 .. e - 1 : d \in Suspended
    BY <2>7, <2>8
  <2>10. ASSUME NEW d \in Suspended PROVE d <= e
    <3>1. d > e => e \in 0 .. d - 1
      BY SuspendedType
    <3>2. d > e => e \in Suspended
      BY <3>1 DEF NestInv, SuspendedInOrder
    <3> QED
      BY <2>3, <3>2, SuspendedType
  <2>11. SuspendedInOrder'
    BY <2>1, <2>4, <2>9, <2>10 DEF NestInv, SuspendedInOrder
  <2> QED
    BY <2>2, <2>6, <2>11 DEF NestInv, SpecialModes
<1> QED
  BY <1>2, <1>3, <1>4, <1>5, <1>6 DEF HostDispatch

\* A step of the handover that keeps the stack and the registers' sp.
LEMMA NestHandover ==
  ASSUME TypeOK, HandoverInv, NestInv, pc # "stop", pc' # "stop",
         Suspended' = Suspended, LiveRegs'.sp = LiveRegs.sp, cur' \in {cur, NoExec},
         UNCHANGED <<mem, mode, back>>, \A e \in Ctx : e # cur => state'[e] = state[e] /\ tpc'[e] = tpc[e],
         cur # NoExec
  PROVE  NestInv'
<1>1. back = NoExec /\ mode = "NORMAL"
  BY ModeOfHooks DEF NestInv, FramesInOrder
<1>2. MagicFrames' = MagicFrames
  BY DEF MagicFrames, NoExec
<1> QED
  BY <1>1, <1>2, OrderSame, FramesSame DEF NestInv, SpecialModes

LEMMA NestHost ==
  ASSUME TypeOK, HandoverInv, NestInv, CodeInv, HostHandover PROVE NestInv'
<1> USE CtxFacts
<1>1. CASE ApplyResult
  <2>1. cur = NoExec /\ LiveRegs = m /\ back = NoExec
    BY <1>1, GuestStart DEF ApplyResult
  <2>2. UNCHANGED <<execVars, cur, mode>> /\ pc' \in {"terminated", "guest", "stop"}
    BY <1>1 DEF ApplyResult, GuestOrStop
  <2>3. LiveRegs' = m' /\ m' = Redirected
    BY <1>1, <2>2 DEF LiveRegs, ApplyResult
  <2>4. Suspended' = Suspended
    BY <2>1, <2>2 DEF Suspended, execVars, NoExec
  <2>5. CASE res.type \notin RetTypes
    <3>1. UNCHANGED <<mem, back>> /\ m'.sp = m.sp
      BY <1>1, <2>1, <2>3, <2>5 DEF ApplyResult, Redirected
    <3>2. MagicFrames' = MagicFrames
      BY <2>1, <2>3, <3>1 DEF MagicFrames, NoExec
    <3>3. FramesInOrder'
      BY <2>1, <2>4, <3>1, <3>2, FramesSame DEF NestInv
    <3> QED
      BY <2>2, <2>4, <3>3, OrderSame DEF NestInv, SpecialModes, execVars
  <2>6. CASE res.type \in RetTypes
    <3> DEFINE n == m.sp
    <3>1. ResultFits(res)
      BY <1>1 DEF ApplyResult, CodeInv, ResultsFit
    <3>2. n > 0 /\ (res.type = "RET_FAR" <=> mem[n].far)
      BY <2>1, <2>6, <3>1 DEF ResultFits, RetTypes
    <3>3. n \in 1 .. MaxStack
      BY <3>2, GuestRegs
    <3>4. /\ mem' = [mem EXCEPT ![n] = NoFrame] /\ back' = mem[n].by
          /\ m'.sp = n - 1 /\ m'.ip = mem[n].ip
          /\ m'.cs = IF mem[n].far THEN mem[n].cs ELSE m.cs
      BY <1>1, <2>3, <2>6, <3>2 DEF ApplyResult, Redirected, RetTypes, Forget
    <3>5. pc' = GuestOrStop(At(m'))
      BY <1>1, <2>6 DEF ApplyResult, RetTypes
    <3>6. \A k \in 1 .. n - 1 : mem'[k] = mem[k]
      BY <3>3, <3>4, GuestRegs
    <3>7. ASSUME back' # NoExec PROVE pc' = "stop"
      <4> DEFINE e == mem[n].by
      <4>0. n \in MagicFrames
        BY <2>1, <3>3, <3>4, <3>7 DEF MagicFrames, NoExec
      <4>1. mem[n] = MagicFrame(e) /\ e \in Ctx
        BY <4>0, SuspendedType DEF CodeInv, FramesMagic, NestInv, FramesInOrder
      <4>2. mem[n] \in Frame
        BY <3>3, GuestRegs
      <4>3. m'.cs \in Nat /\ m'.ip \in Nat
        BY <3>4, <4>2, GuestRegs DEF Frame
      <4>4. IF result[e].type = "CALL" THEN At(m') = FarMagic(e)
            ELSE At(m').ip = NearMagicIp(e)
        BY <3>4, <4>1 DEF MagicFrame, FarFrame, NearFrame, At, FarMagic
      <4>5. \A r : r.cs \in Nat /\ r.ip \in Nat
                   /\ (IF result[e].type = "CALL" THEN At(r) = FarMagic(e)
                       ELSE At(r).ip = NearMagicIp(e)) => StopAddr(At(r))
        BY <4>1, MagicIsStop
      <4>6. StopAddr(At(m'))
        BY <4>3, <4>4, <4>5
      <4> QED
        BY <3>5, <4>6 DEF GuestOrStop
    <3>8. FramesInOrder'
      BY <2>1, <2>3, <2>4, <3>2, <3>4, <3>6, <3>7, FramesPopped DEF NestInv
    <3> QED
      BY <2>2, <2>4, <3>8, OrderSame DEF NestInv, SpecialModes, execVars
  <2> QED
    BY <2>5, <2>6
<1>2. CASE ~ApplyResult
  <2>0. cur # NoExec /\ cur \in Ctx /\ Stage(cur)
    BY <1>2, CurInCtx DEF HostHandover, BeginLock, CreateThread, RunContinue, EnterWait,
         TakeResult, CopyMachine, JoinThread, HandoverInv, HandoverPcs, HostPcs
  <2>1. pc # "stop" /\ pc' # "stop" /\ UNCHANGED <<mem, mode, back>> /\ cur' \in {cur, NoExec}
    BY <1>2 DEF HostHandover, BeginLock, CreateThread, RunContinue, EnterWait,
         TakeResult, CopyMachine, JoinThread, execVars
  <2>2. \A e \in Ctx : e # cur => state'[e] = state[e] /\ tpc'[e] = tpc[e]
    BY <1>2 DEF HostHandover, BeginLock, CreateThread, RunContinue, EnterWait,
         TakeResult, CopyMachine, JoinThread, execVars, TypeOK
  <2>3. \A e \in Ctx : e # cur => (e \in Suspended <=> e \in Suspended')
    BY <2>1, <2>2, CtxFacts DEF Suspended, NoExec
  <2>4. LiveRegs'.sp = LiveRegs.sp /\ (cur \in Suspended <=> cur \in Suspended')
    <3> USE DEF LiveRegs, Suspended, TypeOK, execVars
    <3>1. CASE BeginLock
      BY <2>0, <3>1 DEF BeginLock
    <3>2. CASE CreateThread
      BY <2>0, <3>2 DEF CreateThread, Stage
    <3>3. CASE RunContinue
      BY <2>0, <3>3 DEF RunContinue, Stage
    <3>4. CASE EnterWait
      BY <2>0, <3>4 DEF EnterWait
    <3>5. CASE TakeResult
      BY <2>0, <3>5 DEF TakeResult
    <3>6. CASE CopyMachine
      BY <2>0, <3>6 DEF CopyMachine
    <3>7. CASE JoinThread
      BY <2>0, <3>7 DEF JoinThread, Stage
    <3> QED
      BY <1>2, <3>1, <3>2, <3>3, <3>4, <3>5, <3>6, <3>7 DEF HostHandover
  <2>5. Suspended' = Suspended
    <3>1. \A e \in Suspended \cup Suspended' : e \in Ctx
      BY DEF Suspended
    <3>2. \A e \in Ctx : e \in Suspended <=> e \in Suspended'
      BY <2>3, <2>4
    <3> QED
      BY <3>1, <3>2
  <2> QED
    BY <2>0, <2>1, <2>2, <2>4, <2>5, NestHandover
<1> QED
  BY <1>1, <1>2

---------------------------------------------------------------------------
(* Steps of the hooks' threads keep the order *)

\* The registers a call is posted with.
LEMMA PostRegs ==
  ASSUME TypeOK, HandoverInv, NEW e \in Ctx, tpc[e] = "run", NEW frame, NEW type, NEW to,
         NEW reloc, PostCall(e, e, frame, type, to, reloc)
  PROVE  /\ cur = e /\ cur' = e /\ pc = "wait" /\ pc' = "woken"
         /\ LiveRegs = machine[e] /\ LiveRegs' = machine'[e]
         /\ machine'[e] = [cs |-> machine[e].cs, ip |-> machine[e].ip, sp |-> machine[e].sp + 1]
         /\ machine[e].sp + 1 \in 1 .. MaxStack /\ machine[e].sp \in Nat
         /\ mem'[machine[e].sp + 1] = frame
         /\ \A k \in 1 .. machine[e].sp : mem'[k] = mem[k]
<1>1. cur = e /\ Stage(e)
  BY DEF HandoverInv, Parked
<1>2. machine[e].sp \in 0 .. MaxStack /\ mem \in [1 .. MaxStack -> Frame]
  BY DEF TypeOK, Regs
<1>3. machine[e].sp + 1 \in 1 .. MaxStack /\ machine[e].sp \in Nat
  BY <1>2, ConstantTypes DEF PostCall, Push
<1>4. pc = "wait" /\ pc' = "woken" /\ cur' = e
  BY <1>1 DEF PostCall, SignalMain, Stage
<1>5. machine'[e] = [cs |-> machine[e].cs, ip |-> machine[e].ip, sp |-> machine[e].sp + 1]
  BY DEF PostCall, TypeOK
<1>6. mem' = [mem EXCEPT ![machine[e].sp + 1] = frame]
  BY DEF PostCall, Push
<1> QED
  BY <1>1, <1>2, <1>3, <1>4, <1>5, <1>6 DEF LiveRegs

\* The running hook becomes the last of the suspended ones, and its frame the
\* last magic frame.
LEMMA NestPost ==
  ASSUME TypeOK, HandoverInv, NestInv, NEW e \in Ctx, tpc[e] = "run", NEW frame, frame.by = e,
         NEW type, NEW to, NEW reloc, PostCall(e, e, frame, type, to, reloc)
  PROVE  NestInv'
<1> DEFINE n == machine[e].sp
<1>1. /\ cur = e /\ cur' = e /\ pc = "wait" /\ pc' = "woken"
      /\ LiveRegs.sp = n /\ LiveRegs'.sp = n + 1 /\ n \in Nat
      /\ mem'[n + 1] = frame
      /\ \A k \in 1 .. n : mem'[k] = mem[k]
  <2>1. /\ cur = e /\ cur' = e /\ pc = "wait" /\ pc' = "woken"
        /\ LiveRegs = machine[e] /\ LiveRegs' = machine'[e]
        /\ machine'[e] = [cs |-> machine[e].cs, ip |-> machine[e].ip, sp |-> n + 1]
        /\ n \in Nat /\ mem'[n + 1] = frame
        /\ \A k \in 1 .. n : mem'[k] = mem[k]
    BY PostRegs, Zenon
  <2> QED
    BY <2>1
<1>2. UNCHANGED <<state, mode, back>> /\ tpc' = [tpc EXCEPT ![e] = "posted"]
  BY DEF PostCall
<1>3. state[e] = "ACTIVE"
  BY <1>1 DEF HandoverInv, Stage
<1>4. e \notin Suspended /\ Suspended' = Suspended \cup {e}
  BY <1>1, <1>2, <1>3 DEF Suspended, TypeOK
<1>5. back = NoExec /\ mode = "NORMAL"
  BY <1>1, CtxFacts, ModeOfHooks DEF NestInv, FramesInOrder
<1>6. MagicFrames' = MagicFrames \cup {n + 1}
  BY <1>1, CtxFacts DEF MagicFrames, NoExec
<1>7. \A k \in MagicFrames : k < n + 1 /\ k # n + 1 /\ mem'[k] = mem[k]
  BY <1>1 DEF MagicFrames
<1>8. \A d \in Suspended : d < e
  BY <1>1, <1>4, CtxFacts, SuspendedType DEF NestInv, SuspendedInOrder, NoExec
<1>9. SuspendedInOrder'
  BY <1>1, <1>4, <1>8, CtxFacts DEF NestInv, SuspendedInOrder, NoExec
<1>10. \A k \in MagicFrames' : mem'[k].by \in Suspended' /\ mem'[k].by # back'
  <2>1. e # NoExec
    BY CtxFacts
  <2> QED
    BY <1>1, <1>2, <1>4, <1>5, <1>6, <1>7, <2>1 DEF NestInv, FramesInOrder
<1>11. ASSUME NEW j \in MagicFrames', NEW k \in MagicFrames', j < k
       PROVE  mem'[j].by < mem'[k].by
  <2>1. j \in MagicFrames /\ j \in Nat
    BY <1>1, <1>6, <1>7, <1>11 DEF MagicFrames
  <2>2. CASE k \in MagicFrames
    BY <1>7, <1>11, <2>1, <2>2 DEF NestInv, FramesInOrder
  <2>3. CASE k = n + 1
    <3>1. mem'[k].by = e /\ mem'[j].by = mem[j].by
      BY <1>1, <1>7, <2>1, <2>3
    <3>2. mem[j].by \in Suspended
      BY <2>1 DEF NestInv, FramesInOrder
    <3> QED
      BY <1>8, <3>1, <3>2
  <2> QED
    BY <1>6, <2>2, <2>3
<1>12. ASSUME NEW d \in Suspended' PROVE d = back' \/ \E k \in MagicFrames' : mem'[k].by = d
  <2>1. CASE d = e
    BY <1>1, <1>6, <2>1
  <2>2. CASE d # e
    <3>1. d \in Suspended /\ d # back
      BY <1>4, <1>5, <2>2, SuspendedType
    <3>2. PICK k \in MagicFrames : mem[k].by = d
      BY <3>1 DEF NestInv, FramesInOrder
    <3> QED
      BY <1>6, <1>7, <3>2
  <2> QED
    BY <2>1, <2>2
<1>13. FramesInOrder'
  BY <1>2, <1>5, <1>10, <1>11, <1>12 DEF FramesInOrder, NoExec
<1> QED
  BY <1>2, <1>5, <1>9, <1>13 DEF NestInv, SpecialModes

LEMMA NestThread ==
  ASSUME TypeOK, HandoverInv, NestInv, NEW e \in Ctx, ThreadHandover(e) \/ HookStep(e)
  PROVE  NestInv'
<1>1. /\ cur = e /\ Stage(e) /\ cur # NoExec
      /\ pc \in {"wait", "woken"} \/ (pc = "enter wait" /\ tpc[e] \in {"start", "woken"} /\ mutex[e] = "main")
      /\ tpc[e] = "run" => thread_active = e
  BY CtxFacts
     DEF HandoverInv, Parked, Stage, ThreadHandover, HookStep, ThreadStart, ThreadWait,
         ThreadResume, ThreadExit, hydra_impl_call_far, hydra_impl_call_near_off,
         ThreadReturn
<1>2. ASSUME UNCHANGED <<mem, mode, back, cur>>, pc \in {"wait", "woken"}, pc' \in {"wait", "woken"},
             machine'[e].sp = machine[e].sp,
             \A d \in Ctx : d # e => state'[d] = state[d] /\ tpc'[d] = tpc[d],
             e \in Suspended <=> e \in Suspended'
      PROVE  NestInv'
  <2>1. Suspended' = Suspended
    <3>1. \A d \in Ctx : d # e => (d \in Suspended <=> d \in Suspended')
      BY <1>1, <1>2 DEF Suspended
    <3>2. \A d \in Suspended \cup Suspended' : d \in Ctx
      BY DEF Suspended
    <3> QED
      BY <1>2, <3>1, <3>2
  <2>2. LiveRegs'.sp = LiveRegs.sp
    BY <1>1, <1>2 DEF LiveRegs
  <2> QED
    BY <1>1, <1>2, <2>1, <2>2, NestHandover
<1>3. ASSUME NEW r, Abort(r) PROVE NestInv'
  BY <1>3, NestUnchanged DEF Abort
<1> USE DEF TypeOK, Suspended
<1>4. CASE ThreadStart(e)
  BY <1>1, <1>2, <1>4 DEF ThreadStart
<1>5. CASE ThreadWait(e)
  BY <1>1, <1>2, <1>5 DEF ThreadWait, Stage
<1>6. CASE ThreadResume(e)
  <2>1. CASE Abort("cs moved")
    BY <1>3, <2>1
  <2>2. CASE ~Abort("cs moved")
    <3>1. Restored(e, e, SavedRegs(e, result[e].type = "CALL_NEAR"))
      BY <1>6, <2>2 DEF ThreadResume
    <3>2. machine'[e].sp = machine[e].sp
      BY <3>1 DEF Restored, SavedRegs
    <3> QED
      BY <1>1, <1>2, <1>6, <3>1, <3>2 DEF ThreadResume, Restored
  <2> QED
    BY <2>1, <2>2
<1>7. CASE ThreadExit(e)
  BY <1>1, <1>2, <1>7 DEF ThreadExit, Stage
<1>8. ASSUME NEW to, hydra_impl_call_far(e, to) PROVE NestInv'
  <2>1. tpc[e] = "run" /\ PostCall(e, e, FarFrame(FarMagic(e), e), "CALL", to, FALSE)
    BY <1>1, <1>8 DEF hydra_impl_call_far
  <2>2. FarFrame(FarMagic(e), e).by = e
    BY DEF FarFrame
  <2> QED
    BY <2>1, <2>2, NestPost
<1>9. ASSUME NEW to, NEW reloc, hydra_impl_call_near_off(e, to, reloc) PROVE NestInv'
  <2>1. CASE Abort("near id") \/ Abort("below load segment")
    BY <1>3, <2>1
  <2>2. CASE ~(Abort("near id") \/ Abort("below load segment"))
    <3>1. tpc[e] = "run" /\ PostCall(e, e, NearFrame(NearMagicIp(e), e), "CALL_NEAR", to, reloc)
      BY <1>1, <1>9, <2>2 DEF hydra_impl_call_near_off
    <3>2. NearFrame(NearMagicIp(e), e).by = e
      BY DEF NearFrame
    <3> QED
      BY <3>1, <3>2, NestPost
  <2> QED
    BY <2>1, <2>2
<1>10. ASSUME NEW r, ThreadReturn(e, r) PROVE NestInv'
  BY <1>1, <1>2, <1>10 DEF ThreadReturn, SignalMain, Stage
<1> QED
  BY <1>4, <1>5, <1>6, <1>7, <1>8, <1>9, <1>10 DEF ThreadHandover, HookStep

LEMMA NestStep ==
  ASSUME TypeOK, HandoverInv, NestInv, CodeInv, [Next]_vars PROVE NestInv'
<1>1. CASE UNCHANGED vars
  BY <1>1, NestUnchanged DEF vars, execVars
<1> QED
  BY <1>1, NestGuest, NestDispatch, NestHost, NestThread DEF Next, Step, Stopped

---------------------------------------------------------------------------
(* Code addresses *)

LEMMA CodeTypes ==
  /\ GuestCode \subseteq Addr /\ HookCode \subseteq GuestCode
  /\ \A a \in GuestCode : [cs |-> a.cs, ip |-> After(a.ip)] \in GuestCode
  /\ \A a \in GuestCode : a = [cs |-> a.cs, ip |-> a.ip]
  /\ \A x \in Nat : After(After(x)) = After(x)
<1> DEFINE entries == Hooks \cup Stubs \cup Bodies \cup Fns \cup {Main, CaptureAddr}
<1>1. \A a \in entries : a \in Addr /\ [cs |-> a.cs, ip |-> After(a.ip)] \in Addr
  BY ConstantTypes, AfterType DEF Addr
<1>2. GuestCode \subseteq Addr
  BY <1>1 DEF GuestCode
<1>3. \A x \in Nat : After(After(x)) = After(x)
  BY DEF After
<1>4. ASSUME NEW a \in GuestCode PROVE [cs |-> a.cs, ip |-> After(a.ip)] \in GuestCode
  <2>1. CASE a \in entries
    BY <2>1 DEF GuestCode
  <2>2. ASSUME NEW b \in entries, a = [cs |-> b.cs, ip |-> After(b.ip)]
        PROVE  [cs |-> a.cs, ip |-> After(a.ip)] \in GuestCode
    <3>1. After(a.ip) = a.ip
      BY <1>1, <1>3, <2>2 DEF Addr
    <3> QED
      BY <2>2, <3>1
  <2> QED
    BY <2>1, <2>2 DEF GuestCode
<1>5. \A a \in GuestCode : a = [cs |-> a.cs, ip |-> a.ip]
  BY <1>2 DEF Addr
<1>6. ASSUME NEW h \in HookCode PROVE h \in GuestCode
  <2>1. CASE h \in Hooks
    BY <2>1 DEF GuestCode
  <2>2. ASSUME NEW seg \in BodySegs, NEW b \in Bodies, h = [cs |-> seg, ip |-> b.ip]
        PROVE  h \in GuestCode
    <3>1. b \in GuestCode /\ b.cs \in BodySegs
      BY DEF GuestCode, BodySegs
    <3> QED
      BY <2>2, <3>1, LayoutAssumption
  <2> QED
    BY <2>1, <2>2 DEF HookCode
<1> QED
  BY <1>2, <1>3, <1>4, <1>5, <1>6

LEMMA HookCodeFacts ==
  /\ \A h \in HookCode : h.cs \in HookSegs /\ h.cs # MagicSeg /\ h.cs # RomSeg
  /\ \A h \in HookCode : h \notin Stubs
  /\ BodySegs \subseteq HookSegs /\ MagicSeg \notin BodySegs
  /\ HookSegs \subseteq Segs
<1>1. \A h \in HookCode : h.cs \in HookSegs
  BY DEF HookSegs
<1>2. ASSUME NEW h \in HookCode PROVE h \notin Stubs
  BY LayoutAssumption DEF HookCode
<1>3. BodySegs \subseteq HookSegs
  <2> SUFFICES ASSUME NEW b \in Bodies PROVE b.cs \in HookSegs
    BY DEF BodySegs
  <2>1. [cs |-> b.cs, ip |-> b.ip] \in HookCode
    BY DEF HookCode, BodySegs
  <2> QED
    BY <2>1 DEF HookSegs
<1>4. HookSegs \subseteq Segs
  BY DEF HookSegs, Segs
<1> QED
  BY <1>1, <1>2, <1>3, <1>4, LayoutAssumption

---------------------------------------------------------------------------
(* The segments the frames return to *)

\* Frames stay as they are if nothing they depend on changes.
LEMMA FramesFit ==
  ASSUME NEW S, NEW n \in Nat,
         \A k \in 1 .. n : FrameFits(k, S),
         \A k \in 1 .. n : mem'[k] = mem[k],
         \A k \in 1 .. n : mem[k].by # NoExec =>
           /\ result'[mem[k].by].type = result[mem[k].by].type
           /\ saved'[mem[k].by] = saved[mem[k].by],
         \A seg : Placed(seg) => Placed(seg)'
  PROVE  \A k \in 1 .. n : FrameFits(k, S)'
<1> SUFFICES ASSUME NEW k \in 1 .. n PROVE FrameFits(k, S)'
  OBVIOUS
<1>1. FrameFits(k, S) /\ mem'[k] = mem[k]
  OBVIOUS
<1>2. CASE mem[k].by = NoExec
  BY <1>1, <1>2 DEF FrameFits, NoExec
<1>3. CASE mem[k].by # NoExec
  <2>0. PICK e : e = mem[k].by
    OBVIOUS
  <2>1. ReturnsTo(e, S[k], S[k - 1])
    BY <1>1, <1>3, <2>0 DEF FrameFits
  <2>2. result'[e].type = result[e].type /\ saved'[e] = saved[e]
    BY <1>3, <2>0
  <2>3. Placed(S[k - 1])'
    BY <2>1 DEF ReturnsTo, Placed
  <2>4. mem'[k].by = e
    BY <1>1, <2>0
  <2>5. ReturnsTo(e, S[k], S[k - 1])'
    BY <2>1, <2>2, <2>3 DEF ReturnsTo
  <2> QED
    BY <1>3, <2>0, <2>4, <2>5 DEF FrameFits, NoExec
<1> QED
  BY <1>2, <1>3

\* A far frame does not say which segment the guest is in.
LEMMA TopFree ==
  ASSUME NEW n \in Nat, NEW S \in [0 .. n -> Segs], NEW seg \in Segs,
         \A k \in 1 .. n : FrameFits(k, S),
         n > 0 => /\ mem[n].far
                  /\ mem[n].by # NoExec => result[mem[n].by].type = "CALL"
  PROVE  \A k \in 1 .. n : FrameFits(k, [S EXCEPT ![n] = seg])
<1> SUFFICES ASSUME NEW k \in 1 .. n PROVE FrameFits(k, [S EXCEPT ![n] = seg])
  OBVIOUS
<1>1. [S EXCEPT ![n] = seg][k - 1] = S[k - 1] /\ FrameFits(k, S)
  OBVIOUS
<1>2. k # n => [S EXCEPT ![n] = seg][k] = S[k]
  OBVIOUS
<1> QED
  BY <1>1, <1>2 DEF FrameFits, ReturnsTo

LEMMA TopFarIsCall ==
  ASSUME TypeOK, HandoverInv, FramesMagic, LiveRegs.sp > 0, mem[LiveRegs.sp].far,
         mem[LiveRegs.sp].by # NoExec
  PROVE  result[mem[LiveRegs.sp].by].type = "CALL"
<1>1. LiveRegs.sp \in MagicFrames
  BY LiveType DEF MagicFrames, Regs
<1>2. mem[LiveRegs.sp] = MagicFrame(mem[LiveRegs.sp].by)
  BY <1>1 DEF FramesMagic
<1> QED
  BY <1>2 DEF MagicFrame, NearFrame

\* Steps that neither move the guest nor touch the stack, the stubs or what a
\* suspended context has saved.
LEMMA SegmentsSame ==
  ASSUME TypeOK, HandoverInv, NestInv, CodeInv,
         LiveRegs' = LiveRegs, mem' = mem, stubMem' = stubMem,
         \A e \in Ctx : Resumed(e)' <=> Resumed(e),
         \A e \in Ctx : e \in Suspended \/ Resumed(e) =>
           result'[e].type = result[e].type /\ saved'[e] = saved[e]
  PROVE  ReturnSegments' /\ FramesMagic' /\ StubsPlaced'
<1> DEFINE regs == LiveRegs
<1>0. regs.sp \in Nat
  BY LiveType, ConstantTypes DEF Regs
<1>1. PICK S \in [0 .. regs.sp -> Segs] : SegmentsFit(S)
  BY DEF CodeInv, ReturnSegments
<1>2. \A k \in 1 .. regs.sp : mem[k].by # NoExec =>
        mem[k].by \in Suspended /\ mem[k].by \in Ctx
  BY SuspendedType DEF NestInv, FramesInOrder, MagicFrames
<1>3. \A k \in 1 .. regs.sp : FrameFits(k, S)'
  <2>1. \A seg : Placed(seg) => Placed(seg)'
    BY DEF Placed
  <2>2. \A k \in 1 .. regs.sp : FrameFits(k, S)
    BY <1>1 DEF SegmentsFit
  <2>3. \A k \in 1 .. regs.sp : mem'[k] = mem[k]
    OBVIOUS
  <2>4. \A k \in 1 .. regs.sp : mem[k].by # NoExec =>
          /\ result'[mem[k].by].type = result[mem[k].by].type
          /\ saved'[mem[k].by] = saved[mem[k].by]
    BY <1>2
  <2> HIDE DEF regs
  <2> QED
    BY <1>0, <2>1, <2>2, <2>3, <2>4, FramesFit
<1>4. ASSUME NEW e \in Ctx, Resumed(e)'
      PROVE  ReturnsTo(e, regs.cs, S[regs.sp])'
  <2>1. Resumed(e)
    BY <1>4
  <2>2. ReturnsTo(e, regs.cs, S[regs.sp])
    BY <1>1, <2>1 DEF SegmentsFit
  <2>3. result'[e].type = result[e].type /\ saved'[e] = saved[e] /\ regs' = regs
    BY <2>1
  <2> HIDE DEF regs
  <2> QED
    BY <2>2, <2>3 DEF ReturnsTo, Placed
<1>5. (\A e \in Ctx : ~Resumed(e)') => S[regs'.sp] = regs'.cs
  BY <1>1 DEF SegmentsFit
<1>6. SegmentsFit(S)'
  BY <1>3, <1>4, <1>5 DEF SegmentsFit
<1>7. ReturnSegments'
  BY <1>1, <1>6 DEF ReturnSegments
<1>8. MagicFrames' = MagicFrames
  BY DEF MagicFrames, NoExec
<1>9. FramesMagic'
  <2> SUFFICES ASSUME NEW k \in MagicFrames PROVE (mem[k] = MagicFrame(mem[k].by))'
    BY <1>8 DEF FramesMagic
  <2>1. PICK e \in Ctx : e = mem[k].by
    BY <1>2 DEF MagicFrames
  <2>2. mem[k] = MagicFrame(e)
    BY <2>1 DEF CodeInv, FramesMagic
  <2>3. result'[e].type = result[e].type
    BY <1>2, <2>1 DEF MagicFrames
  <2>4. MagicFrame(e)' = MagicFrame(e)
    BY <2>3 DEF MagicFrame, FarFrame, NearFrame, FarMagic, NearMagicIp
  <2> QED
    BY <2>1, <2>2, <2>4
<1> QED
  BY <1>7, <1>9 DEF CodeInv, StubsPlaced

---------------------------------------------------------------------------
(* Steps of the handover keep the segments *)

\* A step of the handover that hands registers over without changing them.
HandsOver ==
  /\ pc' \in (HandoverPcs \ {"continue"}) \cup {"apply"}
  /\ cur' = IF pc' = "apply" THEN NoExec ELSE cur
  /\ pc' = "apply" => ~Resumed(cur)
  /\ LiveRegs' = LiveRegs
  /\ UNCHANGED <<mem, stubMem, back>>
  /\ \A e \in Ctx : Resumed(e)' <=> Resumed(e)
  /\ \A e \in Ctx : e \in Suspended \/ Resumed(e) =>
       result'[e] = result[e] /\ saved'[e] = saved[e]
  /\ \A e \in Ctx : state'[e] = "ACTIVE" /\ tpc'[e] \in {"posted", "wait", "woken"} =>
       state[e] = "ACTIVE" /\ tpc[e] \in {"posted", "wait", "woken"}
  /\ pc' \in {"woken", "copy"} => ResultFits(result'[cur])
  /\ pc' \in {"join", "apply"} => ResultFits(res')

LEMMA CodeHandover ==
  ASSUME TypeOK, HandoverInv, NestInv, CodeInv, cur \in Ctx, pc \in HandoverPcs, HandsOver
  PROVE  CodeInv'
<1> USE CtxFacts
<1>1. ReturnSegments' /\ FramesMagic' /\ StubsPlaced'
  BY SegmentsSame DEF HandsOver
<1>2. back = NoExec /\ pc # "apply" /\ pc' \notin {"guest", "stop", "continue"}
  BY DEF NestInv, FramesInOrder, HandoverPcs, HostPcs, HandsOver
<1>3. CodeHere'
  <2>1. HookHasMachine' => HookHasMachine
    <3>1. pc' # "apply" => (Resumed(cur)' <=> Resumed(cur)) /\ cur' = cur
      BY DEF HandsOver, Resumed
    <3> QED
      BY <3>1 DEF HookHasMachine, Resumed, HandsOver
  <2>2. HookHasMachine => At(LiveRegs) \in HookCode /\ Placed(LiveRegs.cs)
    BY DEF CodeInv, CodeHere
  <2>3. Placed(LiveRegs.cs) => Placed(LiveRegs.cs)'
    BY DEF Placed, HandsOver
  <2>4. At(LiveRegs)' = At(LiveRegs)
    BY DEF At, HandsOver
  <2> QED
    BY <1>2, <2>1, <2>2, <2>3, <2>4 DEF CodeHere
<1>4. CallsSaved'
  <2> SUFFICES ASSUME NEW e \in Ctx, state'[e] = "ACTIVE", tpc'[e] \in {"posted", "wait", "woken"}
               PROVE  /\ result'[e].type \in CallTypes
                      /\ saved'[e].reloc => result'[e].type = "CALL_NEAR" /\ TRUE \in RelocChoices
                      /\ saved'[e].cs \in HookSegs
    BY DEF CallsSaved
  <2>1. state[e] = "ACTIVE" /\ tpc[e] \in {"posted", "wait", "woken"}
    BY DEF HandsOver
  <2>2. e \in Suspended \/ Resumed(e)
    <3>1. tpc[e] = "woken" => e = cur
      BY DEF HandoverInv, Parked
    <3> QED
      BY <2>1, <3>1 DEF Suspended, Resumed
  <2> QED
    BY <2>1, <2>2 DEF CodeInv, CallsSaved, HandsOver
<1>6. ResultsFit'
  <2>1. pc' \in {"woken", "copy"} => (ResultFits(result[cur]))'
    <3>1. SUFFICES ASSUME pc' \in {"woken", "copy"} PROVE (ResultFits(result[cur]))'
      OBVIOUS
    <3>2. cur' = cur /\ ResultFits(result'[cur])
      BY <3>1 DEF HandsOver
    <3> QED
      BY <3>2 DEF ResultFits, HandsOver
  <2>2. pc' \in {"join", "apply"} => ResultFits(res)'
    BY DEF ResultFits, HandsOver
  <2> QED
    BY <2>1, <2>2 DEF ResultsFit
<1> QED
  BY <1>1, <1>3, <1>4, <1>6 DEF CodeInv

LEMMA CodeHost ==
  ASSUME TypeOK, HandoverInv, NestInv, CodeInv, HostHandover, ~ApplyResult PROVE CodeInv'
<1>0. pc \in HandoverPcs /\ cur \in Ctx /\ Stage(cur) /\ cur # NoExec
  BY CurInCtx, CtxFacts
     DEF HostHandover, BeginLock, CreateThread, RunContinue, EnterWait, TakeResult,
         CopyMachine, JoinThread, HandoverInv, HandoverPcs, HostPcs
<1>1. back = NoExec /\ \A e \in Ctx : e # back
  BY <1>0, CtxFacts DEF NestInv, FramesInOrder, HandoverPcs, HostPcs
<1>2. ASSUME NEW e \in Ctx, e # cur
      PROVE  tpc[e] # "woken" /\ (state[e] = "ACTIVE" => tpc[e] = "wait")
  BY <1>2 DEF HandoverInv, Parked
<1> SUFFICES HandsOver
  BY <1>0, CodeHandover
<1> USE CtxFacts
    DEF HandsOver, TypeOK, LiveRegs, Resumed, Suspended, execVars, overlayVars, HandoverPcs,
        HostPcs
<1>3. CASE BeginLock
  BY <1>0, <1>1, <1>2, <1>3 DEF BeginLock
<1>4. CASE CreateThread
  BY <1>0, <1>1, <1>2, <1>4 DEF CreateThread, Stage
<1>5. CASE RunContinue
  BY <1>0, <1>1, <1>2, <1>5 DEF RunContinue, Stage
<1>6. CASE EnterWait
  BY <1>0, <1>1, <1>2, <1>6 DEF EnterWait
<1>7. CASE TakeResult
  BY <1>0, <1>1, <1>2, <1>7 DEF TakeResult, CodeInv, ResultsFit, Stage
<1>8. CASE CopyMachine
  BY <1>0, <1>1, <1>2, <1>8 DEF CopyMachine, CodeInv, ResultsFit, Stage
<1>9. CASE JoinThread
  BY <1>0, <1>1, <1>2, <1>9 DEF JoinThread, CodeInv, ResultsFit, Stage
<1> QED
  BY <1>3, <1>4, <1>5, <1>6, <1>7, <1>8, <1>9 DEF HostHandover

---------------------------------------------------------------------------
(* Steps of the guest keep the segments *)

\* The segments while the guest runs, or is about to.
LEMMA GuestSegments ==
  ASSUME TypeOK, HandoverInv, NestInv, CodeInv, pc \in {"guest", "stop", "apply"},
         back = NoExec
  PROVE  \E S \in [0 .. m.sp -> Segs] : S[m.sp] = m.cs /\ \A k \in 1 .. m.sp : FrameFits(k, S)
<1>1. cur = NoExec /\ LiveRegs = m
  BY GuestStart
<1>2. \A e \in Ctx : ~Resumed(e)
  BY <1>1, CtxFacts DEF Resumed
<1>3. PICK S \in [0 .. m.sp -> Segs] : SegmentsFit(S)
  BY <1>1 DEF CodeInv, ReturnSegments
<1> QED
  BY <1>1, <1>2, <1>3 DEF SegmentsFit

\* Whether a frame fits depends on the segments above and below it.
LEMMA FitsLocally ==
  ASSUME NEW S, NEW T, NEW k, T[k] = S[k], T[k - 1] = S[k - 1], FrameFits(k, S)
  PROVE  FrameFits(k, T)
BY DEF FrameFits

\* Where the guest goes on, with the segments T below its frames.
LEMMA GuestLands ==
  ASSUME TypeOK', CodeInv, cur' = NoExec,
         UNCHANGED execVars, pc' \in {"guest", "stop", "terminated"},
         StubsPlaced', FramesMagic',
         NEW T \in [0 .. m'.sp -> Segs],
         \A k \in 1 .. m'.sp : FrameFits(k, T)',
         back' = NoExec => T[m'.sp] = m'.cs,
         back' = NoExec /\ pc' # "terminated" =>
           /\ At(m') \in GuestCode
           /\ At(m') \in Stubs /\ m'.sp > 0 => mem'[m'.sp].far,
         \A e \in Ctx : e = back' => ReturnsTo(e, m.cs, T[m.sp])' /\ AtMagic(e, m)',
         pc' = "stop" => StopAddr(At(m))'
  PROVE  CodeInv'
<1> USE CtxFacts
<1>1. LiveRegs' = m'
  BY DEF LiveRegs
<1>2. \A e \in Ctx : Resumed(e)' <=> e = back'
  BY DEF Resumed, NoExec
<1>3. back' # NoExec => back' \in Ctx
  BY ExecAssumption DEF TypeOK, NoExec, Ctx
<1>4. (\A e \in Ctx : ~Resumed(e)') => T[m'.sp] = m'.cs
  BY <1>2, <1>3
<1>5. SegmentsFit(T)'
  <2>1. \A k \in 1 .. LiveRegs'.sp : FrameFits(k, T)'
    BY <1>1
  <2>2. \A e \in Ctx : Resumed(e)' => ReturnsTo(e, LiveRegs.cs, T[LiveRegs.sp])'
    BY <1>1, <1>2
  <2> QED
    BY <1>1, <1>4, <2>1, <2>2 DEF SegmentsFit
<1>6. ReturnSegments'
  BY <1>1, <1>5 DEF ReturnSegments
<1>7. CallsSaved'
  BY DEF CodeInv, CallsSaved, execVars
<1>8. ~HookHasMachine'
  BY DEF HookHasMachine, HandoverPcs
<1>9. CodeHere'
  BY <1>1, <1>2, <1>8 DEF CodeHere, TopFar
<1>10. ResultsFit'
  BY DEF ResultsFit
<1> QED
  BY <1>6, <1>7, <1>9, <1>10 DEF CodeInv

LEMMA PlacedSame == ASSUME stubMem' = stubMem PROVE \A seg : Placed(seg) => Placed(seg)'
BY DEF Placed

LEMMA MagicFramesType ==
  ASSUME TypeOK, HandoverInv, NestInv, CodeInv
  PROVE  \A k \in 1 .. LiveRegs.sp : mem[k].by # NoExec =>
           mem[k].by \in Ctx /\ mem[k].by \in Suspended /\ mem[k] = MagicFrame(mem[k].by)
BY SuspendedType DEF NestInv, FramesInOrder, MagicFrames, CodeInv, FramesMagic

\* Magic frames that are still on the stack are those of the contexts.
LEMMA MagicFramesSame ==
  ASSUME TypeOK, HandoverInv, NestInv, CodeInv, UNCHANGED result,
         \A k \in MagicFrames' : k \in 1 .. LiveRegs.sp /\ mem'[k] = mem[k]
  PROVE  FramesMagic'
<1> SUFFICES ASSUME NEW k \in MagicFrames' PROVE (mem[k] = MagicFrame(mem[k].by))'
  BY DEF FramesMagic
<1>1. PICK e : e = mem[k].by
  OBVIOUS
<1>2. mem[k] = MagicFrame(e)
  BY <1>1, MagicFramesType DEF MagicFrames, NoExec
<1>3. MagicFrame(e)' = MagicFrame(e)
  BY DEF MagicFrame, FarFrame, NearFrame, FarMagic, NearMagicIp
<1> QED
  BY <1>1, <1>2, <1>3

\* The guest returns by its top frame: to itself, or to a suspended context.
LEMMA CodePop ==
  ASSUME TypeOK, TypeOK', HandoverInv, NestInv, CodeInv, pc \in {"guest", "apply"},
         UNCHANGED <<execVars, stubMem, cur, mode>>, m.sp > 0,
         mem' = Forget(m.sp), m' = (IF mem[m.sp].far THEN FarPopped(m) ELSE NearPopped(m)),
         back' = mem[m.sp].by, pc' = GuestOrStop(At(m'))
  PROVE  CodeInv'
<1> DEFINE n == m.sp
<1>1. cur = NoExec /\ LiveRegs = m /\ back = NoExec
  BY GuestStart
<1>2. PICK S \in [0 .. n -> Segs] : S[n] = m.cs /\ \A k \in 1 .. n : FrameFits(k, S)
  BY <1>1, GuestSegments
<1>3. n \in 1 .. MaxStack /\ n \in Nat /\ n - 1 \in Nat /\ MaxStack \in Nat
  BY GuestRegs
<1>4. /\ mem' = [mem EXCEPT ![n] = NoFrame]
      /\ m'.sp = n - 1 /\ m'.ip = mem[n].ip
      /\ m'.cs = IF mem[n].far THEN mem[n].cs ELSE m.cs
      /\ \A k \in 1 .. n - 1 : mem'[k] = mem[k]
  BY <1>3, GuestRegs DEF Forget, FarPopped, NearPopped
<1> DEFINE T == [k \in 0 .. n - 1 |-> S[k]]
<1>5. T \in [0 .. m'.sp -> Segs]
  BY <1>3, <1>4
<1>6. \A k \in 1 .. n - 1 : FrameFits(k, T)
  <2> SUFFICES ASSUME NEW k \in 1 .. n - 1 PROVE FrameFits(k, T)
    OBVIOUS
  <2>1. T[k] = S[k] /\ T[k - 1] = S[k - 1] /\ FrameFits(k, S)
    BY <1>2, <1>3
  <2> HIDE DEF T
  <2> QED
    BY <2>1, FitsLocally
<1>7. \A k \in 1 .. n - 1 : mem[k].by # NoExec =>
           /\ result'[mem[k].by].type = result[mem[k].by].type
           /\ saved'[mem[k].by] = saved[mem[k].by]
  BY DEF execVars
<1>8. PICK U \in [0 .. m'.sp -> Segs] : U = T
  BY <1>5
<1>9. \A k \in 1 .. n - 1 : FrameFits(k, U)'
  BY <1>3, <1>4, <1>6, <1>7, <1>8, PlacedSame, FramesFit
<1>10. FrameFits(n, S) /\ U[n - 1] = S[n - 1]
  BY <1>2, <1>3, <1>8
<1>11. FramesMagic' /\ StubsPlaced'
  <2>0. LiveRegs' = m'
    BY DEF GuestOrStop, LiveRegs
  <2>1. \A k \in MagicFrames' : k \in 1 .. LiveRegs.sp /\ mem'[k] = mem[k]
    BY <1>1, <1>3, <1>4, <2>0 DEF MagicFrames
  <2> QED
    BY <2>1, MagicFramesSame DEF CodeInv, StubsPlaced, execVars
<1>12. pc' \in {"guest", "stop"} /\ (pc' = "stop" => StopAddr(At(m))')
  BY DEF GuestOrStop, StopAddr
<1>13. CASE mem[n].by = NoExec
  <2>1. U[n - 1] = m'.cs /\ [cs |-> U[n - 1], ip |-> mem[n].ip] \in GuestCode
    BY <1>2, <1>4, <1>10, <1>13 DEF FrameFits
  <2>2. At(m') \in GuestCode
    BY <1>4, <2>1 DEF At
  <2>3. At(m') \notin Stubs
    BY <1>4, <1>10, <1>13, LayoutAssumption DEF FrameFits, At
  <2>4. \A e \in Ctx : e # back'
    BY <1>13, CtxFacts
  <2> QED
    BY <1>1, <1>4, <1>9, <1>11, <1>12, <1>13, <2>1, <2>2, <2>3, <2>4, GuestLands
<1>14. CASE mem[n].by # NoExec
  <2>1. PICK e \in Ctx : e = mem[n].by
    BY <1>1, <1>3, <1>14, MagicFramesType
  <2>2. mem[n] = MagicFrame(e)
    BY <1>1, <1>3, <1>14, <2>1, MagicFramesType
  <2>3. ReturnsTo(e, m.cs, U[n - 1])
    BY <1>2, <1>10, <1>14, <2>1 DEF FrameFits
  <2>4. mem[n].far <=> result[e].type = "CALL"
    BY <2>2 DEF MagicFrame, FarFrame, NearFrame
  <2>5. UNCHANGED <<result, saved>>
    BY DEF execVars
  <2>6. PICK seg : seg = U[n - 1]
    OBVIOUS
  <2>7. ReturnsTo(e, m.cs, U[m.sp])'
    <3>1. Placed(seg)'
      BY <2>3, <2>6, PlacedSame DEF ReturnsTo
    <3>2. U[m'.sp] = seg
      BY <1>4, <2>6
    <3>3. result[e].type # "CALL" => m'.cs = m.cs
      BY <1>4, <2>4
    <3> QED
      BY <2>3, <2>5, <2>6, <3>1, <3>2, <3>3 DEF ReturnsTo
  <2>8. AtMagic(e, m)'
    BY <1>4, <2>2, <2>4, <2>5 DEF AtMagic, At, MagicFrame, FarFrame, NearFrame, FarMagic, NearMagicIp
  <2>9. back' # NoExec
    BY <1>14
  <2> QED
    BY <1>1, <1>4, <1>9, <1>11, <1>12, <2>1, <2>7, <2>8, <2>9, GuestLands DEF NoExec
<1> QED
  BY <1>13, <1>14

\* Entries the guest calls or jumps to.
LEMMA EntryFacts ==
  ASSUME NEW to \in Fns \cup Hooks \cup Stubs
  PROVE  /\ to \in GuestCode /\ to = [cs |-> to.cs, ip |-> to.ip] /\ to.cs \in Segs
         /\ to \in Fns \cup Hooks => to \notin Stubs
<1>1. to \in GuestCode
  BY DEF GuestCode
<1> QED
  BY <1>1, CodeTypes, LayoutAssumption DEF Segs

LEMMA HereInCode ==
  ASSUME TypeOK, HandoverInv, NestInv, CodeInv, pc \in {"guest", "stop", "apply"},
         back = NoExec
  PROVE  /\ At(m) \in GuestCode /\ m.cs \in Segs
         /\ [cs |-> m.cs, ip |-> After(m.ip)] \in GuestCode
         /\ After(After(m.ip)) = After(m.ip)
<1>1. LiveRegs = m
  BY GuestStart
<1>2. At(m) \in GuestCode
  BY <1>1, CodeTypes DEF CodeInv, CodeHere, HookHasMachine
<1> QED
  BY <1>2, CodeTypes, GuestRegs DEF At, Segs

\* The guest pushes a frame of its own and enters a function.
LEMMA CodePush ==
  ASSUME TypeOK, TypeOK', HandoverInv, NestInv, CodeInv, pc = "guest",
         NEW to \in Fns \cup Hooks \cup Stubs, NEW frame, Push(m, frame),
         GuestGoesTo([cs |-> to.cs, ip |-> to.ip, sp |-> m.sp + 1], NoExec), UNCHANGED stubMem,
         \/ frame = FarFrame([cs |-> m.cs, ip |-> After(m.ip)], NoExec)
         \/ frame = NearFrame(After(m.ip), NoExec) /\ to.cs = m.cs /\ to \notin Stubs
  PROVE  CodeInv'
<1> DEFINE n == m.sp
<1>1. cur = NoExec /\ LiveRegs = m /\ back = NoExec
  BY GuestStart
<1>2. PICK S \in [0 .. n -> Segs] : S[n] = m.cs /\ \A k \in 1 .. n : FrameFits(k, S)
  BY <1>1, GuestSegments
<1>3. n \in Nat /\ n + 1 \in 1 .. MaxStack /\ MaxStack \in Nat
  BY GuestRegs DEF Push
<1>4. /\ mem' = [mem EXCEPT ![n + 1] = frame] /\ mem'[n + 1] = frame
      /\ m'.sp = n + 1 /\ At(m') = to /\ m'.cs = to.cs
      /\ \A k \in 1 .. n : mem'[k] = mem[k]
  BY <1>3, GuestRegs, EntryFacts DEF Push, GuestGoesTo, At
<1>5. UNCHANGED execVars /\ cur' = cur /\ pc' = GuestOrStop(At(m')) /\ mode' = mode /\ back' = NoExec
  BY <1>4, EntryFacts DEF GuestGoesTo, At
<1>6. pc' \in {"guest", "stop"} /\ (pc' = "stop" => StopAddr(At(m))') /\ LiveRegs' = m'
  BY <1>5 DEF GuestOrStop, StopAddr, LiveRegs
<1> DEFINE T == [k \in 0 .. n + 1 |-> IF k = n + 1 THEN to.cs ELSE S[k]]
<1>7. T \in [0 .. m'.sp -> Segs]
  BY <1>3, <1>4, EntryFacts
<1>8. \A k \in 1 .. n : FrameFits(k, T)
  <2> SUFFICES ASSUME NEW k \in 1 .. n PROVE FrameFits(k, T)
    OBVIOUS
  <2>1. T[k] = S[k] /\ T[k - 1] = S[k - 1] /\ FrameFits(k, S)
    BY <1>2, <1>3
  <2> HIDE DEF T
  <2> QED
    BY <2>1, FitsLocally
<1>9. PICK U \in [0 .. m'.sp -> Segs] : U = T
  BY <1>7
<1>10. \A k \in 1 .. n : mem[k].by # NoExec =>
           /\ result'[mem[k].by].type = result[mem[k].by].type
           /\ saved'[mem[k].by] = saved[mem[k].by]
  BY <1>5 DEF execVars
<1>11. \A k \in 1 .. n : FrameFits(k, U)'
  BY <1>3, <1>4, <1>8, <1>9, <1>10, PlacedSame, FramesFit
<1>12. ASSUME NEW x \in Nat, x = n + 1 PROVE FrameFits(x, U)'
  <2>1. U[x] = to.cs /\ U[x - 1] = m.cs
    BY <1>2, <1>3, <1>9, <1>12
  <2>2. mem'[x] = frame
    BY <1>4, <1>12
  <2> QED
    BY <2>1, <2>2, <1>1, HereInCode DEF FrameFits, FarFrame, NearFrame, NoExec
<1>13. ASSUME NEW k \in 1 .. m'.sp PROVE FrameFits(k, U)'
  <2>1. k \in 1 .. n \/ (k \in Nat /\ k = n + 1)
    BY <1>3, <1>4
  <2> QED
    BY <1>11, <1>12, <2>1
<1>14. FramesMagic' /\ StubsPlaced'
  <2>1. frame.by = NoExec
    BY DEF FarFrame, NearFrame
  <2>2. \A k \in MagicFrames' : k \in 1 .. LiveRegs.sp /\ mem'[k] = mem[k]
    BY <1>1, <1>3, <1>4, <1>6, <2>1 DEF MagicFrames, NoExec
  <2> QED
    BY <1>5, <2>2, MagicFramesSame DEF CodeInv, StubsPlaced, execVars
<1>15. U[m'.sp] = m'.cs
  BY <1>3, <1>4, <1>9
<1>16. At(m') \in GuestCode /\ (At(m') \in Stubs => mem'[m'.sp].far)
  BY <1>4, EntryFacts DEF FarFrame
<1>17. \A e \in Ctx : e # back'
  BY <1>5, CtxFacts
<1> QED
  BY <1>1, <1>5, <1>6, <1>13, <1>14, <1>15, <1>16, <1>17, GuestLands

\* The segments when the stack is left alone and the top one changes.
LEMMA MovedSegments ==
  ASSUME TypeOK, HandoverInv, NestInv, CodeInv, pc \in {"guest", "stop", "apply"},
         back = NoExec, LiveRegs' = m', UNCHANGED <<result, saved, mem>>,
         \A seg : Placed(seg) => Placed(seg)',
         m'.sp = m.sp, m'.cs \in Segs,
         m'.cs = m.cs \/ (m.sp > 0 => mem[m.sp].far)
  PROVE  /\ FramesMagic'
         /\ \E U \in [0 .. m'.sp -> Segs] :
              U[m'.sp] = m'.cs /\ \A k \in 1 .. m'.sp : FrameFits(k, U)'
<1>1. LiveRegs = m
  BY GuestStart
<1>2. PICK S \in [0 .. m.sp -> Segs] : S[m.sp] = m.cs /\ \A k \in 1 .. m.sp : FrameFits(k, S)
  BY GuestSegments
<1>3. m.sp \in Nat
  BY GuestRegs
<1>4. PICK U \in [0 .. m.sp -> Segs] : U = [S EXCEPT ![m.sp] = m'.cs]
  BY <1>2, <1>3
<1>5. \A k \in 1 .. m.sp : FrameFits(k, U)
  <2>1. CASE m'.cs = m.cs
    BY <1>2, <1>4, <2>1
  <2>2. CASE m.sp > 0 => mem[m.sp].far
    <3>1. m.sp > 0 /\ mem[m.sp].by # NoExec => result[mem[m.sp].by].type = "CALL"
      BY <1>1, <2>2, TopFarIsCall DEF CodeInv
    <3>2. PICK n \in Nat : n = m.sp
      BY <1>3
    <3> QED
      BY <1>2, <1>4, <2>2, <3>1, <3>2, TopFree
  <2> QED
    BY <2>1, <2>2
<1>6. \A k \in 1 .. m.sp : mem[k].by # NoExec =>
           /\ result'[mem[k].by].type = result[mem[k].by].type
           /\ saved'[mem[k].by] = saved[mem[k].by]
  OBVIOUS
<1>7. \A k \in 1 .. m.sp : FrameFits(k, U)'
  BY <1>3, <1>5, <1>6, FramesFit
<1>8. FramesMagic'
  <2>1. \A k \in MagicFrames' : k \in 1 .. LiveRegs.sp /\ mem'[k] = mem[k]
    BY <1>1 DEF MagicFrames
  <2> QED
    BY <2>1, MagicFramesSame
<1>9. U[m'.sp] = m'.cs /\ U \in [0 .. m'.sp -> Segs]
  BY <1>3, <1>4
<1> QED
  BY <1>7, <1>8, <1>9

\* The guest leaves the stack alone and goes on where m' says.
LEMMA CodeMove ==
  ASSUME TypeOK, TypeOK', HandoverInv, NestInv, CodeInv, pc \in {"guest", "stop", "apply"},
         back = NoExec, back' = NoExec, cur' = cur, UNCHANGED execVars, mem' = mem, StubsPlaced',
         \A seg : Placed(seg) => Placed(seg)', m'.sp = m.sp,
         m'.cs = m.cs \/ (m.sp > 0 => mem[m.sp].far),
         m'.cs \in Segs,
         pc' # "terminated" => At(m') \in GuestCode,
         At(m') \in Stubs /\ pc' # "terminated" => (m.sp > 0 => mem[m.sp].far),
         pc' \in {"guest", "stop", "terminated"},
         pc' = "stop" => StopAddr(At(m))'
  PROVE  CodeInv'
<1>1. cur = NoExec
  BY GuestStart
<1>2. LiveRegs' = m'
  BY DEF LiveRegs
<1>3. UNCHANGED <<result, saved, mem>>
  BY DEF execVars
<1>4. FramesMagic' /\ \E U \in [0 .. m'.sp -> Segs] :
        U[m'.sp] = m'.cs /\ \A k \in 1 .. m'.sp : FrameFits(k, U)'
  BY <1>2, <1>3, MovedSegments
<1>5. PICK U \in [0 .. m'.sp -> Segs] : U[m'.sp] = m'.cs /\ \A k \in 1 .. m'.sp : FrameFits(k, U)'
  BY <1>4
<1>6. \A e \in Ctx : e # back'
  BY CtxFacts
<1> QED
  BY <1>1, <1>4, <1>5, <1>6, GuestLands

\* The pager moves an overlay: the frames that return into it move along.
LEMMA CodeRelocate ==
  ASSUME TypeOK, TypeOK', HandoverInv, NestInv, CodeInv,
         NEW old \in BodySegs, NEW new \in BodySegs, GuestRelocate(old, new)
  PROVE  CodeInv'
<1> DEFINE Moved(seg) == IF seg = old THEN new ELSE seg
<1>1. pc = "guest" /\ UNCHANGED execVars /\ cur' = cur /\ back' = NoExec /\ mode' = mode
  BY DEF GuestRelocate, GuestGoesTo
<1>2. cur = NoExec /\ LiveRegs = m /\ back = NoExec
  BY <1>1, GuestStart
<1>3. PICK S \in [0 .. m.sp -> Segs] : S[m.sp] = m.cs /\ \A k \in 1 .. m.sp : FrameFits(k, S)
  BY <1>1, <1>2, GuestSegments
<1>4. m.sp \in Nat /\ m.sp <= MaxStack /\ MaxStack \in Nat
  BY GuestRegs
<1>5. m'.sp = m.sp /\ m'.cs = Moved(m.cs) /\ m'.ip = m.ip /\ pc' = GuestOrStop(At(m'))
  BY DEF GuestRelocate, GuestGoesTo
<1>6. pc' \in {"guest", "stop"} /\ (pc' = "stop" => StopAddr(At(m))') /\ LiveRegs' = m'
  <2>1. pc' \in {"guest", "stop"} /\ (pc' = "stop" => StopAddr(At(m))')
    BY <1>1, <1>5 DEF GuestOrStop, StopAddr
  <2>2. LiveRegs' = m'
    BY <2>1 DEF LiveRegs
  <2> QED
    BY <2>1, <2>2
<1>7. \A k \in 1 .. m.sp :
        mem'[k] = IF mem[k].far
                  THEN FarFrame([cs |-> Moved(mem[k].cs), ip |-> mem[k].ip], mem[k].by)
                  ELSE mem[k]
  BY <1>4 DEF GuestRelocate
<1>8. \A s \in Stubs : stubMem'[s] = [cs |-> Moved(stubMem[s].cs), ip |-> stubMem[s].ip]
  BY DEF GuestRelocate
<1> HIDE DEF Moved
<1>8a. ASSUME NEW s \in Stubs
       PROVE  stubMem'[s].cs = Moved(stubMem[s].cs) /\ stubMem'[s].ip = stubMem[s].ip
  <2>1. stubMem'[s] = [cs |-> Moved(stubMem[s].cs), ip |-> stubMem[s].ip]
    BY <1>8
  <2>2. PICK x : x = Moved(stubMem[s].cs)
    OBVIOUS
  <2> QED
    BY <2>1, <2>2
<1>9. \A e \in Ctx : state[e] = "ACTIVE" /\ saved[e].cs = old => saved[e].reloc
  BY DEF GuestRelocate
<1>10. BodySegs \subseteq Segs /\ MagicSeg \notin BodySegs /\ old # MagicSeg
  BY HookCodeFacts
<1>11. ASSUME NEW seg, Placed(seg) PROVE Placed(Moved(seg))'
  <2>1. seg \in BodySegs => \E s \in Stubs : stubMem[s].cs = seg
    BY <1>11 DEF Placed
  <2>2. \E s \in Stubs : stubMem[s].cs = old
    BY DEF GuestRelocate
  <2>3. \A s \in Stubs : stubMem'[s].cs = Moved(stubMem[s].cs)
    BY <1>8a
  <2> QED
    BY <2>1, <2>2, <2>3 DEF Placed, Moved
<1>12. StubsPlaced'
  <2> SUFFICES ASSUME NEW s \in Stubs
               PROVE  \/ stubMem'[s] = NoAddr
                      \/ \E seg \in BodySegs, b \in Bodies : stubMem'[s] = [cs |-> seg, ip |-> b.ip]
    BY DEF StubsPlaced, NoAddr
  <2>1. CASE stubMem[s] = NoAddr
    BY <1>8, <1>10, <2>1 DEF NoAddr, Moved
  <2>2. ASSUME NEW seg \in BodySegs, NEW b \in Bodies, stubMem[s] = [cs |-> seg, ip |-> b.ip]
        PROVE  \E x \in BodySegs : stubMem'[s] = [cs |-> x, ip |-> b.ip]
    <3>1. stubMem'[s] = [cs |-> Moved(stubMem[s].cs), ip |-> stubMem[s].ip]
      BY <1>8
    <3>2. stubMem[s].cs = seg /\ stubMem[s].ip = b.ip
      BY <2>2
    <3>3. stubMem'[s] = [cs |-> Moved(seg), ip |-> b.ip]
      BY <3>1, <3>2, Zenon
    <3>4. Moved(seg) \in BodySegs
      BY DEF Moved
    <3> QED
      BY <3>3, <3>4
  <2>3. ASSUME \E seg \in BodySegs, b \in Bodies : stubMem[s] = [cs |-> seg, ip |-> b.ip]
        PROVE  \E seg \in BodySegs, b \in Bodies : stubMem'[s] = [cs |-> seg, ip |-> b.ip]
    <3>1. PICK seg \in BodySegs, b \in Bodies : stubMem[s] = [cs |-> seg, ip |-> b.ip]
      BY <2>3
    <3>2. PICK x \in BodySegs : stubMem'[s] = [cs |-> x, ip |-> b.ip]
      BY <2>2, <3>1
    <3> QED
      BY <3>2
  <2>4. stubMem[s] = NoAddr
        \/ \E seg \in BodySegs, b \in Bodies : stubMem[s] = [cs |-> seg, ip |-> b.ip]
    BY DEF CodeInv, StubsPlaced
  <2> QED
    BY <2>1, <2>3, <2>4
<1>13. \A a \in GuestCode : [cs |-> Moved(a.cs), ip |-> a.ip] \in GuestCode
  BY CodeTypes, LayoutAssumption DEF Moved
<1>13a. ASSUME NEW k \in 1 .. m.sp
       PROVE  /\ mem'[k].by = mem[k].by /\ mem'[k].far = mem[k].far /\ mem'[k].ip = mem[k].ip
              /\ mem'[k].cs = IF mem[k].far THEN Moved(mem[k].cs) ELSE mem[k].cs
  <2>1. CASE mem[k].far
    <3>1. mem'[k] = FarFrame([cs |-> Moved(mem[k].cs), ip |-> mem[k].ip], mem[k].by)
      BY <1>7, <2>1
    <3> QED
      BY <2>1, <3>1 DEF FarFrame
  <2>2. CASE ~mem[k].far
    BY <1>7, <2>2
  <2> QED
    BY <2>1, <2>2
<1>14. ASSUME NEW h \in HookCode PROVE [cs |-> Moved(h.cs), ip |-> h.ip] \in HookCode
  <2>1. CASE h.cs = old
    <3>1. PICK seg \in BodySegs, b \in Bodies : h = [cs |-> seg, ip |-> b.ip]
      BY <2>1, LayoutAssumption DEF HookCode
    <3> QED
      BY <2>1, <3>1 DEF HookCode, Moved
  <2>2. CASE h.cs # old
    <3>1. h = [cs |-> h.cs, ip |-> h.ip]
      BY CodeTypes
    <3> QED
      BY <2>2, <3>1 DEF Moved
  <2> QED
    BY <2>1, <2>2
<1>15. ASSUME NEW e \in Suspended, NEW from, NEW to, ReturnsTo(e, from, to)
       PROVE  ReturnsTo(e, Moved(from), Moved(to))'
  <2>1. state[e] = "ACTIVE" /\ tpc[e] \in {"posted", "wait", "woken"} /\ e \in Ctx
    BY DEF Suspended
  <2>2. result[e].type = "CALL" => ~saved[e].reloc
    BY <2>1 DEF CodeInv, CallsSaved
  <2>3. saved[e].cs = old => saved[e].reloc
    BY <1>9, <2>1
  <2>4. [cs |-> Moved(to), ip |-> saved[e].ip] \in HookCode
    BY <1>14, <1>15 DEF ReturnsTo
  <2>5. Placed(Moved(to))'
    BY <1>11, <1>15 DEF ReturnsTo
  <2>6. UNCHANGED <<result, saved>>
    BY <1>1 DEF execVars
  <2>7. IF result[e].type = "CALL" THEN Moved(to) = saved[e].cs
        ELSE Moved(to) = Moved(from) /\ (saved[e].reloc \/ Moved(from) = saved[e].cs)
    BY <1>15, <2>2, <2>3 DEF ReturnsTo, Moved
  <2> QED
    BY <2>4, <2>5, <2>6, <2>7 DEF ReturnsTo
<1> DEFINE T == [k \in 0 .. m.sp |-> Moved(S[k])]
<1>16. T \in [0 .. m'.sp -> Segs]
  BY <1>3, <1>5, <1>10 DEF Moved
<1>17. PICK U \in [0 .. m'.sp -> Segs] : U = T
  BY <1>16
<1>18. ASSUME NEW k \in 1 .. m'.sp PROVE FrameFits(k, U)'
  <2>1. k \in 1 .. m.sp /\ k \in 0 .. m.sp /\ k - 1 \in 0 .. m.sp
    BY <1>4, <1>5
  <2>2. U[k] = Moved(S[k]) /\ U[k - 1] = Moved(S[k - 1]) /\ FrameFits(k, S)
    BY <1>3, <1>17, <2>1
  <2>3. mem'[k].by = mem[k].by /\ mem'[k].far = mem[k].far /\ mem'[k].ip = mem[k].ip
    BY <1>13a, <2>1
  <2>4. CASE mem[k].by = NoExec
    <3>1. U[k - 1] = IF mem'[k].far THEN mem'[k].cs ELSE U[k]
      BY <1>13a, <2>1, <2>2, <2>4 DEF FrameFits
    <3>2. [cs |-> U[k - 1], ip |-> mem[k].ip] \in GuestCode /\ mem[k].ip = After(mem[k].ip)
      BY <1>13, <2>2, <2>4 DEF FrameFits
    <3> HIDE DEF T
    <3> QED
      BY <2>3, <2>4, <3>1, <3>2 DEF FrameFits, NoExec
  <2>5. CASE mem[k].by # NoExec
    <3>1. PICK e \in Suspended : e = mem[k].by
      BY <1>2, <2>1, <2>5, MagicFramesType
    <3>2. ReturnsTo(e, S[k], S[k - 1])
      BY <2>2, <2>5, <3>1 DEF FrameFits
    <3>3. PICK x, y : x = U[k] /\ y = U[k - 1]
      OBVIOUS
    <3>4. ReturnsTo(e, x, y)'
      BY <1>15, <2>2, <3>2, <3>3
    <3>5. mem'[k].by = e /\ e # NoExec
      BY <2>3, <2>5, <3>1
    <3> HIDE DEF T
    <3> QED
      BY <3>3, <3>4, <3>5 DEF FrameFits, NoExec
  <2> QED
    BY <2>4, <2>5
<1>19. FramesMagic'
  <2> SUFFICES ASSUME NEW k \in MagicFrames' PROVE (mem[k] = MagicFrame(mem[k].by))'
    BY DEF FramesMagic
  <2>1. k \in 1 .. m.sp /\ mem'[k].by # NoExec
    BY <1>5, <1>6 DEF MagicFrames, NoExec
  <2>2. mem'[k].by = mem[k].by
    BY <1>13a, <2>1
  <2>3. PICK e \in Ctx : e = mem[k].by
    BY <1>2, <2>1, <2>2, MagicFramesType
  <2>4. mem[k] = MagicFrame(e)
    BY <1>2, <2>1, <2>2, <2>3, MagicFramesType
  <2>5. mem'[k] = mem[k]
    <3>1. CASE mem[k].far
      <4>1. mem[k] = FarFrame(FarMagic(e), e)
        BY <2>4, <3>1 DEF MagicFrame, NearFrame
      <4>2. mem[k].cs = MagicSeg /\ mem[k].ip = e /\ mem[k].by = e
        BY <4>1 DEF FarFrame, FarMagic
      <4>3. mem'[k] = FarFrame([cs |-> MagicSeg, ip |-> e], e)
        BY <1>7, <1>10, <2>1, <3>1, <4>2 DEF Moved
      <4> QED
        BY <4>1, <4>3 DEF FarMagic
    <3>2. CASE ~mem[k].far
      BY <1>7, <2>1, <3>2
    <3> QED
      BY <3>1, <3>2
  <2>6. MagicFrame(e)' = MagicFrame(e)
    BY <1>1 DEF MagicFrame, FarFrame, NearFrame, FarMagic, NearMagicIp, execVars
  <2> QED
    BY <2>3, <2>4, <2>5, <2>6
<1>20. U[m'.sp] = m'.cs
  BY <1>3, <1>4, <1>5, <1>17
<1>21. At(m) \in GuestCode
  BY <1>1, <1>2, HereInCode
<1>22. At(m') = [cs |-> Moved(At(m).cs), ip |-> At(m).ip]
  BY <1>5 DEF At
<1>23. At(m') \in GuestCode
  BY <1>13, <1>21, <1>22
<1>24. ASSUME At(m') \in Stubs, m'.sp > 0 PROVE mem'[m'.sp].far
  <2>1. m'.cs \notin BodySegs
    BY <1>24, LayoutAssumption DEF At
  <2>2. At(m') = At(m)
    BY <1>5, <2>1 DEF At, Moved
  <2>3. mem[m.sp].far
    BY <1>1, <1>2, <1>5, <1>24, <2>2 DEF CodeInv, CodeHere, TopFar
  <2> QED
    BY <1>4, <1>5, <1>13a, <1>24, <2>3
<1>25. \A e \in Ctx : e # back'
  BY <1>1, CtxFacts
<1> QED
  BY <1>1, <1>2, <1>6, <1>12, <1>18, <1>19, <1>20, <1>23, <1>24, <1>25, GuestLands

LEMMA CodeGuest ==
  ASSUME TypeOK, TypeOK', HandoverInv, NestInv, CodeInv, Guest PROVE CodeInv'
<1>1. pc = "guest" /\ cur' = cur /\ UNCHANGED <<execVars, mode>>
  BY DEF Guest, GuestCallFar, GuestCallNear, GuestJump, GuestRet, GuestPageIn,
         GuestRelocate, GuestGoesTo
<1>2. cur = NoExec /\ LiveRegs = m /\ back = NoExec
  BY <1>1, GuestStart
<1>3. ASSUME NEW r, NEW by, GuestGoesTo(r, by)
      PROVE  pc' \in {"guest", "stop"} /\ (pc' = "stop" => StopAddr(At(m))')
  BY <1>3 DEF GuestGoesTo, GuestOrStop, StopAddr
<1>4. ASSUME NEW to \in Fns \cup Hooks \cup Stubs, GuestCallFar(to) PROVE CodeInv'
  BY <1>1, <1>4, CodePush DEF GuestCallFar
<1>5. ASSUME NEW to \in Fns \cup Hooks, GuestCallNear(to) PROVE CodeInv'
  <2>1. to \notin Stubs /\ to \in Fns \cup Hooks \cup Stubs
    BY EntryFacts
  <2> QED
    BY <1>1, <1>5, <2>1, CodePush DEF GuestCallNear
<1>6. ASSUME NEW to \in Fns \cup Hooks \cup Stubs, GuestJump(to) PROVE CodeInv'
  <2>1. /\ m' = [cs |-> to.cs, ip |-> to.ip, sp |-> m.sp] /\ back' = NoExec
        /\ UNCHANGED <<mem, stubMem>> /\ m.sp > 0
        /\ mem[m.sp].far \/ (to.cs = m.cs /\ to \notin Stubs)
    BY <1>6 DEF GuestJump, GuestGoesTo
  <2>2. At(m') = to
    BY <2>1, EntryFacts DEF At
  <2>3. pc' \in {"guest", "stop"} /\ (pc' = "stop" => StopAddr(At(m))')
    BY <1>3, <1>6 DEF GuestJump
  <2>4. StubsPlaced'
    BY <2>1 DEF CodeInv, StubsPlaced
  <2> QED
    BY <1>1, <1>2, <2>1, <2>2, <2>3, <2>4, CodeMove, PlacedSame, EntryFacts
<1>7. CASE GuestRet
  BY <1>1, <1>7, CodePop DEF GuestRet, GuestGoesTo
<1>8. ASSUME NEW body \in Bodies, GuestPageIn(body) PROVE CodeInv'
  <2>1. /\ m' = m /\ back' = NoExec /\ mem' = mem /\ At(m) \in Stubs
        /\ stubMem[At(m)] = NoAddr /\ stubMem' = [stubMem EXCEPT ![At(m)] = body]
    BY <1>8 DEF GuestPageIn, GuestGoesTo
  <2>2. pc' \in {"guest", "stop"} /\ (pc' = "stop" => StopAddr(At(m))')
    BY <1>3, <1>8 DEF GuestPageIn
  <2>3. stubMem \in [Stubs -> Addr]
    BY DEF TypeOK
  <2>4. body.cs \in BodySegs /\ body = [cs |-> body.cs, ip |-> body.ip]
    BY ConstantTypes DEF BodySegs, Addr
  <2>5. StubsPlaced'
    <3>1. \A s \in Stubs : stubMem'[s] = stubMem[s] \/ stubMem'[s] = body
      BY <2>1, <2>3
    <3> QED
      BY <2>4, <3>1 DEF CodeInv, StubsPlaced, NoAddr
  <2>6. ASSUME NEW seg, Placed(seg) PROVE Placed(seg)'
    <3>1. \A s \in Stubs : s # At(m) => stubMem'[s] = stubMem[s]
      BY <2>1, <2>3
    <3>2. stubMem[At(m)].cs = MagicSeg
      BY <2>1 DEF NoAddr
    <3> QED
      BY <2>6, <3>1, <3>2, HookCodeFacts DEF Placed
  <2>7. At(m) \in GuestCode /\ (m.sp > 0 => mem[m.sp].far)
    BY <1>1, <1>2, <2>1 DEF CodeInv, CodeHere, TopFar
  <2>8. m'.cs \in Segs
    BY <1>1, <1>2, <2>1, HereInCode
  <2> QED
    BY <1>1, <1>2, <2>1, <2>2, <2>5, <2>6, <2>7, <2>8, CodeMove
<1> QED
  BY <1>4, <1>5, <1>6, <1>7, <1>8, CodeRelocate DEF Guest

---------------------------------------------------------------------------
(* Steps of the host keep the segments *)

LEMMA CodeAbort ==
  ASSUME TypeOK, HandoverInv, NestInv, CodeInv,
         UNCHANGED <<m, mem, overlayVars, pc, cur, res, execVars, mode, back>>
  PROVE  CodeInv'
<1>1. LiveRegs' = LiveRegs /\ \A e : Resumed(e)' <=> Resumed(e)
  BY DEF LiveRegs, Resumed, execVars
<1>2. ReturnSegments' /\ FramesMagic' /\ StubsPlaced'
  BY <1>1, SegmentsSame DEF overlayVars, execVars
<1>3. CallsSaved' /\ ResultsFit'
  BY <1>1 DEF CodeInv, CallsSaved, ResultsFit, ResultFits, execVars
<1>4. CodeHere'
  <2>1. HookHasMachine' <=> HookHasMachine
    BY <1>1 DEF HookHasMachine, Resumed, execVars
  <2>2. TopFar' <=> TopFar
    BY <1>1 DEF TopFar
  <2>3. \A e \in Ctx : AtMagic(e, m)' <=> AtMagic(e, m)
    BY DEF AtMagic, At, FarMagic, NearMagicIp, execVars
  <2>4. At(m)' = At(m) /\ At(LiveRegs)' = At(LiveRegs) /\ (Placed(LiveRegs.cs)' <=> Placed(LiveRegs.cs))
    BY <1>1 DEF At, Placed, overlayVars
  <2>5. StopAddr(At(m))' <=> StopAddr(At(m))
    BY DEF StopAddr, At
  <2> QED
    BY <1>1, <2>1, <2>2, <2>3, <2>4, <2>5 DEF CodeInv, CodeHere, NoExec
<1> QED
  BY <1>2, <1>3, <1>4 DEF CodeInv

LEMMA CodeRunBegin ==
  ASSUME TypeOK, HandoverInv, NestInv, CodeInv, back = NoExec, RunBegin PROVE CodeInv'
<1> USE CtxFacts
<1>1. /\ pc = "stop" /\ pc' = "begin"
      /\ UNCHANGED <<mem, stubMem, result, saved, tpc, back>>
      /\ At(m) \in Hooks \/ (At(m) \in Stubs /\ stubMem[At(m)] # NoAddr)
  BY DEF RunBegin, DispatchesHook, Dispatch
<1>2. cur = NoExec /\ LiveRegs = m /\ LiveRegs' = m'
  BY <1>1, GuestStart DEF LiveRegs
<1>3. PICK e \in Ctx : execution_acquire(e) /\ cur' = e /\ state' = [state EXCEPT ![e] = "ACTIVE"]
  BY DEF RunBegin
<1>4. e # cur /\ tpc[e] = "none"
  BY <1>2, <1>3 DEF execution_acquire, Free, HandoverInv, Parked
<1>5. /\ m'.sp = m.sp /\ At(m') \in HookCode /\ Placed(m'.cs)
      /\ m'.cs = m.cs \/ (m.sp > 0 => mem[m.sp].far)
  <2>1. CASE At(m) \notin Stubs
    <3>1. m' = m /\ At(m) \in Hooks
      BY <1>1, <2>1 DEF RunBegin
    <3>2. m.cs \notin BodySegs
      BY <3>1, LayoutAssumption DEF At
    <3> QED
      BY <3>1, <3>2 DEF HookCode, Placed
  <2>2. CASE At(m) \in Stubs
    <3>1. At(m) \notin Hooks
      BY <2>2, LayoutAssumption
    <3>2. PICK seg \in BodySegs, b \in Bodies : stubMem[At(m)] = [cs |-> seg, ip |-> b.ip]
      BY <1>1, <2>2, <3>1 DEF CodeInv, StubsPlaced
    <3>3. m' = [cs |-> seg, ip |-> b.ip, sp |-> m.sp]
      BY <2>2, <3>2 DEF RunBegin
    <3>4. At(m') = [cs |-> seg, ip |-> b.ip]
      BY <3>3 DEF At
    <3>5. m.sp > 0 => mem[m.sp].far
      BY <1>1, <1>2, <2>2 DEF CodeInv, CodeHere, TopFar
    <3>6. Placed(m'.cs)
      BY <2>2, <3>2, <3>3 DEF Placed
    <3> QED
      BY <3>3, <3>4, <3>5, <3>6 DEF HookCode
  <2> QED
    BY <2>1, <2>2
<1>6. m'.cs \in Segs
  BY <1>5 DEF At, Segs
<1>7. FramesMagic' /\ \E U \in [0 .. m'.sp -> Segs] :
        U[m'.sp] = m'.cs /\ \A k \in 1 .. m'.sp : FrameFits(k, U)'
  BY <1>1, <1>2, <1>5, <1>6, PlacedSame, MovedSegments
<1>8. PICK U \in [0 .. m'.sp -> Segs] : U[m'.sp] = m'.cs /\ \A k \in 1 .. m'.sp : FrameFits(k, U)'
  BY <1>7
<1>9. \A d \in Ctx : ~Resumed(d)'
  <2>1. \A d \in Ctx : d = cur' => tpc'[d] = "none"
    BY <1>1, <1>3, <1>4
  <2> QED
    BY <1>1, <2>1 DEF Resumed
<1>10. ReturnSegments'
  <2>1. SegmentsFit(U)'
    BY <1>2, <1>8, <1>9 DEF SegmentsFit
  <2> QED
    BY <1>2, <2>1 DEF ReturnSegments
<1>11. CallsSaved'
  BY <1>1, <1>3, <1>4 DEF CodeInv, CallsSaved, TypeOK
<1>12. CodeHere'
  <2>1. At(LiveRegs)' \in HookCode /\ Placed(LiveRegs.cs)'
    BY <1>1, <1>2, <1>5, PlacedSame DEF At
  <2> QED
    BY <1>1, <1>9, <2>1 DEF CodeHere
<1>13. ResultsFit' /\ StubsPlaced'
  BY <1>1 DEF ResultsFit, CodeInv, StubsPlaced
<1> QED
  BY <1>7, <1>10, <1>11, <1>12, <1>13 DEF CodeInv

LEMMA CodeDispatch ==
  ASSUME TypeOK, TypeOK', HandoverInv, NestInv, CodeInv, HostDispatch PROVE CodeInv'
<1> USE CtxFacts DEF Dispatch
<1>0. pc = "stop" /\ cur = NoExec /\ LiveRegs = m /\ ReturnsRecognised
  BY GuestStart, Recognised
     DEF HostDispatch, TrackFails, CaptureState, RestoreState, ResumeGuest, TryResume,
         RunBegin, DispatchesHook, RunBeginFails
<1>2. CASE TrackFails \/ CaptureState \/ RunBeginFails
  BY <1>2, CodeAbort DEF TrackFails, CaptureState, RunBeginFails, Abort
<1>3. CASE RestoreState
  <2>1. /\ UNCHANGED <<execVars, cur, back, stubMem>> /\ pc' = "guest" /\ mode = "RESTORE"
        /\ m' = [cs |-> CaptureAddr.cs, ip |-> After(CaptureAddr.ip), sp |-> 0]
    BY <1>3 DEF RestoreState, overlayVars
  <2>2. back = NoExec
    BY <1>0, <2>1, NotReturning
  <2>3. At(m') \in GuestCode
    BY <2>1 DEF At, GuestCode
  <2>4. LiveRegs' = m' /\ MagicFrames' = {}
    BY <2>1 DEF LiveRegs, MagicFrames
  <2>5. FramesMagic' /\ StubsPlaced'
    BY <2>1, <2>4 DEF FramesMagic, CodeInv, StubsPlaced
  <2>6. PICK T \in [0 .. m'.sp -> Segs] : T = [k \in 0 .. m'.sp |-> m'.cs]
    <3>1. m'.cs \in Segs
      BY <2>3 DEF At, Segs
    <3> QED
      BY <3>1
  <2>7. T[m'.sp] = m'.cs /\ m'.sp = 0
    BY <2>1, <2>6
  <2>8. \A e \in Ctx : e # back'
    BY <2>1, <2>2
  <2> QED
    BY <1>0, <2>1, <2>2, <2>3, <2>5, <2>7, <2>8, GuestLands
<1>4. CASE ResumeGuest
  <2>1. back = NoExec
    BY <1>0, <1>4, NotReturning DEF ResumeGuest
  <2>2. UNCHANGED <<m, mem, stubMem, execVars, cur, mode, back>> /\ pc' = "guest"
    BY <1>4 DEF ResumeGuest, overlayVars
  <2>3. At(m) \in GuestCode /\ m.cs \in Segs
    BY <1>0, <2>1, HereInCode
  <2>4. At(m) \in Stubs => (m.sp > 0 => mem[m.sp].far)
    BY <1>0, <2>1 DEF CodeInv, CodeHere, TopFar
  <2>5. StubsPlaced'
    BY <2>2 DEF CodeInv, StubsPlaced
  <2> QED
    BY <1>0, <2>1, <2>2, <2>3, <2>4, <2>5, CodeMove, PlacedSame
<1>5. ASSUME NEW e \in Ctx, TryResume(e) PROVE CodeInv'
  <2>1. e = back
    BY <1>0, <1>5 DEF TryResume, ReturnsRecognised
  <2>2. UNCHANGED <<m, mem, stubMem, execVars>> /\ pc' = "continue" /\ cur' = e /\ back' = NoExec
    BY <1>5 DEF TryResume, overlayVars
  <2>3. LiveRegs' = LiveRegs
    BY <1>0, <2>2 DEF LiveRegs
  <2>4. \A d \in Ctx : Resumed(d)' <=> Resumed(d)
    BY <1>0, <2>1, <2>2 DEF Resumed, NoExec
  <2>5. ReturnSegments' /\ FramesMagic' /\ StubsPlaced'
    BY <2>2, <2>3, <2>4, SegmentsSame DEF execVars
  <2>6. CallsSaved' /\ ResultsFit'
    BY <2>2 DEF CodeInv, CallsSaved, ResultsFit, execVars
  <2>7. CodeHere'
    <3>1. \A d \in Ctx : Resumed(d)' => AtMagic(d, m)'
      BY <1>0, <2>2, <2>4
         DEF CodeInv, CodeHere, AtMagic, At, FarMagic, NearMagicIp, execVars
    <3>2. ~HookHasMachine'
      BY <2>2 DEF HookHasMachine, Resumed
    <3> QED
      BY <2>2, <3>1, <3>2 DEF CodeHere
  <2> QED
    BY <2>5, <2>6, <2>7 DEF CodeInv
<1>6. CASE RunBegin
  <2>1. back = NoExec
    BY <1>0, <1>6, NotReturning DEF RunBegin, DispatchesHook
  <2> QED
    BY <1>6, <2>1, CodeRunBegin
<1> QED
  BY <1>2, <1>3, <1>4, <1>5, <1>6 DEF HostDispatch

LEMMA CodeApply ==
  ASSUME TypeOK, TypeOK', HandoverInv, NestInv, CodeInv, ApplyResult PROVE CodeInv'
<1>1. /\ pc = "apply" /\ UNCHANGED <<execVars, stubMem, cur, mode>>
      /\ m' = Redirected /\ res \in Results
  BY DEF ApplyResult, overlayVars, TypeOK
<1>2. cur = NoExec /\ LiveRegs = m /\ back = NoExec
  BY <1>1, GuestStart
<1>3. ResultFits(res) /\ At(m) \in HookCode
  BY <1>1, <1>2 DEF CodeInv, ResultsFit, CodeHere, HookHasMachine
<1>4. CASE res.type \in RetTypes
  <2>1. m.sp > 0 /\ (res.type = "RET_FAR" <=> mem[m.sp].far)
    BY <1>2, <1>3, <1>4 DEF ResultFits, RetTypes
  <2>2. m' = IF mem[m.sp].far THEN FarPopped(m) ELSE NearPopped(m)
    BY <1>1, <1>4, <2>1 DEF Redirected, RetTypes, FarPopped, NearPopped
  <2>3. mem' = Forget(m.sp) /\ back' = mem[m.sp].by /\ pc' = GuestOrStop(At(m'))
    BY <1>4 DEF ApplyResult, RetTypes
  <2> QED
    BY <1>1, <2>1, <2>2, <2>3, CodePop
<1>5. CASE res.type \notin RetTypes
  <2>1. back' = NoExec /\ mem' = mem /\ m'.sp = m.sp
    BY <1>1, <1>5 DEF ApplyResult, Redirected
  <2>2. /\ pc' \in {"guest", "stop", "terminated"} /\ (pc' = "stop" => StopAddr(At(m))')
        /\ pc' = "terminated" <=> res.type = "TERMINATE"
    BY <1>1 DEF ApplyResult, GuestOrStop, StopAddr
  <2>3. StubsPlaced'
    BY <1>1 DEF CodeInv, StubsPlaced
  <2>4. CASE res.type \in {"RESUME", "TERMINATE"}
    <3>1. m' = m
      BY <1>1, <2>4, GuestRegs DEF Redirected, RetTypes, TypeOK, Regs
    <3>2. At(m) \in GuestCode /\ At(m) \notin Stubs
      BY <1>3, CodeTypes, HookCodeFacts
    <3>3. m.cs \in Segs
      BY <1>1, <1>2, HereInCode
    <3> QED
      BY <1>1, <1>2, <2>1, <2>2, <2>3, <3>1, <3>2, <3>3, CodeMove, PlacedSame
  <2>5. CASE res.type \in {"JUMP", "JUMP_NEAR", "CALL", "CALL_NEAR"}
    <3>1. /\ res.to \in Fns \cup Hooks \cup Stubs
          /\ res.to \in Stubs \/ res.to.cs # m.cs => m.sp > 0 /\ mem[m.sp].far
      BY <1>2, <1>3, <2>5, LayoutAssumption DEF ResultFits
    <3>2. m'.cs = res.to.cs /\ m'.ip = res.to.ip
      BY <1>1, <1>2, <1>3, <2>5 DEF Redirected, ResultFits, RetTypes
    <3>3. At(m') = res.to
      BY <3>1, <3>2, EntryFacts DEF At
    <3>4. res.to \in GuestCode /\ m'.cs \in Segs
      BY <3>1, <3>2, EntryFacts
    <3> QED
      BY <1>1, <1>2, <2>1, <2>2, <2>3, <3>1, <3>2, <3>3, <3>4, CodeMove, PlacedSame
  <2>6. res.type \in ResultTypes
    BY <1>1 DEF Results
  <2> QED
    BY <1>5, <2>4, <2>5, <2>6 DEF ResultTypes, RetTypes
<1> QED
  BY <1>4, <1>5

---------------------------------------------------------------------------
(* Steps of the hooks' threads keep the segments *)

\* While a hook runs: the segment of the guest's top frame is the hook's.
LEMMA HookSegments ==
  ASSUME TypeOK, HandoverInv, NestInv, CodeInv, NEW e \in Ctx, tpc[e] = "run"
  PROVE  /\ cur = e /\ pc = "wait" /\ state[e] = "ACTIVE" /\ LiveRegs = machine[e] /\ back = NoExec
         /\ \A d \in Ctx : ~Resumed(d)
         /\ At(machine[e]) \in HookCode /\ Placed(machine[e].cs)
<1>1. cur = e /\ Stage(e)
  BY DEF HandoverInv, Parked
<1>2. pc = "wait" /\ state[e] = "ACTIVE"
  BY <1>1 DEF Stage
<1>3. LiveRegs = machine[e]
  BY <1>1, <1>2 DEF LiveRegs
<1>4. back = NoExec
  BY <1>2 DEF NestInv, FramesInOrder
<1>5. \A d \in Ctx : ~Resumed(d)
  BY <1>1, <1>2, <1>4, CtxFacts DEF Resumed
<1>6. HookHasMachine
  BY <1>1, <1>2, <1>5 DEF HookHasMachine, HandoverPcs, HostPcs
<1> QED
  BY <1>1, <1>2, <1>3, <1>4, <1>5, <1>6 DEF CodeInv, CodeHere

\* The call seams: the hook's frame joins the magic ones.
LEMMA CodePost ==
  ASSUME TypeOK, TypeOK', HandoverInv, NestInv, CodeInv, NEW e \in Ctx, tpc[e] = "run",
         NEW frame, NEW type \in CallTypes, NEW to \in Fns \cup Hooks \cup Stubs, NEW reloc,
         PostCall(e, e, frame, type, to, reloc),
         frame = (IF type = "CALL" THEN FarFrame(FarMagic(e), e) ELSE NearFrame(NearMagicIp(e), e)),
         type = "CALL_NEAR" => to \in Fns \cup Hooks /\ to.cs = machine[e].cs,
         reloc => type = "CALL_NEAR" /\ TRUE \in RelocChoices
  PROVE  CodeInv'
<1> DEFINE n == machine[e].sp
           seg == machine[e].cs
<1> USE CtxFacts
<1>0. /\ cur = e /\ pc = "wait" /\ state[e] = "ACTIVE" /\ LiveRegs = machine[e] /\ back = NoExec
      /\ \A d \in Ctx : ~Resumed(d)
      /\ At(machine[e]) \in HookCode /\ Placed(seg)
  BY HookSegments
<1>1. /\ cur' = e /\ pc' = "woken" /\ LiveRegs' = machine'[e]
      /\ machine'[e] = [cs |-> seg, ip |-> machine[e].ip, sp |-> n + 1]
      /\ n + 1 \in 1 .. MaxStack /\ n \in Nat
      /\ mem'[n + 1] = frame
      /\ \A k \in 1 .. n : mem'[k] = mem[k]
  BY PostRegs, Zenon
<1>2. /\ UNCHANGED <<stubMem, state, back, mode>>
      /\ tpc' = [tpc EXCEPT ![e] = "posted"]
      /\ saved' = [saved EXCEPT ![e] = [cs |-> seg, ip |-> machine[e].ip, reloc |-> reloc]]
      /\ result' = [result EXCEPT ![e] = Result(type, to, 0)]
  BY DEF PostCall, overlayVars
<1>3. /\ result'[e] = Result(type, to, 0) /\ result'[e].type = type /\ tpc'[e] = "posted"
      /\ saved'[e] = [cs |-> seg, ip |-> machine[e].ip, reloc |-> reloc]
      /\ \A d \in Ctx \ {e} : /\ result'[d] = result[d] /\ saved'[d] = saved[d]
                              /\ tpc'[d] = tpc[d] /\ state'[d] = state[d]
  BY <1>2 DEF TypeOK, Result
<1>4. e \notin Suspended
  BY DEF Suspended
<1>5. PICK S \in [0 .. n -> Segs] : S[n] = seg /\ \A k \in 1 .. n : FrameFits(k, S)
  <2>1. PICK S \in [0 .. LiveRegs.sp -> Segs] : SegmentsFit(S)
    BY DEF CodeInv, ReturnSegments
  <2> QED
    BY <1>0, <2>1 DEF SegmentsFit
<1>6. At(machine[e]) = [cs |-> seg, ip |-> machine[e].ip] /\ seg \in HookSegs /\ seg \in Segs
  BY <1>0, HookCodeFacts DEF At, HookSegs
<1> DEFINE T == [k \in 0 .. n + 1 |-> IF k = n + 1 THEN seg ELSE S[k]]
<1>7. T \in [0 .. n + 1 -> Segs]
  BY <1>1, <1>6
<1>8. PICK U : U = T
  OBVIOUS
<1>9. U \in [0 .. LiveRegs'.sp -> Segs] /\ U[n + 1] = seg /\ U[n] = seg
  BY <1>1, <1>5, <1>7, <1>8
<1>10. \A k \in 1 .. n : FrameFits(k, U)
  <2> SUFFICES ASSUME NEW k \in 1 .. n PROVE FrameFits(k, U)
    OBVIOUS
  <2>1. U[k] = S[k] /\ U[k - 1] = S[k - 1] /\ FrameFits(k, S)
    BY <1>1, <1>5, <1>8
  <2> QED
    BY <2>1, FitsLocally
<1>11. \A k \in 1 .. n : mem[k].by # NoExec =>
         mem[k].by \in Ctx \ {e} /\ mem[k] = MagicFrame(mem[k].by)
  BY <1>0, <1>4, MagicFramesType
<1>12. \A k \in 1 .. n : FrameFits(k, U)'
  <2>1. \A k \in 1 .. n : mem[k].by # NoExec =>
           /\ result'[mem[k].by].type = result[mem[k].by].type
           /\ saved'[mem[k].by] = saved[mem[k].by]
    BY <1>3, <1>11
  <2> QED
    BY <1>1, <1>2, <1>10, <2>1, PlacedSame, FramesFit
<1>13. frame.by = e
  BY DEF FarFrame, NearFrame
<1>14. ASSUME NEW x \in Nat, x = n + 1 PROVE FrameFits(x, U)'
  <2>1. mem'[x] = frame /\ U[x] = seg /\ U[x - 1] = seg
    BY <1>1, <1>9, <1>14
  <2>2. PICK s : s = seg
    OBVIOUS
  <2>3. Placed(s)'
    BY <1>0, <1>2, <2>2, PlacedSame
  <2>4. ReturnsTo(e, s, s)'
    BY <1>0, <1>3, <1>6, <2>2, <2>3 DEF ReturnsTo
  <2> QED
    BY <1>13, <2>1, <2>2, <2>4 DEF FrameFits, NoExec
<1>15. ASSUME NEW k \in 1 .. LiveRegs'.sp PROVE FrameFits(k, U)'
  <2>1. k \in 1 .. n \/ (k \in Nat /\ k = n + 1)
    BY <1>1
  <2> QED
    BY <1>12, <1>14, <2>1
<1>16. \A d \in Ctx : ~Resumed(d)'
  <2>1. ~Resumed(e)'
    BY <1>0, <1>1, <1>2, <1>3 DEF Resumed, NoExec
  <2>2. \A d \in Ctx : d # e => ~Resumed(d)'
    BY <1>0, <1>1, <1>2 DEF Resumed, NoExec
  <2> QED
    BY <2>1, <2>2
<1>17. ReturnSegments'
  <2>1. SegmentsFit(U)'
    BY <1>1, <1>9, <1>15, <1>16 DEF SegmentsFit
  <2> QED
    BY <1>9, <2>1 DEF ReturnSegments
<1>18. FramesMagic'
  <2> SUFFICES ASSUME NEW k \in MagicFrames' PROVE (mem[k] = MagicFrame(mem[k].by))'
    BY DEF FramesMagic
  <2>1. k \in 1 .. n \/ k = n + 1
    BY <1>1 DEF MagicFrames
  <2>2. CASE k = n + 1
    <3>1. frame = MagicFrame(e)'
      BY <1>3 DEF MagicFrame, FarFrame, NearFrame, FarMagic, NearMagicIp
    <3>2. mem'[k] = frame
      BY <1>1, <2>2
    <3> QED
      BY <1>13, <3>1, <3>2
  <2>3. CASE k \in 1 .. n
    <3>1. mem'[k] = mem[k] /\ mem[k].by # NoExec
      BY <1>1, <2>3 DEF MagicFrames, NoExec
    <3>2. PICK d \in Ctx \ {e} : d = mem[k].by /\ mem[k] = MagicFrame(d)
      BY <1>11, <2>3, <3>1
    <3>3. MagicFrame(d)' = MagicFrame(d)
      BY <1>3 DEF MagicFrame, FarFrame, NearFrame, FarMagic, NearMagicIp
    <3> QED
      BY <3>1, <3>2, <3>3
  <2> QED
    BY <2>1, <2>2, <2>3
<1>19. CallsSaved'
  <2> SUFFICES ASSUME NEW d \in Ctx, state'[d] = "ACTIVE", tpc'[d] \in {"posted", "wait", "woken"}
               PROVE  /\ result'[d].type \in CallTypes
                      /\ saved'[d].reloc => result'[d].type = "CALL_NEAR" /\ TRUE \in RelocChoices
                      /\ saved'[d].cs \in HookSegs
    BY DEF CallsSaved
  <2>1. CASE d = e
    <3>1. saved'[e].reloc = reloc /\ saved'[e].cs = seg
      BY <1>3
    <3> QED
      BY <1>3, <1>6, <2>1, <3>1
  <2>2. CASE d # e
    BY <1>3, <2>2 DEF CodeInv, CallsSaved
  <2> QED
    BY <2>1, <2>2
<1>20. StubsPlaced'
  BY <1>2 DEF CodeInv, StubsPlaced
<1>21. CodeHere'
  <2>1. At(LiveRegs)' \in HookCode
    BY <1>0, <1>1, <1>6 DEF At
  <2>2. Placed(LiveRegs.cs)'
    <3>1. PICK s : s = seg
      OBVIOUS
    <3>2. Placed(s)'
      BY <1>0, <1>2, <3>1, PlacedSame
    <3> QED
      BY <1>1, <3>1, <3>2
  <2> QED
    BY <1>1, <1>16, <2>1, <2>2 DEF CodeHere
<1>22. ResultsFit'
  <2>1. ResultFits(result[cur])'
    <3>1. mem'[LiveRegs'.sp] = frame /\ LiveRegs'.sp > 0 /\ LiveRegs'.cs = seg
      BY <1>1
    <3>2. type = "CALL" => frame.far
      BY DEF FarFrame
    <3>3. (result[cur])' = [type |-> type, to |-> to, code |-> 0]
      BY <1>1, <1>3 DEF Result
    <3> QED
      BY <3>1, <3>2, <3>3 DEF ResultFits, CallTypes
  <2> QED
    BY <1>1, <2>1 DEF ResultsFit
<1> QED
  BY <1>17, <1>18, <1>19, <1>20, <1>21, <1>22 DEF CodeInv

\* A hook's thread is woken: what the context has saved takes the hook back
\* to where it called from.
LEMMA CodeResume ==
  ASSUME TypeOK, TypeOK', HandoverInv, NestInv, CodeInv, NEW e \in Ctx, ThreadResume(e)
  PROVE  /\ result[e].type = "CALL_NEAR" /\ ~saved[e].reloc => machine[e].cs = saved[e].cs
         /\ CodeInv'
<1> DEFINE near == result[e].type = "CALL_NEAR"
           r == SavedRegs(e, near)
<1> USE CtxFacts
<1>1. /\ cur = e /\ Stage(e) /\ tpc[e] = "woken" /\ mutex[e] = "free"
  BY DEF ThreadResume, HandoverInv, Parked
<1>2. pc = "wait" /\ state[e] = "ACTIVE" /\ LiveRegs = machine[e] /\ Resumed(e)
  <2>1. pc = "wait" /\ state[e] = "ACTIVE"
    BY <1>1 DEF Stage
  <2> QED
    BY <1>1, <2>1 DEF LiveRegs, Resumed
<1>3. back = NoExec /\ result[e].type \in CallTypes
  BY <1>1, <1>2 DEF NestInv, FramesInOrder, CodeInv, CallsSaved
<1>4. PICK S \in [0 .. machine[e].sp -> Segs] : SegmentsFit(S)
  BY <1>2 DEF CodeInv, ReturnSegments
<1>5. ReturnsTo(e, machine[e].cs, S[machine[e].sp])
  BY <1>2, <1>4 DEF SegmentsFit
<1>6. near /\ ~saved[e].reloc => machine[e].cs = saved[e].cs
  BY <1>5 DEF ReturnsTo
<1>7. Restored(e, e, r)
  BY <1>6 DEF ThreadResume
<1>8. /\ machine' = [machine EXCEPT ![e] = r] /\ tpc' = [tpc EXCEPT ![e] = "run"]
      /\ UNCHANGED <<m, mem, stubMem, pc, cur, res, state, result, saved, mode, back>>
  BY <1>7 DEF Restored, overlayVars
<1>9. /\ machine'[e] = r /\ tpc'[e] = "run" /\ LiveRegs' = r
      /\ \A d \in Ctx \ {e} : tpc'[d] = tpc[d]
  <2>1. machine'[e] = r /\ tpc'[e] = "run" /\ \A d \in Ctx \ {e} : tpc'[d] = tpc[d]
    BY <1>8 DEF TypeOK
  <2>2. LiveRegs' = machine'[e]
    BY <1>1, <1>2, <1>8 DEF LiveRegs
  <2> QED
    BY <2>1, <2>2
<1>10. r.sp = machine[e].sp /\ r.cs = S[machine[e].sp] /\ r.ip = saved[e].ip /\ r.sp \in Nat
  <2>1. machine[e].sp \in Nat
    BY ConstantTypes DEF TypeOK, Regs
  <2> QED
    BY <1>3, <1>5, <2>1 DEF SavedRegs, ReturnsTo, CallTypes
<1>11. At(r) \in HookCode /\ Placed(r.cs)
  BY <1>5, <1>10 DEF ReturnsTo, At
<1>12. \A d \in Ctx : ~Resumed(d)'
  BY <1>1, <1>2, <1>3, <1>8, <1>9 DEF Resumed, NoExec
<1>13. \A k \in 1 .. r.sp : FrameFits(k, S)'
  <2>1. \A k \in 1 .. r.sp : FrameFits(k, S)
    BY <1>2, <1>4, <1>10 DEF SegmentsFit
  <2>2. PICK x \in Nat : x = r.sp
    BY <1>10
  <2> HIDE DEF r
  <2> QED
    BY <1>8, <2>1, <2>2, PlacedSame, FramesFit
<1>14. ReturnSegments'
  <2> HIDE DEF r
  <2>1. SegmentsFit(S)'
    BY <1>9, <1>10, <1>12, <1>13 DEF SegmentsFit
  <2> QED
    BY <1>9, <1>10, <2>1 DEF ReturnSegments
<1>15. FramesMagic'
  <2> HIDE DEF r
  <2>1. \A k \in MagicFrames' : k \in 1 .. LiveRegs.sp /\ mem'[k] = mem[k]
    BY <1>2, <1>8, <1>9, <1>10 DEF MagicFrames
  <2> QED
    BY <1>8, <2>1, MagicFramesSame
<1>16. CallsSaved' /\ StubsPlaced' /\ ResultsFit'
  BY <1>2, <1>8, <1>9 DEF CodeInv, CallsSaved, StubsPlaced, ResultsFit
<1>17. CodeHere'
  <2> HIDE DEF r
  <2>1. PICK q : q = r
    OBVIOUS
  <2>2. Placed(q.cs)'
    BY <1>8, <1>11, <2>1, PlacedSame
  <2>3. At(LiveRegs)' \in HookCode /\ Placed(LiveRegs.cs)'
    BY <1>9, <1>11, <2>1, <2>2 DEF At
  <2> QED
    BY <1>2, <1>8, <1>12, <2>3 DEF CodeHere
<1> QED
  BY <1>6, <1>14, <1>15, <1>16, <1>17 DEF CodeInv

\* What a hook returns fits the frame it was called with.
LEMMA ReturnsFit ==
  ASSUME TypeOK, HandoverInv, NEW e \in Ctx, LiveRegs = machine[e], NEW r \in Returns(e)
  PROVE  ResultFits(r) /\ r.type \notin CallTypes
<1>1. machine[e].sp \in Nat /\ NoResult.type = "RESUME"
  BY ConstantTypes DEF TypeOK, Regs, NoResult
<1>2. CASE r = NoResult
  BY <1>1, <1>2 DEF ResultFits, CallTypes
<1>3. CASE r # NoResult
  BY <1>3 DEF Returns, ResultFits, Result, CallTypes
<1> QED
  BY <1>2, <1>3

\* A step of the thread of context e that changes no registers.
MovesOn(e) ==
  /\ pc \in {"wait", "woken"} /\ pc' \in {"wait", "woken"}
  /\ UNCHANGED <<cur, mem, stubMem, back, machine, saved>>
  /\ \A d \in Ctx : d # e => /\ state'[d] = state[d] /\ tpc'[d] = tpc[d]
                             /\ result'[d] = result[d]
  /\ tpc[e] # "woken" /\ tpc'[e] # "woken"
  /\ e \in Suspended => result'[e] = result[e]
  /\ state'[e] = "ACTIVE" /\ tpc'[e] \in {"posted", "wait"} =>
       state[e] = "ACTIVE" /\ tpc[e] \in {"posted", "wait"}
  /\ pc' = "woken" => ResultFits(result'[e])

LEMMA CodeThread ==
  ASSUME TypeOK, TypeOK', HandoverInv, NestInv, CodeInv, NEW e \in Ctx,
         ThreadHandover(e) \/ HookStep(e)
  PROVE  CodeInv'
<1> USE CtxFacts
<1>1. /\ cur = e /\ Stage(e) /\ cur # NoExec
      /\ pc \in {"wait", "woken"} \/ (pc = "enter wait" /\ tpc[e] \in {"start", "woken"} /\ mutex[e] = "main")
      /\ tpc[e] = "run" => thread_active = e
  BY CtxFacts
     DEF HandoverInv, Parked, Stage, ThreadHandover, HookStep, ThreadStart, ThreadWait,
         ThreadResume, ThreadExit, hydra_impl_call_far, hydra_impl_call_near_off,
         ThreadReturn
<1>2. back = NoExec /\ pc \in HandoverPcs
  BY <1>1 DEF NestInv, FramesInOrder, HandoverPcs, HostPcs
<1>3. ASSUME NEW r, Abort(r) PROVE CodeInv'
  BY <1>3, CodeAbort DEF Abort
<1>4. ASSUME MovesOn(e) PROVE CodeInv'
  <2> USE DEF MovesOn
  <2>1. LiveRegs' = LiveRegs
    BY <1>4 DEF LiveRegs
  <2>2. \A d \in Ctx : Resumed(d)' <=> Resumed(d)
    BY <1>1, <1>4 DEF Resumed, NoExec
  <2>3. ~Resumed(e)
    BY <1>1, <1>2, <1>4 DEF Resumed
  <2>4. \A d \in Ctx : d \in Suspended \/ Resumed(d) =>
          result'[d] = result[d] /\ saved'[d] = saved[d]
    BY <1>4, <2>3
  <2>5. \A d \in Ctx : state'[d] = "ACTIVE" /\ tpc'[d] \in {"posted", "wait", "woken"} =>
          state[d] = "ACTIVE" /\ tpc[d] \in {"posted", "wait", "woken"}
    BY <1>4
  <2>6. HandsOver
    BY <1>1, <1>4, <2>1, <2>2, <2>4, <2>5 DEF HandsOver, HandoverPcs, HostPcs
  <2> QED
    BY <1>1, <1>2, <2>6, CodeHandover
<1>5a. tpc \in [Ctx -> ThreadPcs] /\ state \in [Ctx -> ExecStates] /\ result \in [Ctx -> Results]
  BY DEF TypeOK
<1>5. CASE ThreadStart(e)
  <2>1. pc = "wait" /\ tpc[e] = "start" /\ tpc' = [tpc EXCEPT ![e] = "run"]
    BY <1>1, <1>5 DEF ThreadStart, Stage
  <2>2. UNCHANGED <<pc, cur, mem, stubMem, back, machine, saved, state, result>>
    BY <1>5 DEF ThreadStart, overlayVars
  <2>3. tpc'[e] = "run" /\ \A d \in Ctx : d # e => tpc'[d] = tpc[d]
    BY <1>5a, <2>1
  <2>4. MovesOn(e)
    BY <2>1, <2>2, <2>3 DEF MovesOn
  <2> QED
    BY <1>4, <2>4
<1>6. CASE ThreadWait(e)
  <2>1. pc = "woken" /\ tpc[e] = "posted" /\ state[e] = "ACTIVE" /\ tpc' = [tpc EXCEPT ![e] = "wait"]
    BY <1>1, <1>6 DEF ThreadWait, Stage
  <2>2. UNCHANGED <<pc, cur, mem, stubMem, back, machine, saved, state, result>>
    BY <1>6 DEF ThreadWait, overlayVars
  <2>3. tpc'[e] = "wait" /\ \A d \in Ctx : d # e => tpc'[d] = tpc[d]
    BY <1>5a, <2>1
  <2>4. ResultFits(result'[e])
    BY <1>1, <2>1, <2>2 DEF CodeInv, ResultsFit
  <2>5. MovesOn(e)
    BY <2>1, <2>2, <2>3, <2>4 DEF MovesOn
  <2> QED
    BY <1>4, <2>5
<1>7. CASE ThreadResume(e)
  BY <1>7, CodeResume
<1>8. CASE ThreadExit(e)
  <2>1. pc = "woken" /\ tpc[e] = "returned" /\ state[e] = "DONE" /\ tpc' = [tpc EXCEPT ![e] = "exited"]
    BY <1>1, <1>8 DEF ThreadExit, Stage
  <2>2. UNCHANGED <<pc, cur, mem, stubMem, back, machine, saved, state, result>>
    BY <1>8 DEF ThreadExit, overlayVars
  <2>3. tpc'[e] = "exited" /\ \A d \in Ctx : d # e => tpc'[d] = tpc[d]
    BY <1>5a, <2>1
  <2>4. ResultFits(result'[e])
    BY <1>1, <2>1, <2>2 DEF CodeInv, ResultsFit
  <2>5. MovesOn(e)
    BY <2>1, <2>2, <2>3, <2>4 DEF MovesOn
  <2> QED
    BY <1>4, <2>5
<1>9. ASSUME NEW to \in Fns \cup Hooks \cup Stubs, hydra_impl_call_far(e, to) PROVE CodeInv'
  <2>1. tpc[e] = "run" /\ PostCall(e, e, FarFrame(FarMagic(e), e), "CALL", to, FALSE)
    BY <1>1, <1>9 DEF hydra_impl_call_far
  <2> QED
    BY <2>1, CodePost DEF CallTypes
<1>10. ASSUME NEW to \in Fns \cup Hooks, NEW reloc \in RelocChoices,
              hydra_impl_call_near_off(e, to, reloc)
       PROVE  CodeInv'
  <2>1. CASE Abort("near id") \/ Abort("below load segment")
    BY <1>3, <2>1
  <2>2. CASE ~(Abort("near id") \/ Abort("below load segment"))
    <3>1. /\ tpc[e] = "run" /\ to.cs = machine[e].cs
          /\ PostCall(e, e, NearFrame(NearMagicIp(e), e), "CALL_NEAR", to, reloc)
      BY <1>1, <1>10, <2>2 DEF hydra_impl_call_near_off
    <3>2. reloc => TRUE \in RelocChoices
      BY ExecAssumption
    <3>3. "CALL_NEAR" \in CallTypes /\ to \in Fns \cup Hooks \cup Stubs
      BY DEF CallTypes
    <3>4. reloc => "CALL_NEAR" = "CALL_NEAR" /\ TRUE \in RelocChoices
      BY <3>2
    <3>5. NearFrame(NearMagicIp(e), e) =
            IF "CALL_NEAR" = "CALL" THEN FarFrame(FarMagic(e), e) ELSE NearFrame(NearMagicIp(e), e)
      OBVIOUS
    <3>6. to \in Fns \cup Hooks
      BY <1>10
    <3> QED
      BY <3>1, <3>3, <3>4, <3>5, <3>6, CodePost, Zenon
  <2> QED
    BY <2>1, <2>2
<1>11. ASSUME NEW r \in Returns(e), ThreadReturn(e, r) PROVE CodeInv'
  <2>1. pc = "wait" /\ tpc[e] = "run" /\ state[e] = "ACTIVE" /\ LiveRegs = machine[e]
    BY <1>1, <1>11 DEF ThreadReturn, Stage, LiveRegs
  <2>2. ResultFits(r)
    BY <2>1, ReturnsFit
  <2>3. /\ result' = [result EXCEPT ![e] = r] /\ state' = [state EXCEPT ![e] = "DONE"]
        /\ tpc' = [tpc EXCEPT ![e] = "returned"] /\ pc' = "woken"
        /\ UNCHANGED <<cur, mem, stubMem, back, machine, saved>>
    BY <1>1, <1>11, <2>1 DEF ThreadReturn, SignalMain, overlayVars
  <2>4. /\ result'[e] = r /\ state'[e] = "DONE" /\ tpc'[e] = "returned"
        /\ \A d \in Ctx : d # e =>
             tpc'[d] = tpc[d] /\ state'[d] = state[d] /\ result'[d] = result[d]
    BY <1>5a, <2>3
  <2>5. MovesOn(e)
    BY <2>1, <2>2, <2>3, <2>4 DEF MovesOn, Suspended
  <2> QED
    BY <1>4, <2>5
<1> QED
  BY <1>5, <1>6, <1>7, <1>8, <1>9, <1>10, <1>11 DEF ThreadHandover, HookStep

LEMMA CodeInit == Init => CodeInv
<1> SUFFICES ASSUME Init PROVE CodeInv
  OBVIOUS
<1> USE CtxFacts
<1>1. LiveRegs = m /\ m.sp = 0 /\ At(m) = [cs |-> Main.cs, ip |-> Main.ip]
  BY DEF Init, LiveRegs, At
<1>2. Main \in Addr /\ At(m) \in GuestCode
  BY <1>1, ConstantTypes DEF GuestCode, Addr
<1>3. m.cs \in Segs
  BY <1>2 DEF At, Segs
<1>4. \A e \in Ctx : ~Resumed(e)
  BY DEF Init, Resumed
<1>5. PICK S \in [0 .. 0 -> Segs] : S = [k \in 0 .. 0 |-> m.cs]
  BY <1>3
<1>6. SegmentsFit(S)
  BY <1>1, <1>4, <1>5 DEF SegmentsFit
<1>7. ReturnSegments
  BY <1>1, <1>6 DEF ReturnSegments
<1>8. MagicFrames = {}
  BY <1>1 DEF MagicFrames
<1>9. ~HookHasMachine
  BY DEF Init, HookHasMachine, HandoverPcs
<1>10. CodeHere
  BY <1>1, <1>2, <1>4, <1>9 DEF CodeHere, TopFar, Init
<1> QED
  BY <1>7, <1>8, <1>10
     DEF CodeInv, FramesMagic, CallsSaved, StubsPlaced, ResultsFit, Init

LEMMA CodeStep ==
  ASSUME TypeOK, TypeOK', HandoverInv, NestInv, CodeInv, [Next]_vars PROVE CodeInv'
<1>1. CASE UNCHANGED vars
  BY <1>1, CodeAbort DEF vars, execVars, overlayVars
<1>2. ASSUME HostHandover PROVE CodeInv'
  BY <1>2, CodeHost, CodeApply
<1> QED
  BY <1>1, <1>2, CodeGuest, CodeDispatch, CodeThread DEF Next, Step, Stopped
=============================================================================
