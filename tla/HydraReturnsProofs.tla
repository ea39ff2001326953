-------------------------- MODULE HydraReturnsProofs --------------------------
(***************************************************************************)
(* What the invariant of HydraExecProofs gives: every return finds the     *)
(* hook it belongs to and no other code does, hooks are taken and released *)
(* like a stack, the callstack model never stops the process, and threads, *)
(* mutexes and magic addresses together implement the coroutines of        *)
(* CoroutineStack.                                                         *)
(***************************************************************************)
EXTENDS HydraExecProofs, FiniteSetTheorems, SequenceTheorems

\* A call has been posted and is not yet recorded in the callstack model.
CallPending ==
  \/ pc \in {"woken", "copy"} /\ result[cur].type \in CallTypes
  \/ pc \in {"join", "apply"} /\ res.type \in CallTypes

\* The callstack model within a step of the host, and between two: no event
\* waits.  Every entry was pushed from an address above the load segment.
Above == FALSE
Entries == Seq({Above})
Events == {"NONE", "CALL", "RET"}
Lows == BOOLEAN
Shadows == [stack : Entries, event : Events, low : Lows, fail : {"none"}]
AtRest == {c \in Shadows : c.event = "NONE"}

CallstackInv ==
  /\ cst \in AtRest
  /\ CallPending => Len(cst.stack) < MaxCalls
  /\ pc = "apply" \/ (\E e \in Ctx : state[e] \in {"ACTIVE", "DONE"}) => ~cst.low

\* What is known when the process has ended.
FaultInv ==
  /\ fault \in {"none", "exit 0", "MAX_EXEC", "near id", "overlay tracking"}
  /\ fault = "exit 0" => mode = "CAPTURE" /\ At(m) = CaptureAddr
  /\ fault = "overlay tracking" =>
       /\ Cardinality({s \in Stubs : tracking[s] # NoAddr}) = MaxTracked
       /\ tracking[At(m)] = NoAddr
  /\ fault = "MAX_EXEC" => Suspended = Ctx
  /\ fault = "near id" => \E e \in Ctx : e >= NearIds /\ 0 .. e - 1 \subseteq Suspended

---------------------------------------------------------------------------
(* The callstack model never stops the process *)

Shadow(stack, event, low) ==
  [stack |-> stack, event |-> event, low |-> low, fail |-> "none"]

LEMMA ShadowFields ==
  ASSUME NEW s \in Entries, NEW e \in Events, NEW l \in Lows
  PROVE  /\ Shadow(s, e, l) \in Shadows
         /\ Shadow(s, e, l).stack = s /\ Shadow(s, e, l).event = e
         /\ Shadow(s, e, l).low = l /\ Shadow(s, e, l).fail = "none"
         /\ e = "NONE" => Shadow(s, e, l) \in AtRest
BY DEF Shadow, Shadows, AtRest

LEMMA TrackedUpdate ==
  ASSUME NEW r \in Shadows, NEW e \in Events, NEW u \in Lows
  PROVE  /\ [r EXCEPT !.event = e, !.low = u] = Shadow(r.stack, e, u)
         /\ [r EXCEPT !.low = u, !.event = e] = Shadow(r.stack, e, u)
<1>1. PICK q \in Shadows : q = [r EXCEPT !.event = e]
  BY DEF Shadows
<1>2. q.stack = r.stack /\ q.event = e
  BY <1>1 DEF Shadows
<1>3. [q EXCEPT !.low = u] = Shadow(q.stack, q.event, u)
  BY DEF Shadow, Shadows
<1>4. [r EXCEPT !.event = e, !.low = u] = [q EXCEPT !.low = u]
  BY <1>1 DEF Shadows
<1>5. PICK p \in Shadows : p = [r EXCEPT !.low = u]
  BY DEF Shadows
<1>6. p.stack = r.stack /\ p.low = u
  BY <1>5 DEF Shadows
<1>7. [p EXCEPT !.event = e] = Shadow(p.stack, e, p.low)
  BY DEF Shadow, Shadows
<1>8. [r EXCEPT !.low = u, !.event = e] = [p EXCEPT !.event = e]
  BY <1>5 DEF Shadows
<1> QED
  BY <1>2, <1>3, <1>4, <1>6, <1>7, <1>8

LEMMA EventUpdate ==
  ASSUME NEW r \in Shadows, NEW e \in Events
  PROVE  [r EXCEPT !.event = e] = Shadow(r.stack, e, r.low)
BY DEF Shadow, Shadows

LEMMA StackUpdate ==
  ASSUME NEW r \in Shadows, NEW t \in Entries
  PROVE  /\ [r EXCEPT !.stack = t] = Shadow(t, r.event, r.low)
         /\ [r EXCEPT !.stack = t, !.fail = r.fail] = Shadow(t, r.event, r.low)
<1>1. PICK o \in Shadows : o = [r EXCEPT !.stack = t]
  BY DEF Shadows
<1>2. o.stack = t /\ o.event = r.event /\ o.low = r.low
  BY <1>1 DEF Shadows
<1>3. [o EXCEPT !.fail = r.fail] = Shadow(o.stack, o.event, o.low)
  BY DEF Shadow, Shadows
<1>4. [r EXCEPT !.stack = t, !.fail = r.fail] = [o EXCEPT !.fail = r.fail]
  BY <1>1 DEF Shadows
<1>5. [r EXCEPT !.stack = t] = Shadow(t, r.event, r.low)
  BY DEF Shadow, Shadows
<1> QED
  BY <1>2, <1>3, <1>4, <1>5

LEMMA AtRestFacts ==
  ASSUME NEW c \in AtRest
  PROVE  /\ c \in Shadows /\ c.event = "NONE" /\ c.fail = "none"
         /\ c.stack \in Entries /\ c.low \in Lows
BY DEF AtRest, Shadows

LEMMA ShadowValues ==
  /\ "NONE" \in Events /\ "CALL" \in Events /\ "RET" \in Events
  /\ Above \in Lows
BY DEF Events, Lows, Above

LEMMA EntryUpdates ==
  ASSUME NEW s \in Entries
  PROVE  /\ s # <<>> => s[Len(s)] = Above
         /\ s # <<>> => SubSeq(s, 1, Len(s) - 1) \in Entries
         /\ <<>> \in Entries
         /\ Len(s) \in Nat
         /\ Append(s, Above) \in Entries
<1>1. ASSUME NEW S, NEW z \in S, NEW t \in Seq(S)
      PROVE  /\ t # <<>> => t[Len(t)] \in S
             /\ t # <<>> => SubSeq(t, 1, Len(t) - 1) \in Seq(S)
             /\ <<>> \in Seq(S)
             /\ Len(t) \in Nat
             /\ Append(t, z) \in Seq(S)
  OBVIOUS
<1>2. s \in Seq({Above}) /\ Above \in {Above}
  BY DEF Entries
<1>3. s # <<>> => s[Len(s)] \in {Above}
  BY <1>1, <1>2, Zenon
<1>4. /\ s # <<>> => SubSeq(s, 1, Len(s) - 1) \in Seq({Above})
      /\ <<>> \in Seq({Above})
      /\ Len(s) \in Nat
      /\ Append(s, Above) \in Seq({Above})
  BY <1>1, <1>2, Zenon
<1> QED
  BY <1>3, <1>4, Zenon DEF Entries

LEMMA RelativeType ==
  ASSUME NEW a
  PROVE  /\ RelativeFails(a) \in Lows
         /\ a.cs >= CodeStart /\ a.cs \in Nat => RelativeFails(a) = Above
BY ExecAssumption DEF RelativeFails, Lows, Above

\* An address above the load segment that the callstack model does not react
\* to is tracked without a trace.
LEMMA TrackQuiet ==
  ASSUME NEW c \in AtRest, NEW a, NEW top, a.cs >= CodeStart, a.cs \in Nat,
         a \notin CallSites \cup RetSites \cup JumpRets \cup Handlers
  PROVE  hydra_callstack_track(c, a, top) = Shadow(c.stack, "NONE", Above)
<1>1. RelativeFails(a) = Above
  BY RelativeType
<1>2. c \in Shadows /\ c.event = "NONE"
  BY AtRestFacts
<1>3. hydra_callstack_track(c, a, top) = [c EXCEPT !.event = "NONE", !.low = Above]
  BY <1>1, <1>2, Zenon DEF hydra_callstack_track
<1>4. [c EXCEPT !.event = "NONE", !.low = Above] = Shadow(c.stack, "NONE", Above)
  BY <1>2, AtRestFacts, ShadowValues, TrackedUpdate, Zenon
<1> QED
  BY <1>3, <1>4, Zenon

LEMMA NotifyQuiet ==
  ASSUME NEW c \in AtRest, NEW a
  PROVE  hydra_callstack_notify(c, a) = Shadow(c.stack, "NONE", RelativeFails(a))
<1>1. c \in Shadows /\ c.event = "NONE" /\ c.fail = "none" /\ c.stack \in Entries
  BY AtRestFacts
<1>2. PICK u \in Lows : u = RelativeFails(a)
  BY RelativeType, Zenon
<1>3. hydra_callstack_notify(c, a) = [c EXCEPT !.event = "NONE", !.low = u]
  BY <1>1, <1>2, Zenon DEF hydra_callstack_notify
<1>4. [c EXCEPT !.event = "NONE", !.low = u] = Shadow(c.stack, "NONE", u)
  <2>1. c \in Shadows /\ "NONE" \in Events
    BY <1>1, ShadowValues
  <2> QED
    BY <2>1, TrackedUpdate, Zenon
<1> QED
  BY <1>2, <1>3, <1>4, Zenon

\* A call of a hook: recorded with its return address, then applied.
LEMMA CallQuiet ==
  ASSUME NEW c \in AtRest, NEW ret, ret.cs >= CodeStart, ret.cs \in Nat, NEW a,
         Len(c.stack) < MaxCallStack
  PROVE  /\ hydra_callstack_notify(hydra_callstack_trigger_enter(c, ret), a)
               = Shadow(Append(c.stack, Above), "NONE", RelativeFails(a))
         /\ Append(c.stack, Above) \in Entries
<1>1. RelativeFails(ret) = Above /\ MaxCallStack \in Nat
  BY RelativeType, CallstackAssumption
<1>2. c \in Shadows /\ c.event = "NONE" /\ c.fail = "none" /\ c.stack \in Entries
  BY AtRestFacts
<1>3. PICK t : t = Shadow(c.stack, "CALL", Above)
  OBVIOUS
<1>4. hydra_callstack_trigger_enter(c, ret) = t
  <2>1. hydra_callstack_trigger_enter(c, ret) = [c EXCEPT !.low = Above, !.event = "CALL"]
    BY <1>1, <1>2, Zenon DEF hydra_callstack_trigger_enter
  <2>2. [c EXCEPT !.low = Above, !.event = "CALL"] = Shadow(c.stack, "CALL", Above)
    <3>1. c \in Shadows /\ "CALL" \in Events /\ Above \in Lows
      BY <1>2, ShadowValues
    <3> QED
      BY <3>1, TrackedUpdate, Zenon
  <2> QED
    BY <1>3, <2>1, <2>2, Zenon
<1>5. t \in Shadows /\ t.stack = c.stack /\ t.event = "CALL" /\ t.low = Above /\ t.fail = "none"
  BY <1>2, <1>3, ShadowFields, ShadowValues
<1>6. PICK s \in Entries : s = Append(c.stack, Above)
  BY <1>2, EntryUpdates, Zenon
<1>7. callstack_enter(t, t.low) = [t EXCEPT !.stack = s]
  <2>1. ~(Len(t.stack) >= MaxCallStack)
    <3>1. Len(t.stack) \in Nat /\ Len(t.stack) < MaxCallStack
      BY <1>2, <1>5, EntryUpdates, Zenon
    <3> QED
      BY <1>1, <3>1
  <2> QED
    BY <1>5, <1>6, <2>1, Zenon DEF callstack_enter
<1>8. PICK u : u = Shadow(s, "CALL", Above)
  OBVIOUS
<1>9. u \in Shadows /\ u.stack = s /\ u.fail = "none"
  BY <1>8, ShadowFields, ShadowValues
<1>10. [t EXCEPT !.stack = s] = u
  <2>1. [t EXCEPT !.stack = s] = Shadow(s, t.event, t.low)
    BY <1>5, StackUpdate, Zenon
  <2> QED
    BY <1>5, <1>8, <2>1, Zenon
<1>11. PICK l \in Lows : l = RelativeFails(a)
  BY RelativeType, Zenon
<1>12. hydra_callstack_notify(t, a) = [u EXCEPT !.event = "NONE", !.low = l]
  BY <1>5, <1>7, <1>10, <1>11, Zenon DEF hydra_callstack_notify
<1>13. [u EXCEPT !.event = "NONE", !.low = l] = Shadow(u.stack, "NONE", l)
  BY <1>9, ShadowValues, TrackedUpdate, Zenon
<1> QED
  BY <1>4, <1>6, <1>9, <1>11, <1>12, <1>13, Zenon

\* A return of a hook.
LEMMA RetQuiet ==
  ASSUME NEW c \in AtRest, ~c.low, NEW a, a.cs >= CodeStart, a.cs \in Nat
  PROVE  \E s \in Entries :
           hydra_callstack_notify(hydra_callstack_ret(c), a) = Shadow(s, "NONE", Above)
<1>1. /\ c \in Shadows /\ c.event = "NONE" /\ c.fail = "none" /\ c.stack \in Entries
      /\ RelativeFails(a) = Above
  BY AtRestFacts, RelativeType
<1>2. c.low = Above
  BY AtRestFacts DEF Lows, Above
<1>3. PICK t : t = Shadow(c.stack, "RET", Above)
  OBVIOUS
<1>4. hydra_callstack_ret(c) = t
  <2>1. hydra_callstack_ret(c) = [c EXCEPT !.event = "RET"]
    BY <1>1, Zenon DEF hydra_callstack_ret
  <2>2. [c EXCEPT !.event = "RET"] = Shadow(c.stack, "RET", c.low)
    BY <1>1, ShadowValues, EventUpdate, Zenon
  <2> QED
    BY <1>2, <1>3, <2>1, <2>2, Zenon
<1>5. t \in Shadows /\ t.stack = c.stack /\ t.event = "RET" /\ t.low = Above /\ t.fail = "none"
  BY <1>1, <1>3, ShadowFields, ShadowValues
<1>6. PICK s \in Entries :
        s = IF t.stack = <<>> THEN <<>> ELSE SubSeq(t.stack, 1, Len(t.stack) - 1)
  BY <1>1, <1>5, EntryUpdates, Zenon
<1>7. t.stack # <<>> => ~t.stack[Len(t.stack)]
  <2>1. t.stack # <<>> => t.stack[Len(t.stack)] = Above
    BY <1>1, <1>5, EntryUpdates, Zenon
  <2> QED
    BY <2>1 DEF Above
<1>8. callstack_leave(t, a) = [t EXCEPT !.stack = s, !.fail = t.fail]
  <2>1. ~(t.low \/ RelativeFails(a) \/ (~(t.stack = <<>>) /\ t.stack[Len(t.stack)]))
    BY <1>1, <1>5, <1>7 DEF Above
  <2> QED
    BY <1>6, <2>1, Zenon DEF callstack_leave
<1>9. PICK u : u = Shadow(s, "RET", Above)
  OBVIOUS
<1>10. u \in Shadows /\ u.stack = s
  BY <1>9, ShadowFields, ShadowValues
<1>11. callstack_leave(t, a) = u
  <2>1. [t EXCEPT !.stack = s, !.fail = t.fail] = Shadow(s, t.event, t.low)
    BY <1>5, StackUpdate, Zenon
  <2> QED
    BY <1>5, <1>8, <1>9, <2>1, Zenon
<1>12. hydra_callstack_notify(t, a) = [u EXCEPT !.event = "NONE", !.low = Above]
  BY <1>1, <1>5, <1>11, Zenon DEF hydra_callstack_notify
<1>13. [u EXCEPT !.event = "NONE", !.low = Above] = Shadow(u.stack, "NONE", Above)
  BY <1>10, ShadowValues, TrackedUpdate, Zenon
<1> QED
  BY <1>4, <1>10, <1>12, <1>13, Zenon

---------------------------------------------------------------------------
(* Where the host looks at the callstack, the guest is in its own code *)

LEMMA CodeAbove ==
  /\ \A a \in GuestCode : a.cs \in Nat /\ a.cs >= CodeStart
  /\ MagicSeg \in Nat /\ MagicSeg >= CodeStart
BY CodeTypes, ExecAssumption, CallstackAssumption DEF Addr

LEMMA StopAbove ==
  ASSUME TypeOK, HandoverInv, NestInv, CodeInv, pc = "stop"
  PROVE  m.cs \in Nat /\ m.cs >= CodeStart
<1>1. CASE back = NoExec
  <2>1. At(m) \in GuestCode /\ At(m).cs = m.cs
    BY <1>1 DEF CodeInv, CodeHere, At
  <2> QED
    BY <2>1, CodeAbove
<1>2. CASE back # NoExec
  <2>1. back \in Ctx /\ Resumed(back)
    BY <1>2, SuspendedType DEF NestInv, FramesInOrder, Resumed
  <2>2. CASE result[back].type = "CALL"
    <3>1. At(m) = FarMagic(back)
      BY <2>1, <2>2 DEF CodeInv, CodeHere, AtMagic
    <3> QED
      BY <3>1, CodeAbove DEF At, FarMagic
  <2>3. CASE result[back].type # "CALL"
    <3>1. PICK S \in [0 .. m.sp -> Segs] : SegmentsFit(S)
      BY GuestStart DEF CodeInv, ReturnSegments
    <3>2. ReturnsTo(back, m.cs, S[m.sp])
      BY <2>1, <3>1, GuestStart DEF SegmentsFit
    <3>3. [cs |-> m.cs, ip |-> saved[back].ip] \in HookCode
      BY <2>3, <3>2 DEF ReturnsTo
    <3> QED
      BY <3>3, CodeTypes, CodeAbove
  <2> QED
    BY <2>2, <2>3
<1> QED
  BY <1>1, <1>2

\* While a hook has the machine, so is the hook; and the frame it was called
\* with returns above the load segment.
LEMMA HookAbove ==
  ASSUME TypeOK, HandoverInv, NestInv, CodeInv, pc = "apply"
  PROVE  /\ m.cs \in Nat /\ m.cs >= CodeStart
         /\ m.sp > 0 /\ mem[m.sp].far => mem[m.sp].cs \in Nat /\ mem[m.sp].cs >= CodeStart
<1>1. cur = NoExec /\ LiveRegs = m /\ back = NoExec /\ m.sp \in Nat
  BY GuestStart, GuestRegs
<1>2. m.cs \in Nat /\ m.cs >= CodeStart
  <2>1. At(m) \in GuestCode /\ At(m).cs = m.cs
    BY <1>1, HereInCode DEF At
  <2> QED
    BY <2>1, CodeAbove
<1>3. ASSUME m.sp > 0, mem[m.sp].far, mem[m.sp].by = NoExec
      PROVE  mem[m.sp].cs \in Nat /\ mem[m.sp].cs >= CodeStart
  <2>1. PICK S \in [0 .. m.sp -> Segs] : \A k \in 1 .. m.sp : FrameFits(k, S)
    BY <1>1, GuestSegments
  <2>2. FrameFits(m.sp, S)
    BY <1>1, <1>3, <2>1
  <2>3. [cs |-> mem[m.sp].cs, ip |-> mem[m.sp].ip] \in GuestCode
    BY <1>3, <2>2 DEF FrameFits
  <2> QED
    BY <2>3, CodeAbove
<1>4. ASSUME m.sp > 0, mem[m.sp].far, mem[m.sp].by # NoExec
      PROVE  mem[m.sp].cs \in Nat /\ mem[m.sp].cs >= CodeStart
  <2>1. mem[m.sp] = MagicFrame(mem[m.sp].by)
    BY <1>1, <1>4, MagicFramesType
  <2>2. mem[m.sp].cs = MagicSeg
    BY <1>4, <2>1 DEF MagicFrame, NearFrame, FarFrame, FarMagic
  <2> QED
    BY <2>2, CodeAbove
<1> QED
  BY <1>2, <1>3, <1>4

\* At a stop the callstack model sees nothing to record.
LEMMA TrackedAtRest ==
  ASSUME TypeOK, HandoverInv, NestInv, CodeInv, CallstackInv, pc = "stop"
  PROVE  /\ Tracked \in AtRest /\ Tracked.stack = cst.stack /\ Tracked.fail = "none"
         /\ Tracked.low => m.cs = MagicSeg /\ cst.low
<1>0. cst \in AtRest /\ cst.fail = "none" /\ cst.stack \in Entries
  BY AtRestFacts DEF CallstackInv
<1>1. CASE m.cs = MagicSeg
  BY <1>0, <1>1 DEF Tracked
<1>2. CASE m.cs # MagicSeg
  <2>1. PICK top : Tracked = hydra_callstack_track(cst, At(m), top)
    BY <1>2, Zenon DEF Tracked
  <2>2. At(m).cs = m.cs /\ At(m).ip = m.ip /\ StopAddr(At(m))
    BY DEF At, CodeInv, CodeHere
  <2>3. At(m) \notin CallSites \cup RetSites \cup JumpRets \cup Handlers
    <3> SUFFICES ASSUME At(m) \in CallSites \cup RetSites \cup JumpRets \cup Handlers
                 PROVE  FALSE
      OBVIOUS
    <3>1. At(m) \notin Hooks \cup Stubs \cup {CaptureAddr, RestoreEntry} /\ At(m).ip < MagicOff
      BY CallstackAssumption
    <3>2. ~(At(m).ip >= MagicOff)
      BY <2>2, <3>1, GuestRegs, ExecAssumption
    <3> QED
      BY <1>2, <2>2, <3>1, <3>2 DEF StopAddr
  <2>4. At(m).cs \in Nat /\ At(m).cs >= CodeStart
    BY <2>2, StopAbove
  <2>5. Tracked = Shadow(cst.stack, "NONE", Above)
    BY <1>0, <2>1, <2>3, <2>4, TrackQuiet
  <2>6. /\ Tracked \in AtRest /\ Tracked.stack = cst.stack /\ Tracked.fail = "none"
        /\ Tracked.low = Above
    BY <1>0, <2>5, ShadowValues, ShadowFields
  <2> QED
    BY <2>6 DEF Above
<1> QED
  BY <1>1, <1>2

---------------------------------------------------------------------------
(* Steps keep the callstack model at rest *)

HookInUse == pc = "apply" \/ \E e \in Ctx : state[e] \in {"ACTIVE", "DONE"}

LEMMA CallstackStart == Init => CallstackInv
<1> SUFFICES ASSUME Init PROVE CallstackInv
  OBVIOUS
<1>1. cst = Shadow(<<>>, "NONE", TRUE)
  BY DEF Init, CallstackInit, Shadow
<1>2. cst \in AtRest
  <2>1. TRUE \in Lows /\ "NONE" \in Events /\ <<>> \in Entries
    BY EntryUpdates DEF Lows, Events, Entries
  <2> QED
    BY <1>1, <2>1, ShadowFields
<1> QED
  BY <1>2 DEF Init, CallstackInv, CallPending

LEMMA CallstackSame ==
  ASSUME CallstackInv, cst' = cst, HookInUse' => HookInUse,
         CallPending' => CallPending \/ Len(cst.stack) < MaxCalls
  PROVE  CallstackInv'
BY DEF CallstackInv, HookInUse

LEMMA CallstackApplied ==
  ASSUME NEW s \in Entries, NEW a, a.cs \in Nat, a.cs >= CodeStart,
         cst' = Shadow(s, "NONE", RelativeFails(a)), ~CallPending'
  PROVE  CallstackInv' /\ cst'.fail = "none"
<1>1. cst' \in AtRest /\ cst'.low = Above /\ cst'.fail = "none"
  BY RelativeType, ShadowValues, ShadowFields
<1> QED
  BY <1>1 DEF CallstackInv, Above

LEMMA CallstackDispatch ==
  ASSUME TypeOK, HandoverInv, NestInv, CodeInv, CallstackInv, HostDispatch
  PROVE  CallstackInv' /\ (fault' = cst'.fail => fault' = "none")
<1> USE DEF Dispatch
<1>0. pc = "stop" /\ cur = NoExec
  BY GuestStart DEF HostDispatch, TrackFails, CaptureState, RestoreState, ResumeGuest,
       TryResume, RunBegin, DispatchesHook, RunBeginFails
<1>1. /\ Tracked \in AtRest /\ Tracked.stack = cst.stack /\ Tracked.fail = "none"
      /\ Tracked.low => m.cs = MagicSeg /\ cst.low
      /\ cst.stack \in Entries /\ cst.fail = "none"
  BY <1>0, TrackedAtRest, AtRestFacts DEF CallstackInv
<1>2. ASSUME NEW r, r # "none", Abort(r) PROVE CallstackInv' /\ (fault' = cst'.fail => fault' = "none")
  BY <1>1, <1>2, CallstackSame DEF Abort, HookInUse, CallPending, execVars
<1>3. CASE TrackFails
  BY <1>1, <1>3 DEF TrackFails
<1>4. CASE RunBeginFails
  BY <1>2, <1>4 DEF RunBeginFails
<1>5. CASE CaptureState
  <2>1. UNCHANGED <<pc, cur, res, result, state, cst>>
    BY <1>5 DEF CaptureState, execVars
  <2>2. CallstackInv'
    BY <2>1, CallstackSame DEF HookInUse, CallPending
  <2> QED
    BY <1>1, <2>1, <2>2
<1>6. CASE RestoreState
  <2>1. cst' = Shadow(cst.stack, "NONE", RelativeFails(At(m')))
    BY <1>1, <1>6, NotifyQuiet DEF RestoreState
  <2>2. At(m').cs = CaptureAddr.cs /\ ~CallPending' /\ CaptureAddr \in GuestCode
    BY <1>6 DEF RestoreState, At, CallPending, GuestCode
  <2>3. At(m').cs \in Nat /\ At(m').cs >= CodeStart
    BY <2>2, CodeAbove
  <2> QED
    BY <1>1, <2>1, <2>2, <2>3, CallstackApplied
<1>7. CASE ResumeGuest
  <2>1. cst' = Shadow(cst.stack, "NONE", RelativeFails(At(m)))
    BY <1>1, <1>7, NotifyQuiet DEF ResumeGuest
  <2>2. ~CallPending'
    BY <1>7 DEF ResumeGuest, CallPending
  <2>3. At(m).cs \in Nat /\ At(m).cs >= CodeStart
    BY <1>0, StopAbove DEF At
  <2> QED
    BY <1>1, <2>1, <2>2, <2>3, CallstackApplied
<1>8. ASSUME NEW e \in Ctx, TryResume(e)
      PROVE  CallstackInv' /\ (fault' = cst'.fail => fault' = "none")
  <2>1. cst' = Tracked /\ pc' = "continue" /\ state' = state
    BY <1>8 DEF TryResume, execVars
  <2>2. ~CallPending'
    BY <2>1 DEF CallPending
  <2> QED
    BY <1>1, <2>1, <2>2 DEF CallstackInv
<1>9. CASE RunBegin
  <2>1. cst' = Tracked /\ pc' = "begin"
    BY <1>9 DEF RunBegin
  <2>2. m.cs # MagicSeg
    <3>1. At(m) \in Hooks \cup Stubs
      BY <1>9 DEF RunBegin, DispatchesHook
    <3>2. At(m).cs # MagicSeg
      BY <3>1, LayoutAssumption, HookCodeFacts DEF HookCode
    <3> QED
      BY <3>2 DEF At
  <2>3. ~CallPending'
    BY <2>1 DEF CallPending
  <2> QED
    BY <1>1, <2>1, <2>2, <2>3 DEF CallstackInv
<1> QED
  BY <1>3, <1>4, <1>5, <1>6, <1>7, <1>8, <1>9 DEF HostDispatch

\* A result is applied: a call is recorded with its return address, a return
\* with the place it returns to.
LEMMA CallstackApply ==
  ASSUME TypeOK, HandoverInv, NestInv, CodeInv, CallstackInv, ApplyResult
  PROVE  CallstackInv' /\ fault' = "none"
<1>0. /\ pc = "apply" /\ m' = Redirected /\ fault' = cst'.fail
      /\ cst' = hydra_callstack_notify(Recorded, At(m'))
      /\ ~CallPending'
  BY DEF ApplyResult, CallPending, GuestOrStop
<1>1. /\ cur = NoExec /\ LiveRegs = m /\ back = NoExec
      /\ m.cs \in Nat /\ m.cs >= CodeStart
      /\ m.sp > 0 /\ mem[m.sp].far => mem[m.sp].cs \in Nat /\ mem[m.sp].cs >= CodeStart
  BY <1>0, GuestStart, HookAbove
<1>2. ResultFits(res)
  BY <1>0 DEF CodeInv, ResultsFit
<1>3. cst \in AtRest /\ cst.stack \in Entries /\ ~cst.low
  BY <1>0, AtRestFacts DEF CallstackInv
<1>4. At(m').cs \in Nat /\ At(m').cs >= CodeStart
  <2>1. At(m').cs = IF res.type \in {"JUMP", "CALL"} THEN res.to.cs
                    ELSE IF res.type = "RET_FAR" THEN mem[m.sp].cs ELSE m.cs
    BY <1>0 DEF At, Redirected
  <2>2. CASE res.type \in {"JUMP", "CALL"}
    <3>1. res.to \in GuestCode
      BY <1>2, <2>2, EntryFacts DEF ResultFits
    <3> QED
      BY <2>1, <2>2, <3>1, CodeAbove
  <2>3. CASE res.type = "RET_FAR"
    BY <1>1, <1>2, <2>1, <2>3 DEF ResultFits
  <2>4. CASE res.type \notin {"JUMP", "CALL", "RET_FAR"}
    BY <1>1, <2>1, <2>4
  <2> QED
    BY <2>2, <2>3, <2>4
<1>5. CASE res.type \in CallTypes
  <2>1. Len(cst.stack) < MaxCallStack
    <3>1. Len(cst.stack) < MaxCalls /\ Len(cst.stack) \in Nat
      BY <1>0, <1>3, <1>5, EntryUpdates DEF CallstackInv, CallPending
    <3> QED
      BY <3>1, CallstackAssumption
  <2>2. PICK ret : /\ Recorded = hydra_callstack_trigger_enter(cst, ret)
                   /\ ret.cs = IF res.type = "CALL" THEN mem[m.sp].cs ELSE m.cs
    <3>1. CASE res.type = "CALL"
      <4>1. PICK a : a = [cs |-> mem[m.sp].cs, ip |-> mem[m.sp].ip]
        OBVIOUS
      <4>2. Recorded = hydra_callstack_trigger_enter(cst, a)
        BY <3>1, <4>1 DEF Recorded, RetTypes
      <4> QED
        BY <3>1, <4>1, <4>2
    <3>2. CASE res.type = "CALL_NEAR"
      <4>1. PICK a : a = [cs |-> m.cs, ip |-> mem[m.sp].ip]
        OBVIOUS
      <4>2. Recorded = hydra_callstack_trigger_enter(cst, a)
        BY <3>2, <4>1 DEF Recorded, RetTypes
      <4> QED
        BY <3>2, <4>1, <4>2
    <3> QED
      BY <1>5, <3>1, <3>2 DEF CallTypes
  <2>3. ret.cs \in Nat /\ ret.cs >= CodeStart
    BY <1>1, <1>2, <2>2 DEF ResultFits
  <2>4. /\ cst' = Shadow(Append(cst.stack, Above), "NONE", RelativeFails(At(m')))
        /\ Append(cst.stack, Above) \in Entries
    BY <1>0, <1>3, <2>1, <2>2, <2>3, CallQuiet
  <2> QED
    BY <1>0, <1>4, <2>4, CallstackApplied
<1>6. CASE res.type \in RetTypes
  <2>1. Recorded = hydra_callstack_ret(cst)
    BY <1>6 DEF Recorded, RetTypes
  <2>2. PICK s \in Entries : cst' = Shadow(s, "NONE", Above)
    BY <1>0, <1>3, <1>4, <2>1, RetQuiet
  <2>3. RelativeFails(At(m')) = Above
    BY <1>4, RelativeType
  <2> QED
    BY <1>0, <1>4, <2>2, <2>3, CallstackApplied
<1>7. CASE res.type \notin CallTypes \cup RetTypes
  <2>1. Recorded = cst
    BY <1>7 DEF Recorded, CallTypes, RetTypes
  <2>2. cst' = Shadow(cst.stack, "NONE", RelativeFails(At(m')))
    BY <1>0, <1>3, <2>1, NotifyQuiet
  <2> QED
    BY <1>0, <1>3, <1>4, <2>2, CallstackApplied
<1> QED
  BY <1>5, <1>6, <1>7

LEMMA CallstackHost ==
  ASSUME TypeOK, HandoverInv, CallstackInv, HostHandover, ~ApplyResult
  PROVE  CallstackInv'
<1>1. cst' = cst
  BY DEF HostHandover, BeginLock, CreateThread, RunContinue, EnterWait, TakeResult,
         CopyMachine, JoinThread
<1>2. HookInUse' => HookInUse
  <2>1. CASE CopyMachine
    <3>1. pc = "copy" /\ cur \in Ctx /\ Stage(cur)
      BY <2>1, CurInCtx DEF CopyMachine, HandoverInv, HandoverPcs, HostPcs
    <3>2. state[cur] \in {"ACTIVE", "DONE"}
      BY <3>1 DEF Stage
    <3> QED
      BY <3>1, <3>2 DEF HookInUse
  <2>2. CASE JoinThread
    <3>1. pc = "join" /\ cur \in Ctx /\ Stage(cur)
      BY <2>2, CurInCtx DEF JoinThread, HandoverInv, HandoverPcs, HostPcs
    <3>2. state[cur] = "DONE"
      BY <3>1 DEF Stage
    <3> QED
      BY <3>1, <3>2 DEF HookInUse
  <2>3. CASE ~CopyMachine /\ ~JoinThread
    <3>1. pc' # "apply" /\ state' = state
      BY <2>3 DEF HostHandover, BeginLock, CreateThread, RunContinue, EnterWait,
                  TakeResult, execVars
    <3> QED
      BY <3>1 DEF HookInUse
  <2> QED
    BY <2>1, <2>2, <2>3
<1>3. CallPending' => CallPending
  <2>1. CASE TakeResult
    BY <2>1 DEF TakeResult, CallPending, execVars
  <2>2. CASE CopyMachine
    <3>1. pc = "copy" /\ cur \in Ctx /\ Stage(cur)
      BY <2>2, CurInCtx DEF CopyMachine, HandoverInv, HandoverPcs, HostPcs
    <3>2. res = result[cur] /\ pc' \in {"join", "apply"} /\ res' = res
      BY <2>2, <3>1 DEF Stage, CopyMachine
    <3> QED
      BY <3>1, <3>2 DEF CallPending
  <2>3. CASE JoinThread
    BY <2>3 DEF JoinThread, CallPending
  <2>4. CASE ~TakeResult /\ ~CopyMachine /\ ~JoinThread
    BY <2>4 DEF HostHandover, BeginLock, CreateThread, RunContinue, EnterWait, CallPending
  <2> QED
    BY <2>1, <2>2, <2>3, <2>4
<1> QED
  BY <1>1, <1>2, <1>3, CallstackSame

LEMMA CallstackThread ==
  ASSUME TypeOK, HandoverInv, NestInv, CodeInv, CallstackInv, NEW e \in Ctx,
         ThreadHandover(e) \/ HookStep(e)
  PROVE  CallstackInv'
<1> USE CtxFacts
<1>0. /\ cur = e /\ Stage(e) /\ (tpc[e] = "run" => thread_active = e)
      /\ state \in [Ctx -> ExecStates] /\ result \in [Ctx -> Results]
  BY DEF HandoverInv, Parked, ThreadHandover, HookStep, ThreadStart, ThreadWait,
         ThreadResume, ThreadExit, hydra_impl_call_far, hydra_impl_call_near_off,
         ThreadReturn, TypeOK
<1>1. ASSUME NEW r, Abort(r) PROVE CallstackInv'
  BY <1>1, CallstackSame DEF Abort, HookInUse, CallPending, execVars
<1>2. CASE ThreadHandover(e)
  <2>1. (\E r : Abort(r)) \/ UNCHANGED <<pc, cur, res, state, result, cst>>
    BY <1>2 DEF ThreadHandover, ThreadStart, ThreadWait, ThreadResume, ThreadExit, Restored
  <2>2. CASE UNCHANGED <<pc, cur, res, state, result, cst>>
    BY <2>2, CallstackSame DEF HookInUse, CallPending
  <2> QED
    BY <1>1, <2>1, <2>2
<1>3. ASSUME NEW frame, NEW type, NEW to, NEW reloc, tpc[e] = "run",
             PostCall(e, e, frame, type, to, reloc), Len(cst.stack) < MaxCalls
      PROVE  CallstackInv'
  <2>1. UNCHANGED <<state, cst>> /\ pc' \in {pc, "woken"}
    BY <1>3 DEF PostCall, SignalMain
  <2> QED
    BY <1>3, <2>1, CallstackSame DEF HookInUse
<1>4. ASSUME NEW to, hydra_impl_call_far(e, to) PROVE CallstackInv'
  <2>1. /\ tpc[e] = "run" /\ Len(cst.stack) < MaxCalls
        /\ PostCall(e, e, FarFrame(FarMagic(e), e), "CALL", to, FALSE)
    BY <1>0, <1>4 DEF hydra_impl_call_far
  <2> QED
    BY <1>3, <2>1, Zenon
<1>5. ASSUME NEW to, NEW reloc, hydra_impl_call_near_off(e, to, reloc) PROVE CallstackInv'
  <2>1. tpc[e] = "run" /\ Len(cst.stack) < MaxCalls /\ thread_active = e
    BY <1>0, <1>5 DEF hydra_impl_call_near_off
  <2>2. \/ Abort("near id") \/ Abort("below load segment")
        \/ PostCall(e, e, NearFrame(NearMagicIp(e), e), "CALL_NEAR", to, reloc)
    BY <1>5, <2>1 DEF hydra_impl_call_near_off
  <2> QED
    BY <1>1, <1>3, <2>1, <2>2, Zenon
<1>6. ASSUME NEW r \in Returns(e), ThreadReturn(e, r) PROVE CallstackInv'
  <2>1. /\ cur = e /\ pc = "wait" /\ state[e] = "ACTIVE" /\ LiveRegs = machine[e]
    BY <1>6, HookSegments DEF ThreadReturn
  <2>2. r.type \notin CallTypes
    BY <2>1, ReturnsFit
  <2>3. /\ UNCHANGED <<cur, res, cst>> /\ pc' = "woken" /\ result'[e] = r
        /\ \A d \in Ctx : state'[d] \in {"ACTIVE", "DONE"} => d = e \/ state[d] \in {"ACTIVE", "DONE"}
    BY <1>0, <1>6, <2>1 DEF ThreadReturn, SignalMain
  <2>4. HookInUse
    BY <2>1 DEF HookInUse
  <2> QED
    BY <2>1, <2>2, <2>3, <2>4, CallstackSame DEF CallPending
<1> QED
  BY <1>2, <1>4, <1>5, <1>6 DEF HookStep

LEMMA CallstackStep ==
  ASSUME TypeOK, HandoverInv, NestInv, CodeInv, CallstackInv, [Next]_vars
  PROVE  CallstackInv'
<1>1. CASE UNCHANGED vars
  <2>1. UNCHANGED <<pc, cur, res, state, result, cst>>
    BY <1>1 DEF vars
  <2> QED
    BY <2>1, CallstackSame DEF HookInUse, CallPending
<1>2. CASE Guest
  <2>1. pc' \in {"guest", "stop"} /\ state' = state /\ cst' = cst
    BY <1>2 DEF Guest, GuestCallFar, GuestCallNear, GuestJump, GuestRet, GuestPageIn,
           GuestRelocate, GuestGoesTo, GuestOrStop, execVars
  <2> QED
    BY <2>1, CallstackSame DEF HookInUse, CallPending
<1> QED
  BY <1>1, <1>2, CallstackDispatch, CallstackHost, CallstackApply, CallstackThread
     DEF Next, Step, Stopped

---------------------------------------------------------------------------
(* The process ends only where it must *)

LEMMA FaultQuiet == ASSUME fault' = "none" PROVE FaultInv'
BY DEF FaultInv

LEMMA FaultDispatch ==
  ASSUME TypeOK, HandoverInv, NestInv, CodeInv, CallstackInv, fault = "none", HostDispatch
  PROVE  FaultInv'
<1> USE DEF Dispatch
<1>0. pc = "stop" /\ cur = NoExec
  BY GuestStart DEF HostDispatch, TrackFails, CaptureState, RestoreState, ResumeGuest,
       TryResume, RunBegin, DispatchesHook, RunBeginFails
<1>1. Tracked.fail = "none"
  BY <1>0, TrackedAtRest
<1>2. ASSUME Free = {}, Abort("MAX_EXEC") PROVE FaultInv'
  <2>1. Suspended' = Suspended
    BY <1>2 DEF Abort, Suspended, execVars
  <2>2. Suspended = Ctx
    <3> SUFFICES ASSUME NEW e \in Ctx PROVE e \in Suspended
      BY SuspendedType
    <3>1. state[e] \notin {"UNINIT", "IDLE"} /\ Parked(e)
      BY <1>0, <1>2, CtxFacts DEF Free, HandoverInv
    <3> QED
      BY <1>0, <3>1, CtxFacts DEF Parked, Suspended
  <2> QED
    BY <1>2, <2>1, <2>2 DEF FaultInv, Abort
<1>3. ASSUME Overflowing(At(m)), Abort("overlay tracking") PROVE FaultInv'
  <2>1. UNCHANGED <<m, tracking>> /\ fault' = "overlay tracking"
    BY <1>3 DEF Abort, overlayVars
  <2> QED
    BY <1>3, <2>1 DEF FaultInv, Overflowing, At
<1>4. CASE CaptureState
  <2>1. fault' = "exit 0" /\ m' = m /\ mode' = mode /\ mode = "CAPTURE" /\ At(m) = CaptureAddr
    BY <1>4 DEF CaptureState
  <2> QED
    BY <2>1 DEF FaultInv, At
<1>5. CASE TrackFails
  BY <1>1, <1>5 DEF TrackFails
<1>6. CASE RunBeginFails
  BY <1>2, <1>3, <1>6 DEF RunBeginFails
<1>7. CASE RestoreState \/ ResumeGuest
  BY <1>7, CallstackDispatch, FaultQuiet DEF RestoreState, ResumeGuest, HostDispatch
<1>8. CASE RunBegin \/ \E e \in Ctx : TryResume(e)
  BY <1>8, FaultQuiet DEF RunBegin, TryResume
<1> QED
  BY <1>4, <1>5, <1>6, <1>7, <1>8 DEF HostDispatch

LEMMA FaultThread ==
  ASSUME TypeOK, TypeOK', HandoverInv, NestInv, CodeInv, fault = "none", NEW e \in Ctx,
         ThreadHandover(e) \/ HookStep(e)
  PROVE  FaultInv'
<1> USE CtxFacts
<1>0. tpc[e] = "run" => thread_active = e
  BY DEF HandoverInv
<1>1. CASE ThreadResume(e)
  BY <1>1, CodeResume, FaultQuiet DEF ThreadResume, Restored
<1>2. ASSUME NEW to, NEW reloc, hydra_impl_call_near_off(e, to, reloc) PROVE FaultInv'
  <2>1. tpc[e] = "run" /\ thread_active = e
    BY <1>0, <1>2 DEF hydra_impl_call_near_off
  <2>2. cur = e /\ At(machine[e]) \in HookCode
    BY <2>1, HookSegments
  <2>3. ~(machine[e].cs < CodeStart)
    <3>1. At(machine[e]).cs = machine[e].cs
      BY DEF At
    <3>2. machine[e].cs \in Nat /\ machine[e].cs >= CodeStart
      BY <2>2, <3>1, CodeTypes, CodeAbove
    <3> QED
      BY <3>2, ExecAssumption
  <2>4. CASE e >= NearIds /\ Abort("near id")
    <3>1. Suspended' = Suspended /\ fault' = "near id"
      BY <2>4 DEF Abort, Suspended, execVars
    <3>2. 0 .. e - 1 \subseteq Suspended
      BY <2>2 DEF NestInv, SuspendedInOrder
    <3> QED
      BY <2>4, <3>1, <3>2 DEF FaultInv
  <2>5. CASE fault' = fault
    BY <2>5, FaultQuiet
  <2> QED
    BY <1>2, <2>1, <2>3, <2>4, <2>5 DEF hydra_impl_call_near_off, PostCall
<1>3. CASE UNCHANGED fault
  BY <1>3, FaultQuiet
<1> QED
  BY <1>1, <1>2, <1>3
     DEF ThreadHandover, HookStep, ThreadStart, ThreadWait, ThreadExit,
         hydra_impl_call_far, PostCall, ThreadReturn

LEMMA FaultStep ==
  ASSUME TypeOK, TypeOK', HandoverInv, NestInv, CodeInv, CallstackInv, FaultInv, [Next]_vars
  PROVE  FaultInv'
<1>1. CASE UNCHANGED vars
  <2>1. UNCHANGED <<fault, mode, m, tracking>> /\ Suspended' = Suspended
    BY <1>1 DEF vars, Suspended
  <2> QED
    BY <2>1 DEF FaultInv, At
<1>2. ASSUME fault = "none", Guest PROVE FaultInv'
  BY <1>2, FaultQuiet
     DEF Guest, GuestCallFar, GuestCallNear, GuestJump, GuestRet, GuestPageIn,
         GuestRelocate, GuestGoesTo
<1>3. ASSUME fault = "none", HostHandover PROVE FaultInv'
  BY <1>3, CallstackApply, FaultQuiet
     DEF HostHandover, BeginLock, CreateThread, RunContinue, EnterWait, TakeResult,
         CopyMachine, JoinThread
<1> QED
  BY <1>1, <1>2, <1>3, FaultDispatch, FaultThread DEF Next, Step, Stopped

---------------------------------------------------------------------------
(* The invariant of the execution layer *)

ExecInv ==
  /\ TypeOK /\ HandoverInv /\ FrameInv
  /\ NestInv /\ CodeInv /\ CallstackInv /\ FaultInv

\* Everything above, at every reachable state.
THEOREM ExecCorrect == Spec => []ExecInv
<1>1. Init => ExecInv
  BY TypeInit, HandoverInit, FrameInit, NestInit, CodeInit, CallstackStart
     DEF ExecInv, Init, FaultInv
<1>2. ExecInv /\ [Next]_vars => ExecInv'
  <2> SUFFICES ASSUME ExecInv, [Next]_vars PROVE ExecInv'
    OBVIOUS
  <2>1. TypeOK' /\ HandoverInv' /\ FrameInv'
    BY TypeStep, HandoverStep, FrameStep DEF ExecInv
  <2>2. NestInv' /\ CodeInv'
    BY <2>1, NestStep, CodeStep DEF ExecInv
  <2>3. CallstackInv' /\ FaultInv'
    BY <2>1, CallstackStep, FaultStep DEF ExecInv
  <2> QED
    BY <2>1, <2>2, <2>3 DEF ExecInv
<1> QED
  BY <1>1, <1>2, PTL DEF Spec

---------------------------------------------------------------------------
(* How deep the hooks are nested *)

LEMMA Intervals ==
  ASSUME NEW d \in Nat
  PROVE  /\ IsFiniteSet(0 .. d - 1) /\ Cardinality(0 .. d - 1) = d
         /\ IsFiniteSet(0 .. d) /\ Cardinality(0 .. d) = d + 1
<1>1. IsFiniteSet(0 .. d - 1) /\ Cardinality(0 .. d - 1) = IF 0 > d - 1 THEN 0 ELSE d - 1 - 0 + 1
  BY FS_Interval
<1>2. IsFiniteSet(0 .. d) /\ Cardinality(0 .. d) = IF 0 > d THEN 0 ELSE d - 0 + 1
  BY FS_Interval
<1> QED
  BY <1>1, <1>2

\* A finite set of context numbers that has everything below what it has is
\* an interval from 0.
LEMMA DownwardClosed ==
  ASSUME NEW n \in Nat, NEW S, S \subseteq 0 .. n - 1,
         \A e \in S : \A d \in 0 .. e - 1 : d \in S
  PROVE  Cardinality(S) \in 0 .. n /\ S = 0 .. Cardinality(S) - 1
<1> DEFINE c == Cardinality(S)
<1>1. IsFiniteSet(0 .. n - 1) /\ Cardinality(0 .. n - 1) = n
  BY FS_Interval
<1>2. IsFiniteSet(S) /\ c \in Nat /\ c <= n
  BY <1>1, FS_Subset, FS_CardinalityType
<1>3. \A d \in Nat : /\ IsFiniteSet(0 .. d - 1) /\ Cardinality(0 .. d - 1) = d
                     /\ IsFiniteSet(0 .. d) /\ Cardinality(0 .. d) = d + 1
  BY Intervals
<1>4. ASSUME NEW d \in 0 .. c - 1 PROVE d \in S
  <2> SUFFICES ASSUME d \notin S PROVE FALSE
    OBVIOUS
  <2>1. d \in Nat /\ d < c
    BY <1>2
  <2>2. S \subseteq 0 .. d - 1
    <3> SUFFICES ASSUME NEW e \in S, ~(e \in 0 .. d - 1) PROVE FALSE
      OBVIOUS
    <3>1. e \in Nat /\ e # d /\ e >= d
      BY <2>1
    <3>2. d \in 0 .. e - 1
      BY <2>1, <3>1
    <3> QED
      BY <3>2
  <2>3. c <= Cardinality(0 .. d - 1)
    BY <1>3, <2>1, <2>2, FS_Subset
  <2>4. c <= d
    BY <1>3, <2>1, <2>3
  <2> HIDE DEF c
  <2> QED
    BY <1>2, <2>1, <2>4
<1>5. ASSUME NEW e \in S PROVE e \in 0 .. c - 1
  <2>1. e \in Nat /\ 0 .. e \subseteq S
    <3>1. e \in Nat
      OBVIOUS
    <3>2. ASSUME NEW d \in 0 .. e PROVE d \in S
      <4>1. d = e \/ d \in 0 .. e - 1
        BY <3>1
      <4> QED
        BY <4>1
    <3> QED
      BY <3>1, <3>2
  <2>2. Cardinality(0 .. e) <= c
    BY <1>2, <2>1, FS_Subset
  <2>3. e + 1 <= c
    BY <1>3, <2>1, <2>2
  <2> HIDE DEF c
  <2> QED
    BY <1>2, <2>1, <2>3
<1>6. c \in 0 .. n
  BY <1>2
<1>7. S = 0 .. c - 1
  BY <1>4, <1>5
<1> QED
  BY <1>6, <1>7

Depth == Cardinality(Suspended)

LEMMA DepthFacts ==
  ASSUME TypeOK, HandoverInv, NestInv
  PROVE  /\ Depth \in 0 .. MaxExec /\ Suspended = 0 .. Depth - 1
         /\ cur # NoExec /\ cur \in Suspended => cur \in Nat /\ Depth = cur + 1
         /\ cur # NoExec /\ cur \notin Suspended => cur \in Nat /\ Depth = cur
         /\ back # NoExec => back \in Nat /\ Depth = back + 1
<1>1. MaxExec \in Nat /\ Suspended \subseteq 0 .. MaxExec - 1
  BY CtxFacts, SuspendedType DEF Ctx
<1>2. \A e \in Suspended : \A d \in 0 .. e - 1 : d \in Suspended
  BY DEF NestInv, SuspendedInOrder
<1>3. Depth \in 0 .. MaxExec /\ Suspended = 0 .. Depth - 1
  BY <1>1, <1>2, DownwardClosed DEF Depth
<1>4. cur # NoExec => cur \in Ctx /\ cur \in Nat
  BY CurInCtx, CtxFacts DEF HandoverInv
<1>5. ASSUME NEW x \in Suspended, \A e \in Suspended : e <= x PROVE x \in Nat /\ Depth = x + 1
  <2>1. x \in Nat /\ Depth - 1 \in Suspended
    BY <1>3, <1>5
  <2> QED
    BY <1>3, <1>5, <2>1
<1>6. ASSUME cur # NoExec, cur \notin Suspended PROVE Depth = cur
  <2>1. /\ \A d \in 0 .. cur - 1 : d \in Suspended
        /\ \A e \in Suspended : e <= cur
    BY <1>6 DEF NestInv, SuspendedInOrder
  <2>2. Depth <= cur
    <3> SUFFICES ASSUME Depth > cur PROVE FALSE
      BY <1>3, <1>4, <1>6
    <3>1. cur \in 0 .. Depth - 1
      BY <1>3, <1>4, <1>6
    <3> QED
      BY <1>3, <1>6, <3>1
  <2>3. Depth >= cur
    <3> SUFFICES ASSUME Depth < cur PROVE FALSE
      BY <1>3, <1>4, <1>6
    <3>1. Depth \in 0 .. cur - 1
      BY <1>3, <1>4, <1>6
    <3>2. Depth \in Suspended
      BY <2>1, <3>1
    <3> QED
      BY <1>3, <3>2
  <2> QED
    BY <1>3, <1>4, <1>6, <2>2, <2>3
<1>7. cur # NoExec /\ cur \in Suspended => \A e \in Suspended : e <= cur
  BY DEF NestInv, SuspendedInOrder
<1>8. back # NoExec => back \in Suspended /\ \A e \in Suspended : e <= back
  BY DEF NestInv, FramesInOrder
<1> QED
  BY <1>3, <1>4, <1>5, <1>6, <1>7, <1>8

\* Frames F whose contexts f increase along the stack and fill 0 .. n - 1: the
\* frame of context e is the one of rank e + 1.
Ranked(F, f, n) ==
  /\ n \in Nat /\ f \in [F -> 0 .. n - 1] /\ F \subseteq Nat
  /\ \A j, k \in F : j < k => f[j] < f[k]
  /\ \A e \in 0 .. n - 1 : \E k \in F : f[k] = e

Rank(F, k) == Cardinality({j \in F : j <= k})

LEMMA RanksOfFrames ==
  ASSUME NEW n, NEW F, NEW f, Ranked(F, f, n)
  PROVE  Cardinality(F) = n /\ \A k \in F : Rank(F, k) = f[k] + 1
<1> USE DEF Ranked
<1>1. \A d \in Nat : /\ IsFiniteSet(0 .. d - 1) /\ Cardinality(0 .. d - 1) = d
                     /\ IsFiniteSet(0 .. d) /\ Cardinality(0 .. d) = d + 1
  BY Intervals
<1>2. \A j, k \in F : f[j] = f[k] => j = k
  <2> SUFFICES ASSUME NEW j \in F, NEW k \in F, f[j] = f[k], j # k PROVE FALSE
    OBVIOUS
  <2>1. j < k \/ k < j
    OBVIOUS
  <2>2. f[j] \in Nat /\ f[k] \in Nat
    OBVIOUS
  <2> QED
    BY <2>1, <2>2
<1>3. Cardinality(F) = n
  <2>1. f \in Injection(F, 0 .. n - 1) /\ f \in Surjection(F, 0 .. n - 1)
    BY <1>2 DEF Injection, IsInjective, Surjection
  <2> QED
    BY <1>1, <2>1, FS_Injection
<1>4. ASSUME NEW k \in F PROVE Rank(F, k) = f[k] + 1
  <2> DEFINE G == {j \in F : j <= k}
  <2>1. PICK g : g = [j \in G |-> f[j]]
    OBVIOUS
  <2>2. f[k] \in Nat
    OBVIOUS
  <2>3. \A j \in G : f[j] \in 0 .. f[k]
    <3> SUFFICES ASSUME NEW j \in G PROVE f[j] \in 0 .. f[k]
      OBVIOUS
    <3>1. j = k \/ j < k
      OBVIOUS
    <3>2. f[j] \in Nat
      OBVIOUS
    <3> QED
      BY <2>2, <3>1, <3>2
  <2>4. \A e \in 0 .. f[k] : \E j \in G : f[j] = e
    <3> SUFFICES ASSUME NEW e \in 0 .. f[k] PROVE \E j \in G : f[j] = e
      OBVIOUS
    <3>1. e \in 0 .. n - 1
      BY <2>2
    <3>2. PICK j \in F : f[j] = e
      BY <3>1
    <3>3. ~(k < j)
      BY <2>2, <3>2
    <3> QED
      BY <3>2, <3>3
  <2>5. g \in Injection(G, 0 .. f[k])
    <3>1. g \in [G -> 0 .. f[k]]
      BY <2>1, <2>3
    <3>2. \A j, i \in G : g[j] = g[i] => j = i
      BY <1>2, <2>1
    <3> HIDE DEF G
    <3> QED
      BY <3>1, <3>2 DEF Injection, IsInjective
  <2>6. g \in Surjection(G, 0 .. f[k])
    <3>1. g \in [G -> 0 .. f[k]]
      BY <2>1, <2>3
    <3>2. \A e \in 0 .. f[k] : \E j \in G : g[j] = e
      BY <2>1, <2>4
    <3> HIDE DEF G
    <3> QED
      BY <3>1, <3>2 DEF Surjection
  <2>7. Cardinality(G) = Cardinality(0 .. f[k])
    BY <1>1, <2>2, <2>5, <2>6, FS_Injection
  <2> QED
    BY <1>1, <2>2, <2>7 DEF Rank
<1> QED
  BY <1>3, <1>4

\* The first d contexts, outermost first.
Outermost(d) == [k \in 1 .. d |-> k - 1]

LEMMA OutermostFacts ==
  ASSUME NEW d \in Nat
  PROVE  /\ Outermost(d) \in Seq(Nat) /\ Len(Outermost(d)) = d
         /\ \A k \in 1 .. d : Outermost(d)[k] = k - 1
         /\ Append(Outermost(d), d) = Outermost(d + 1)
         /\ Outermost(d) \o <<>> = Outermost(d)
         /\ Outermost(d) \o <<d>> = Outermost(d + 1)
         /\ Front(Outermost(d + 1)) = Outermost(d)
         /\ Outermost(d + 1) # <<>>
         /\ SubSeq(Outermost(d + 1), 1, Len(Outermost(d + 1)) - 1) = Outermost(d)
<1>1. \A n \in Nat : /\ Outermost(n) \in Seq(Nat) /\ Len(Outermost(n)) = n
                     /\ \A k \in 1 .. n : Outermost(n)[k] = k - 1
  BY DEF Outermost
<1>2. PICK s \in Seq(Nat) : s = Outermost(d)
  BY <1>1
<1>3. PICK t \in Seq(Nat) : t = Outermost(d + 1)
  BY <1>1
<1>4. /\ Len(s) = d /\ \A k \in 1 .. d : s[k] = k - 1
      /\ Len(t) = d + 1 /\ \A k \in 1 .. d + 1 : t[k] = k - 1
  <2>1. PICK e \in Nat : e = d + 1
    OBVIOUS
  <2>2. Len(Outermost(e)) = e /\ \A k \in 1 .. e : Outermost(e)[k] = k - 1
    BY <1>1
  <2>3. Len(s) = d /\ \A k \in 1 .. d : s[k] = k - 1
    BY <1>1, <1>2
  <2> QED
    BY <1>3, <2>1, <2>2, <2>3
<1>5. Append(s, d) = t
  <2>1. Append(s, d) \in Seq(Nat) /\ Len(Append(s, d)) = Len(t)
    BY <1>4
  <2>2. \A i \in 1 .. Len(Append(s, d)) : Append(s, d)[i] = t[i]
    BY <1>4
  <2> QED
    BY <2>1, <2>2, SeqEqual
<1>6. s \o <<>> = s
  OBVIOUS
<1>7. s \o <<d>> = t
  <2>1. s \o <<d>> = Append(s, d)
    OBVIOUS
  <2> QED
    BY <1>5, <2>1
<1>8. SubSeq(t, 1, Len(t) - 1) = s
  <2>1. SubSeq(t, 1, Len(t) - 1) \in Seq(Nat) /\ Len(SubSeq(t, 1, Len(t) - 1)) = Len(s)
    BY <1>4
  <2>2. \A i \in 1 .. Len(SubSeq(t, 1, Len(t) - 1)) : SubSeq(t, 1, Len(t) - 1)[i] = s[i]
    BY <1>4
  <2> QED
    BY <2>1, <2>2, SeqEqual
<1>9. Front(t) = s
  BY <1>8 DEF Front
<1>10. t # <<>>
  BY <1>4
<1> QED
  BY <1>1, <1>2, <1>3, <1>5, <1>6, <1>7, <1>8, <1>9, <1>10, Zenon

\* The magic return addresses on the stack name the suspended contexts,
\* outermost first, each once.
LEMMA MagicOrderIs ==
  ASSUME TypeOK, HandoverInv, NestInv PROVE MagicOrder = Outermost(Depth)
<1> DEFINE F == MagicFrames
           n == IF back = NoExec THEN Depth ELSE back
<1>0. Depth \in Nat /\ Suspended = 0 .. Depth - 1 /\ n \in Nat
  BY DepthFacts, CtxFacts
<1>1. F \subseteq Nat /\ NoExec = MaxExec
  BY DEF MagicFrames, NoExec
<1>2. PICK f : f = [k \in F |-> mem[k].by]
  OBVIOUS
<1>3. \A k \in F : mem[k].by \in Suspended /\ mem[k].by # back
  BY DEF NestInv, FramesInOrder
<1>4. \A e : e \in Suspended /\ e # back <=> e \in 0 .. n - 1
  <2>1. CASE back = NoExec
    BY <1>0, <2>1, SuspendedType
  <2>2. CASE back # NoExec
    <3>1. back \in Nat /\ Depth = back + 1 /\ n = back
      BY <2>2, DepthFacts
    <3> HIDE DEF n
    <3> QED
      BY <1>0, <3>1
  <2> QED
    BY <2>1, <2>2
<1>5. f \in [F -> 0 .. n - 1]
  <2>1. \A k \in F : mem[k].by \in 0 .. n - 1
    BY <1>3, <1>4
  <2> HIDE DEF F, n
  <2> QED
    BY <1>2, <2>1
<1>6. \A j, k \in F : j < k => f[j] < f[k]
  <2>1. \A j, k \in F : j < k => mem[j].by < mem[k].by
    BY DEF NestInv, FramesInOrder
  <2> HIDE DEF F
  <2> QED
    BY <1>2, <2>1
<1>7. \A e \in 0 .. n - 1 : \E k \in F : f[k] = e
  <2> SUFFICES ASSUME NEW e \in 0 .. n - 1 PROVE \E k \in F : f[k] = e
    OBVIOUS
  <2>1. e \in Suspended /\ e # back
    BY <1>4
  <2>2. PICK k \in F : mem[k].by = e
    BY <2>1 DEF NestInv, FramesInOrder
  <2> HIDE DEF F, n
  <2> QED
    BY <1>2, <2>2
<1>8. Cardinality(F) = n /\ \A k \in F : Rank(F, k) = f[k] + 1
  <2>1. Ranked(F, f, n)
    BY <1>0, <1>1, <1>5, <1>6, <1>7, Zenon DEF Ranked
  <2> HIDE DEF F, n
  <2> QED
    BY <2>1, RanksOfFrames, Zenon
<1>9. \A k \in F : MagicRank(k) = mem[k].by + 1
  <2> SUFFICES ASSUME NEW k \in F PROVE MagicRank(k) = mem[k].by + 1
    OBVIOUS
  <2>1. MagicRank(k) = Rank(F, k)
    BY Zenon DEF MagicRank, Rank
  <2>2. f[k] = mem[k].by
    BY <1>2
  <2> HIDE DEF F
  <2> QED
    BY <1>8, <2>1, <2>2
<1>10. ASSUME NEW i \in 1 .. n
       PROVE  mem[CHOOSE k \in F : MagicRank(k) = i].by = i - 1
  <2>1. i - 1 \in 0 .. n - 1 /\ i \in Nat
    BY <1>0
  <2>2. PICK k \in F : mem[k].by = i - 1
    BY <1>2, <1>7, <2>1
  <2>3. MagicRank(k) = i
    BY <1>9, <2>1, <2>2
  <2>4. PICK c : c = CHOOSE k1 \in F : MagicRank(k1) = i
    OBVIOUS
  <2>5. c \in F /\ MagicRank(c) = i
    BY <2>3, <2>4
  <2>6. mem[c].by + 1 = i /\ mem[c].by \in Nat
    BY <1>0, <1>3, <1>9, <2>5
  <2> QED
    BY <2>1, <2>4, <2>6
<1>11. [i \in 1 .. Cardinality(F) |-> mem[CHOOSE k \in F : MagicRank(k) = i].by] = Outermost(n)
  <2> HIDE DEF n
  <2> QED
    BY <1>8, <1>10 DEF Outermost
<1>12. MagicOrder = Outermost(n) \o (IF back = NoExec THEN <<>> ELSE <<back>>)
  <2> HIDE DEF n
  <2> QED
    BY <1>11 DEF MagicOrder
<1>13. CASE back = NoExec
  <2>1. MagicOrder = Outermost(Depth) \o <<>>
    BY <1>12, <1>13
  <2> QED
    BY <1>0, <2>1, OutermostFacts
<1>14. CASE back # NoExec
  <2>1. MagicOrder = Outermost(back) \o <<back>>
    BY <1>12, <1>14
  <2>2. back \in Nat /\ Depth = back + 1
    BY <1>14, DepthFacts
  <2> QED
    BY <2>1, <2>2, OutermostFacts
<1> QED
  BY <1>13, <1>14

---------------------------------------------------------------------------
(* The theorems *)

LEMMA NestingMatchesInv == ASSUME TypeOK, HandoverInv, NestInv PROVE NestingMatches
<1>1. Depth \in Nat /\ Suspended = 0 .. Depth - 1
  BY DepthFacts, CtxFacts
<1>2. MagicOrder = [k \in 1 .. Cardinality(Suspended) |-> k - 1]
  BY MagicOrderIs DEF Outermost, Depth
<1>3. ASSUME NEW e \in Ctx, state[e] \in {"ACTIVE", "DONE"}
      PROVE  e \in Suspended \cup (IF pc \in HandoverPcs THEN {cur} ELSE {})
  <2>1. CASE e = cur
    BY <2>1, CtxFacts DEF HandoverInv
  <2>2. CASE e # cur
    BY <1>3, <2>2, SuspendedParked
  <2> QED
    BY <2>1, <2>2
<1> QED
  BY <1>1, <1>2, <1>3 DEF NestingMatches, Depth

\* Hooks are taken and released like a stack, for any number of contexts: the
\* first free context is always the one above the suspended ones, and the
\* magic return addresses name the suspended ones in order
\* (exec.c execution_acquire); no hook is dispatched while a capture or a
\* restore is pending.
THEOREM HookDisciplineAlways == Spec => []HookDiscipline
<1>1. ExecInv => HookDiscipline
  BY NestingMatchesInv
     DEF ExecInv, HookDiscipline, SpecialModesRunNoHook, NestInv, SpecialModes, FaultInv
<1> QED
  BY <1>1, ExecCorrect, PTL

LEMMA ReturnsFoundInv ==
  ASSUME TypeOK, HandoverInv, NestInv, CodeInv, FaultInv PROVE ReturnsFound
<1>1. NoMissedReturn
  BY DEF NoMissedReturn, NestInv, FramesInOrder
<1>2. NoDerail
  <2> SUFFICES ASSUME pc = "guest" PROVE At(m) \in GuestCode
    BY DEF NoDerail
  <2>1. back = NoExec
    BY <1>1 DEF NoMissedReturn
  <2> QED
    BY <2>1, HereInCode
<1>3. IsFiniteSet(Suspended) /\ Cardinality(Ctx) = MaxExec /\ IsFiniteSet(Ctx)
  <2>1. IsFiniteSet(Ctx) /\ Cardinality(Ctx) = MaxExec
    BY CtxFacts, Intervals DEF Ctx
  <2> QED
    BY <2>1, SuspendedType, FS_Subset
<1>4. ASSUME NEW e \in Ctx, e >= NearIds, 0 .. e - 1 \subseteq Suspended
      PROVE  Cardinality(Suspended) >= NearIds
  <2>1. e \in Nat /\ NearIds \in Nat
    BY CtxFacts, ExecAssumption
  <2>2. Cardinality(0 .. e - 1) = e
    BY <2>1, Intervals
  <2>3. e <= Cardinality(Suspended) /\ Cardinality(Suspended) \in Nat
    <3>1. Cardinality(Suspended) \in Nat
      BY <1>3, FS_CardinalityType
    <3>2. 0 .. e - 1 \in SUBSET Suspended
      BY <1>4
    <3>3. Cardinality(0 .. e - 1) <= Cardinality(Suspended)
      BY <1>3, <3>2, FS_Subset, Zenon
    <3> QED
      BY <2>2, <3>1, <3>3
  <2> QED
    BY <1>4, <2>1, <2>3
<1>5. AbortsOnlyAtLimits
  BY <1>3, <1>4 DEF FaultInv, AbortsOnlyAtLimits
<1> QED
  BY <1>1, <1>2, <1>5 DEF ReturnsFound

\* Every return to a hook is found and nothing else is taken for one, the
\* guest only ever executes guest code, and the process ends by a FAIL or an
\* assertion only when all the contexts, the near context numbers or the
\* overlay table are used up (exec.c try_resume, run_begin; machine.c;
\* callstack.c; overlay.c).
THEOREM ReturnsFoundAlways == Spec => []ReturnsFound
<1>1. ExecInv => ReturnsFound
  BY ReturnsFoundInv DEF ExecInv
<1> QED
  BY <1>1, ExecCorrect, PTL

\* A hook runs in the segment its overlay is in now, whatever the pager moved
\* while it was suspended, and its returns are found there.
THEOREM OverlayHooksSafeAlways == Spec => []OverlayHooksSafe
<1>1. ExecInv => HooksFollowOverlay
  BY HookSegments DEF ExecInv, HooksFollowOverlay, Placed
<1> QED
  BY <1>1, ExecCorrect, ReturnsFoundAlways, PTL DEF OverlayHooksSafe

LEMMA StepResumesReturn ==
  ASSUME ExecInv, Next, pc = "stop", pc' = "continue" PROVE back = cur'
<1>1. HostDispatch
  <2>1. ~Guest /\ ~HostHandover /\ ~Stopped
    BY DEF Guest, GuestCallFar, GuestCallNear, GuestJump, GuestRet, GuestPageIn,
           GuestRelocate, HostHandover, BeginLock, CreateThread, RunContinue, EnterWait,
           TakeResult, CopyMachine, JoinThread, ApplyResult, Stopped, vars
  <2>2. ASSUME NEW e \in Ctx, ThreadHandover(e) \/ HookStep(e) PROVE FALSE
    BY <2>2
       DEF ThreadHandover, HookStep, ThreadStart, ThreadWait, ThreadResume, Restored,
           Abort, ThreadExit, hydra_impl_call_far, hydra_impl_call_near_off, PostCall,
           ThreadReturn, SignalMain
  <2> QED
    BY <2>1, <2>2 DEF Next, Step
<1>2. PICK e \in Ctx : TryResume(e)
  BY <1>1 DEF HostDispatch, TrackFails, CaptureState, RestoreState, ResumeGuest, RunBegin,
              RunBeginFails, Abort
<1> QED
  BY <1>2, Recognised DEF TryResume, ReturnsRecognised, ExecInv

LEMMA StepPreservesRegisters ==
  ASSUME ExecInv, ExecInv', Next, NEW e \in Ctx, tpc[e] = "woken", tpc'[e] = "run"
  PROVE  /\ machine'[e].ip = saved[e].ip
         /\ machine'[e].cs = saved[e].cs \/ saved[e].reloc
         /\ \A k \in 1 .. machine'[e].sp : mem[k].by < e \/ mem[k].by = NoExec
<1> USE CtxFacts DEF ExecInv
<1>0. tpc \in [Ctx -> ThreadPcs] /\ machine \in [Ctx -> Regs]
  BY DEF TypeOK
<1>1. ThreadResume(e)
  <2>1. ASSUME tpc' = tpc PROVE FALSE
    BY <2>1
  <2>2. ~Guest /\ ~HostDispatch /\ ~Stopped
    BY <2>1
       DEF Guest, GuestCallFar, GuestCallNear, GuestJump, GuestRet, GuestPageIn,
           GuestRelocate, GuestGoesTo, HostDispatch, TrackFails, CaptureState, RestoreState,
           ResumeGuest, TryResume, RunBegin, RunBeginFails, Abort, Stopped, vars, execVars
  <2>3. ~HostHandover
    <3>1. ~ApplyResult /\ ~BeginLock /\ ~EnterWait /\ ~TakeResult /\ ~CopyMachine
      BY <2>1 DEF ApplyResult, BeginLock, EnterWait, TakeResult, CopyMachine, execVars
    <3>2. ~CreateThread /\ ~JoinThread /\ ~RunContinue
      BY <1>0 DEF CreateThread, JoinThread, RunContinue
    <3> QED
      BY <3>1, <3>2 DEF HostHandover
  <2>4. ASSUME NEW d \in Ctx, HookStep(d) PROVE FALSE
    BY <1>0, <2>1, <2>4
       DEF HookStep, hydra_impl_call_far, hydra_impl_call_near_off, PostCall, Abort,
           ThreadReturn, execVars
  <2>5. ASSUME NEW d \in Ctx, ThreadHandover(d) PROVE ThreadResume(e)
    <3>1. d = e
      BY <1>0, <2>1, <2>5
         DEF ThreadHandover, ThreadStart, ThreadWait, ThreadResume, Restored, ThreadExit,
             Abort, execVars
    <3> QED
      BY <2>5, <3>1 DEF ThreadHandover, ThreadStart, ThreadWait, ThreadExit
  <2> QED
    BY <2>2, <2>3, <2>4, <2>5 DEF Next, Step
<1>2. result[e].type = "CALL_NEAR" /\ ~saved[e].reloc => machine[e].cs = saved[e].cs
  BY <1>1, CodeResume
<1>3. Restored(e, e, SavedRegs(e, result[e].type = "CALL_NEAR"))
  BY <1>1, <1>2 DEF ThreadResume
<1>4. machine'[e] = SavedRegs(e, result[e].type = "CALL_NEAR")
  BY <1>0, <1>3 DEF Restored
<1>5. /\ machine'[e].ip = saved[e].ip /\ machine'[e].sp = machine[e].sp
      /\ machine'[e].cs = saved[e].cs \/ saved[e].reloc
  BY <1>2, <1>4 DEF SavedRegs
<1>6. cur = e /\ LiveRegs = machine[e] /\ e \notin Suspended
  <2>1. cur = e /\ Stage(e)
    BY <1>1 DEF ThreadResume, HandoverInv, Parked
  <2>2. pc = "wait"
    BY <1>1, <2>1 DEF ThreadResume, Stage
  <2> QED
    BY <2>1, <2>2 DEF LiveRegs, Suspended
<1>7. ASSUME NEW k \in 1 .. machine'[e].sp, mem[k].by # NoExec PROVE mem[k].by < e
  <2>1. k \in MagicFrames
    BY <1>5, <1>6, <1>7 DEF MagicFrames
  <2>2. mem[k].by \in Suspended
    BY <2>1 DEF NestInv, FramesInOrder
  <2>3. mem[k].by <= e /\ mem[k].by # e
    BY <1>6, <2>2 DEF NestInv, SuspendedInOrder
  <2>4. mem[k].by \in Nat /\ e \in Nat
    BY <2>2, SuspendedType
  <2> QED
    BY <2>3, <2>4
<1> QED
  BY <1>5, <1>7

\* A hook is resumed only by the return of the guest function it called, and
\* finds the registers it called with (exec.c try_resume, machine.c call
\* seams).
THEOREM StepsDisciplinedAlways == Spec => StepsDisciplined
<1>1. ExecInv /\ [Next]_vars => [pc = "stop" /\ pc' = "continue" => back = cur']_vars
  BY StepResumesReturn
<1>2. ExecInv /\ ExecInv' /\ [Next]_vars =>
        [\A e \in Ctx : tpc[e] = "woken" /\ tpc'[e] = "run" =>
           /\ machine'[e].ip = saved[e].ip
           /\ machine'[e].cs = saved[e].cs \/ saved[e].reloc
           /\ \A k \in 1 .. machine'[e].sp : mem[k].by < e \/ mem[k].by = NoExec]_vars
  BY StepPreservesRegisters
<1> QED
  BY <1>1, <1>2, ExecCorrect, PTL
     DEF Spec, StepsDisciplined, ResumesOnlyReturns, CallsPreserveRegisters

---------------------------------------------------------------------------
(* The execution layer implements the coroutines *)

\* The hook that runs has the next number after the suspended ones.
Nested == IF cur # NoExec THEN cur ELSE Depth
CoroutineNest ==
  IF pc \in {"wait", "woken", "copy"} /\ tpc[cur] \in {"posted", "wait"}
  THEN Front(MagicOrder) ELSE MagicOrder
CoroutineRun == IF pc \in HandoverPcs THEN cur ELSE NoExec

ViewIs == CoroutineNest = Outermost(Nested) /\ CoroutineRun = cur /\ Nested \in Nat

LEMMA CoroutineView == ExecInv => ViewIs
<1> SUFFICES ASSUME ExecInv
             PROVE  CoroutineNest = Outermost(Nested) /\ CoroutineRun = cur /\ Nested \in Nat
  BY DEF ViewIs
<1> USE DEF ExecInv
<1>1. MagicOrder = Outermost(Depth) /\ Depth \in Nat
  BY MagicOrderIs, DepthFacts, CtxFacts
<1>2. CoroutineRun = cur
  BY DEF CoroutineRun, HandoverInv
<1>3. CASE cur = NoExec
  <2>1. pc \notin {"wait", "woken", "copy"}
    BY <1>3 DEF HandoverInv, HandoverPcs, HostPcs
  <2> QED
    BY <1>1, <1>2, <1>3, <2>1 DEF CoroutineNest, Nested
<1>4. CASE cur # NoExec
  <2>1. cur \in Ctx /\ Stage(cur) /\ cur \in Nat
    BY <1>4, CurInCtx, CtxFacts DEF HandoverInv
  <2>2. CASE cur \in Suspended
    <3>1. Depth = cur + 1
      BY <1>4, <2>2, DepthFacts
    <3>2. pc \in {"wait", "woken", "copy"} /\ tpc[cur] \in {"posted", "wait"}
      BY <2>1, <2>2 DEF Suspended, Stage
    <3> QED
      BY <1>1, <1>2, <1>4, <2>1, <3>1, <3>2, OutermostFacts DEF CoroutineNest, Nested
  <2>3. CASE cur \notin Suspended
    <3>1. Depth = cur
      BY <1>4, <2>3, DepthFacts
    <3>2. ~(pc \in {"wait", "woken", "copy"} /\ tpc[cur] \in {"posted", "wait"})
      BY <2>1, <2>3 DEF Suspended, Stage
    <3> QED
      BY <1>1, <1>2, <1>4, <2>1, <3>1, <3>2 DEF CoroutineNest, Nested
  <2> QED
    BY <2>2, <2>3
<1> QED
  BY <1>3, <1>4

\* Every step moves the nesting like a step of the coroutines, or not at all.
NestStepOf ==
  \/ \E e \in Ctx : /\ cur = NoExec /\ cur' = e /\ Nested = e /\ Nested' = e    \* Begin
  \/ /\ cur # NoExec /\ cur' = NoExec /\ Nested' = cur + 1                      \* Suspend
  \/ /\ cur = NoExec /\ cur' \in Nat /\ Nested = cur' + 1 /\ Nested' = cur'     \* Resume
  \/ /\ cur # NoExec /\ cur' = NoExec /\ Nested' = Nested                       \* Finish
  \/ cur' = cur /\ Nested' = Nested

LEMMA NestMoves == ASSUME ExecInv, ExecInv', [Next]_vars PROVE NestStepOf
<1> USE CtxFacts DEF ExecInv
<1>0. Depth \in Nat /\ Suspended = 0 .. Depth - 1
  BY DepthFacts
<1>1. ASSUME cur' = cur, cur # NoExec \/ Suspended' = Suspended PROVE NestStepOf
  BY <1>1 DEF NestStepOf, Nested, NoExec, Depth
<1>2. ASSUME cur' = cur, UNCHANGED <<state, tpc>>, cur = NoExec PROVE NestStepOf
  <2>1. Suspended' = Suspended
    BY <1>2 DEF Suspended, NoExec
  <2> QED
    BY <1>1, <1>2, <2>1
<1>3. CASE UNCHANGED vars
  BY <1>1, <1>2, <1>3 DEF vars
<1>4. CASE Guest
  BY <1>1, <1>2, <1>4, GuestOutside DEF execVars
<1>5. CASE HostDispatch
  <2>0. pc = "stop" /\ cur = NoExec /\ \A e \in Ctx : e \in Suspended <=> state[e] = "ACTIVE"
    BY <1>5, GuestStart
       DEF HostDispatch, TrackFails, CaptureState, RestoreState, ResumeGuest, TryResume,
           RunBegin, DispatchesHook, RunBeginFails, Dispatch
  <2>1. CASE TrackFails \/ CaptureState \/ RestoreState \/ ResumeGuest \/ RunBeginFails
    <3>1. cur' = cur /\ UNCHANGED <<state, tpc>>
      BY <2>1 DEF TrackFails, CaptureState, RestoreState, ResumeGuest, RunBeginFails, Abort,
                  execVars
    <3> QED
      BY <1>2, <2>0, <3>1
  <2>2. ASSUME NEW e \in Ctx, TryResume(e) PROVE NestStepOf
    <3>1. cur' = e /\ e = back /\ e # NoExec /\ e \in Nat
      BY <2>0, <2>2, Recognised DEF TryResume, ReturnsRecognised
    <3>2. Depth = e + 1
      BY <3>1, DepthFacts
    <3> QED
      BY <2>0, <3>1, <3>2 DEF NestStepOf, Nested, NoExec
  <2>3. CASE RunBegin
    <3>1. PICK e \in Ctx : execution_acquire(e) /\ cur' = e
      BY <2>3 DEF RunBegin
    <3>2. e \in Nat /\ e \notin Suspended
      BY <2>0, <3>1 DEF execution_acquire, Free
    <3>3. ASSUME NEW d \in 0 .. e - 1 PROVE d \in Suspended
      <4>1. d \in Ctx /\ d < e
        BY <3>1, <3>2 DEF Ctx
      <4>2. d \notin Free
        BY <3>1, <3>2, <4>1 DEF execution_acquire
      <4>3. state[d] \notin {"UNINIT", "IDLE"} /\ Parked(d)
        BY <2>0, <4>1, <4>2 DEF Free, HandoverInv
      <4> QED
        BY <2>0, <4>1, <4>3 DEF Parked
    <3>4. Depth = e
      <4>1. ~(e < Depth)
        BY <1>0, <3>2
      <4>2. ~(Depth < e)
        <5> SUFFICES ASSUME Depth < e PROVE FALSE
          OBVIOUS
        <5>1. Depth \in 0 .. e - 1
          BY <1>0, <3>2
        <5>2. Depth \in 0 .. Depth - 1
          BY <1>0, <3>3, <5>1
        <5> QED
          BY <1>0, <5>2
      <4> QED
        BY <1>0, <3>2, <4>1, <4>2
    <3> QED
      BY <2>0, <3>1, <3>2, <3>4 DEF NestStepOf, Nested, NoExec
  <2> QED
    BY <1>5, <2>1, <2>2, <2>3 DEF HostDispatch
<1>6. CASE HostHandover
  <2>1. CASE ApplyResult
    BY <1>1, <1>2, <2>1 DEF ApplyResult, execVars
  <2>2. CASE CopyMachine \/ JoinThread
    <3>1. pc \in {"copy", "join"} /\ cur # NoExec /\ Stage(cur) /\ cur \in Ctx /\ cur \in Nat
      BY <2>2, CurInCtx DEF CopyMachine, JoinThread, HandoverInv, HandoverPcs, HostPcs
    <3>2. CASE cur' = cur
      BY <1>1, <3>1, <3>2
    <3>3. CASE CopyMachine /\ cur' # cur
      <4>1. cur' = NoExec /\ UNCHANGED <<state, tpc>> /\ state[cur] # "DONE" /\ pc = "copy"
        BY <3>3 DEF CopyMachine, execVars
      <4>2. state[cur] = "ACTIVE" /\ tpc[cur] = "wait"
        BY <3>1, <4>1 DEF Stage
      <4>3. cur \in Suspended /\ Suspended' = Suspended
        BY <3>1, <4>1, <4>2 DEF Suspended, NoExec
      <4>4. Depth = cur + 1 /\ Depth' = Depth
        BY <3>1, <4>3, DepthFacts DEF Depth
      <4> QED
        BY <3>1, <4>1, <4>4 DEF NestStepOf, Nested, NoExec
    <3>4. CASE JoinThread
      <4>1. cur' = NoExec /\ pc = "join" /\ state' = [state EXCEPT ![cur] = "IDLE"]
            /\ tpc' = [tpc EXCEPT ![cur] = "none"]
        BY <3>4 DEF JoinThread
      <4>2. cur \notin Suspended
        BY <3>1, <4>1 DEF Stage, Suspended
      <4>3. Suspended' = Suspended
        BY <3>1, <4>1, <4>2 DEF Suspended, TypeOK, NoExec
      <4>4. Depth = cur /\ Depth' = Depth
        BY <3>1, <4>2, <4>3, DepthFacts DEF Depth
      <4> QED
        BY <3>1, <4>1, <4>4 DEF NestStepOf, Nested, NoExec
    <3> QED
      BY <2>2, <3>2, <3>3, <3>4
  <2>3. CASE BeginLock \/ CreateThread \/ RunContinue \/ EnterWait \/ TakeResult
    <3>1. cur' = cur /\ cur # NoExec
      BY <2>3 DEF BeginLock, CreateThread, RunContinue, EnterWait, TakeResult, HandoverInv,
                  HandoverPcs, HostPcs
    <3> QED
      BY <1>1, <3>1
  <2> QED
    BY <1>6, <2>1, <2>2, <2>3 DEF HostHandover
<1>7. ASSUME NEW e \in Ctx, ThreadHandover(e) \/ HookStep(e) PROVE NestStepOf
  <2>1. cur = e /\ cur' = cur
    BY <1>7
       DEF HandoverInv, Parked, ThreadHandover, HookStep, ThreadStart, ThreadWait,
           ThreadResume, ThreadExit, hydra_impl_call_far, hydra_impl_call_near_off,
           ThreadReturn, Restored, Abort, PostCall
  <2> QED
    BY <1>1, <2>1
<1> QED
  BY <1>3, <1>4, <1>5, <1>6, <1>7 DEF Next, Step, Stopped

\* Threads, mutexes, condition variables and magic return addresses together
\* are the coroutine stack, for any number of contexts: a hook is begun above
\* the suspended ones, suspended by its call, resumed innermost first and
\* ended while it runs.
THEOREM CoroutinesImplemented == Spec => ImplementsCoroutines
<1>1. Init /\ ExecInv => Coroutines!Init
  <2> SUFFICES ASSUME Init, ExecInv PROVE CoroutineNest = <<>> /\ CoroutineRun = NoExec
    BY DEF Coroutines!Init, CoroutineNest, CoroutineRun
  <2>1. cur = NoExec /\ Suspended = {}
    BY DEF Init, Suspended
  <2>2. Nested = 0
    BY <2>1, FS_EmptySet DEF Nested, Depth
  <2>3. Outermost(0) = <<>>
    BY DEF Outermost
  <2> QED
    BY <2>1, <2>2, <2>3, CoroutineView DEF ViewIs
<1>2. ExecInv /\ ExecInv' /\ ViewIs /\ ViewIs' /\ [Next]_vars
        => [Coroutines!Next]_<<CoroutineNest, CoroutineRun>>
  <2> SUFFICES ASSUME ExecInv, ExecInv', ViewIs, ViewIs', [Next]_vars
               PROVE  [Coroutines!Next]_<<CoroutineNest, CoroutineRun>>
    OBVIOUS
  <2> USE CtxFacts
  <2>1. /\ CoroutineNest = Outermost(Nested) /\ CoroutineRun = cur /\ Nested \in Nat
        /\ CoroutineNest' = Outermost(Nested') /\ CoroutineRun' = cur' /\ Nested' \in Nat
    BY DEF ViewIs, Outermost
  <2>2. ASSUME NEW e \in Ctx, cur = NoExec, cur' = e, Nested = e, Nested' = e
        PROVE  Coroutines!Begin(e)
    <3>1. \A k \in 1 .. Len(Outermost(e)) : Outermost(e)[k] # e
      <4>1. e \in Nat
        OBVIOUS
      <4>2. Len(Outermost(e)) = e /\ \A k \in 1 .. e : Outermost(e)[k] = k - 1
        BY <4>1, OutermostFacts, Zenon
      <4> QED
        BY <4>1, <4>2
    <3> QED
      BY <2>1, <2>2, <3>1 DEF Coroutines!Begin, CoroutineNest, CoroutineRun
  <2>3. ASSUME cur # NoExec, cur' = NoExec, Nested' = cur + 1 PROVE Coroutines!Suspend
    <3>1. cur = Nested /\ Append(Outermost(cur), cur) = Outermost(cur + 1)
      BY <2>1, <2>3, OutermostFacts DEF Nested
    <3> QED
      BY <2>1, <2>3, <3>1 DEF Coroutines!Suspend, CoroutineNest, CoroutineRun
  <2>4. ASSUME NEW d \in Nat, d = cur', cur = NoExec, Nested = d + 1, Nested' = d
        PROVE  Coroutines!Resume
    <3>1. /\ Outermost(d + 1) # <<>>
          /\ Outermost(d + 1)[Len(Outermost(d + 1))] = d
          /\ SubSeq(Outermost(d + 1), 1, Len(Outermost(d + 1)) - 1) = Outermost(d)
      <4>1. PICK n \in Nat : n = d + 1
        OBVIOUS
      <4>2. Len(Outermost(n)) = n /\ \A k \in 1 .. n : Outermost(n)[k] = k - 1
        BY OutermostFacts, Zenon
      <4>3. Outermost(n)[Len(Outermost(n))] = d
        BY <4>1, <4>2
      <4>4. /\ Outermost(d + 1) # <<>>
            /\ SubSeq(Outermost(d + 1), 1, Len(Outermost(d + 1)) - 1) = Outermost(d)
        BY OutermostFacts, Zenon
      <4> QED
        BY <4>1, <4>3, <4>4
    <3> QED
      BY <2>1, <2>4, <3>1 DEF Coroutines!Resume, CoroutineNest, CoroutineRun
  <2>5. ASSUME cur # NoExec, cur' = NoExec, Nested' = Nested PROVE Coroutines!Finish
    BY <2>1, <2>5 DEF Coroutines!Finish, CoroutineNest, CoroutineRun
  <2>6. ASSUME cur' = cur, Nested' = Nested PROVE UNCHANGED <<CoroutineNest, CoroutineRun>>
    BY <2>1, <2>6
  <2> QED
    BY <2>2, <2>3, <2>4, <2>5, <2>6, NestMoves DEF NestStepOf, Coroutines!Next
<1> QED
  BY <1>1, <1>2, ExecCorrect, CoroutineView, PTL
     DEF Spec, ImplementsCoroutines, Coroutines!Spec, CoroutineNest, CoroutineRun
=============================================================================
