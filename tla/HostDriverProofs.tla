--------------------------- MODULE HostDriverProofs ---------------------------
(***************************************************************************)
(* Proofs about HostDriver, for any numbers of functions, hooks, overlays, *)
(* contexts and nested activations: the driver's C stack keeps its shape,  *)
(* the guest is where code is, breakpoints are where the table says, and   *)
(* the overlay segments are the ones in guest memory; and the activations  *)
(* of trace_to_return, the contexts in use and the magic addresses on the  *)
(* guest's stack are always the same calls.                                *)
(***************************************************************************)
EXTENDS HostNesting, FiniteSetTheorems, SequenceTheorems, WellFoundedInduction, TLAPS

---------------------------------------------------------------------------
(* Where the guest can be, and what its stack and the driver's can hold. *)

Codes == Fns \cup Hooks \cup Stubs \cup {Main}
EntryAddrs == {Entry(f) : f \in Codes}
InAddrs == {In(f) : f \in Codes}
StubAddrs == {StubAddr(s) : s \in Stubs}
PagerAddrs == {Pager(s) : s \in Stubs}
MagicAddrs == {MagicAddr(k, e) : k \in CallKinds, e \in Ids}
Starts == {Boot, Loader}
PcAddrs == Starts \cup EntryAddrs \cup InAddrs \cup StubAddrs \cup PagerAddrs \cup MagicAddrs
RetAddrs == InAddrs \cup MagicAddrs

Special == {CaptureAddr, RestoreEntry}

\* The return address the driver reads where the guest's stack is empty.
Garbage == Last(<<>>)

FrameFns == {"run", "dispatch", "trace", "pagein"}
FrameAts == {"load", "install", "go", "running", "stopped", "after", "done",
             "returned", "exited", "top", "step", "enter", "pager", "body"}
Wanted == RetAddrs \cup {NoAddr, Garbage}
FrameRecs ==
  [fn : FrameFns, at : FrameAts, depth : Nat, n : Nat, want : Wanted,
   os : Registry \cup {NoAddr}]

\* A stub's address is on the stack only while its INT is handled.
AddrInv ==
  /\ pc \in PcAddrs
  /\ stk \in Seq(RetAddrs \cup StubAddrs)
  /\ \A k \in DOMAIN stk : stk[k] \in StubAddrs => pc \in PagerAddrs /\ k = Len(stk)
  /\ pc \in PagerAddrs => stk # <<>> /\ Last(stk) = StubAddr(pc[2])
  /\ pc \notin PagerAddrs => Len(stk) <= MaxStack
  /\ saved \in [Ids -> PcAddrs \cup {NoAddr}]
  /\ Running => \A e \in active : saved[e] \in EntryAddrs

\* f is an activation that waits below g: depths grow, strictly above a trace;
\* no page-in is handled above a dispatch.
Below(f, g) ==
  /\ f.depth <= g.depth
  /\ f.fn = "trace" => f.depth < g.depth
  /\ f.fn \in {"dispatch", "trace"} => g.fn \in {"dispatch", "trace"}

OuterAts == {"load", "install", "go", "running", "stopped", "after"}
EndAts == {"done", "returned", "exited"}

\* What may be called by what, and where each is.
Link(f, g) ==
  \/ /\ g.fn = "trace" /\ g.at = "step" /\ g.want \in MagicAddrs
     /\ f.fn = "dispatch" /\ f.n > 0
  \/ /\ g.fn = "dispatch" /\ g.at = "top"
     /\ f.fn # "dispatch"
     /\ f.fn = "pagein" => f.at = "body"
  \/ /\ g.fn = "pagein" /\ g.at \in {"enter", "pager", "body"} /\ g.os \in Registry
     /\ f.fn = "pagein" => f.at = "body"

Chain(fr) ==
  /\ fr \in Seq(FrameRecs) /\ fr # <<>>
  /\ fr[1] = Frame("run", fr[1].at, 0, 0, NoAddr, NoAddr)
  /\ fr[1].at \in OuterAts \cup EndAts
  /\ Len(fr) > 1 => fr[1].at = "after"
  /\ \A i, j \in DOMAIN fr : i < j => Below(fr[i], fr[j])
  /\ \A i \in DOMAIN fr : i > 1 => Link(fr[i - 1], fr[i])
ChainInv == Chain(frames)

\* A run with a reason is over, or on its way out of host_run.
EndInv == Running <=> frames[1].at \in OuterAts

\* Nothing has happened before the driver is set up.
StartInv ==
  InRun("load") \/ InRun("install") =>
    /\ pc \in Starts /\ stk = <<>> /\ active = {}
    /\ bps = {} /\ srv = {} /\ ~bpint

\* The guest's stubs agree: those of an overlay are paged in together.
SameBytes == \A s, t \in Stubs : OvlOf[s] = OvlOf[t] => bytes[s] = bytes[t]

\* Where the overlay pager is.
PagerInv ==
  /\ At("pagein", "enter") => pc = Top.os /\ Unpaged(pc) /\ pc \notin bps
  /\ At("pagein", "pager") => pc = Top.os \/ pc = Pager(Top.os[2])

\* The table of breakpoints and the debugger's.
BpInv ==
  /\ srv \subseteq Hooked \cup Special
  /\ Running =>
       /\ bps \subseteq srv /\ srv \subseteq bps \cup Registry
       /\ mode = "NORMAL" => bps \subseteq Hooked
       /\ ~InRun("load") /\ ~InRun("install") => HookAddrs \subseteq bps
  /\ InRun("done") /\ reason \notin {"ERROR", "DOSEMU_EXIT"} => srv \subseteq bps \cup Registry
  /\ InRun("returned") /\ reason \notin {"ERROR", "DOSEMU_EXIT"} =>
       srv \subseteq Registry /\ ~bpint
  /\ reason = "exit 0" => InRun("exited") /\ srv \subseteq Registry

\* All of this holds whatever the guest, the hooks and the overlays do.
DriverInv ==
  /\ TypeOK /\ AddrInv /\ ChainInv /\ EndInv /\ StartInv
  /\ SameBytes /\ PagerInv /\ BpInv
---------------------------------------------------------------------------
(* Sequences: the last element taken off, replaced, and two put on. *)

LEMMA Elements ==
  ASSUME NEW S, NEW s \in Seq(S)
  PROVE  Len(s) \in Nat /\ DOMAIN s = 1 .. Len(s) /\ \A i \in 1 .. Len(s) : s[i] \in S
OBVIOUS

LEMMA LastIn ==
  ASSUME NEW S, NEW s \in Seq(S), s # <<>>
  PROVE  Len(s) \in Nat \ {0} /\ Last(s) = s[Len(s)] /\ Last(s) \in S
<1>1. Len(s) \in Nat \ {0}
  OBVIOUS
<1> QED
  BY <1>1, Elements DEF Last

LEMMA Fronts ==
  ASSUME NEW S, NEW s \in Seq(S), s # <<>>
  PROVE  /\ Front(s) \in Seq(S) /\ Len(Front(s)) = Len(s) - 1
         /\ DOMAIN Front(s) = 1 .. Len(s) - 1
         /\ \A i \in 1 .. Len(s) - 1 : Front(s)[i] = s[i]
<1>1. Len(s) \in Nat \ {0} /\ Len(s) - 1 \in Int /\ 1 \in Int
  OBVIOUS
<1>2. \A i \in 1 .. Len(s) - 1 : s[i] \in S
  BY <1>1, Elements
<1>3. /\ SubSeq(s, 1, Len(s) - 1) \in Seq(S)
      /\ Len(SubSeq(s, 1, Len(s) - 1)) = IF 1 <= Len(s) - 1 THEN (Len(s) - 1) - 1 + 1 ELSE 0
      /\ \A i \in 1 .. (Len(s) - 1) - 1 + 1 : SubSeq(s, 1, Len(s) - 1)[i] = s[1 + i - 1]
  BY <1>1, <1>2, SubSeqProperties
<1>4. Front(s) \in Seq(S) /\ Len(Front(s)) = Len(s) - 1
  <2>1. Front(s) \in Seq(S)
    BY <1>3 DEF Front
  <2>0. \A k \in Nat : (IF 1 <= k THEN k - 1 + 1 ELSE 0) = k
    OBVIOUS
  <2>2. (IF 1 <= Len(s) - 1 THEN (Len(s) - 1) - 1 + 1 ELSE 0) = Len(s) - 1
    <3>1. Len(s) - 1 \in Nat
      BY <1>1
    <3> QED
      BY <2>0, <3>1
  <2>3. Len(Front(s)) = Len(s) - 1
    BY <1>3, <2>2 DEF Front
  <2> QED
    BY <2>1, <2>3
<1>5. \A i \in 1 .. Len(s) - 1 : Front(s)[i] = s[i]
  BY <1>1, <1>3 DEF Front
<1> QED
  BY <1>4, <1>5, Elements

LEMMA Appended ==
  ASSUME NEW S, NEW s \in Seq(S), NEW x \in S
  PROVE  /\ Append(s, x) \in Seq(S) /\ Append(s, x) # <<>>
         /\ Len(Append(s, x)) = Len(s) + 1
         /\ DOMAIN Append(s, x) = 1 .. Len(s) + 1
         /\ \A i \in 1 .. Len(s) : Append(s, x)[i] = s[i]
         /\ Append(s, x)[Len(s) + 1] = x /\ Last(Append(s, x)) = x
         /\ Front(Append(s, x)) = s
<1>1. /\ Append(s, x) \in Seq(S) /\ Append(s, x) # <<>>
      /\ Len(Append(s, x)) = Len(s) + 1 /\ Len(s) \in Nat
      /\ DOMAIN Append(s, x) = 1 .. Len(s) + 1
      /\ \A i \in 1 .. Len(s) : Append(s, x)[i] = s[i]
      /\ Append(s, x)[Len(s) + 1] = x
  OBVIOUS
<1>2. Last(Append(s, x)) = x
  BY <1>1 DEF Last
<1>3. /\ Front(Append(s, x)) \in Seq(S) /\ Len(Front(Append(s, x))) = Len(s)
      /\ \A i \in 1 .. Len(s) : Front(Append(s, x))[i] = s[i]
  <2>1. /\ Front(Append(s, x)) \in Seq(S) /\ Len(Front(Append(s, x))) = Len(Append(s, x)) - 1
        /\ \A i \in 1 .. Len(Append(s, x)) - 1 : Front(Append(s, x))[i] = Append(s, x)[i]
    BY <1>1, Fronts
  <2> QED
    BY <1>1, <2>1
<1>4. Front(Append(s, x)) = s
  BY <1>3, SeqEqual
<1> QED
  BY <1>1, <1>2, <1>4

LEMMA Replaced ==
  ASSUME NEW S, NEW s \in Seq(S), s # <<>>, NEW x \in S
  PROVE  /\ Append(Front(s), x) \in Seq(S) /\ Append(Front(s), x) # <<>>
         /\ Len(Append(Front(s), x)) = Len(s)
         /\ DOMAIN Append(Front(s), x) = 1 .. Len(s)
         /\ \A i \in 1 .. Len(s) - 1 : Append(Front(s), x)[i] = s[i]
         /\ Append(Front(s), x)[Len(s)] = x /\ Last(Append(Front(s), x)) = x
BY Fronts, Appended

LEMMA TwoOn ==
  ASSUME NEW S, NEW s \in Seq(S), NEW x \in S, NEW y \in S
  PROVE  s \o <<x, y>> = Append(Append(s, x), y)
OBVIOUS

---------------------------------------------------------------------------
(* The chain of activations under the three ways it changes. *)

LEMMA ChainFacts ==
  ASSUME NEW fr, Chain(fr)
  PROVE  /\ fr \in Seq(FrameRecs) /\ fr # <<>>
         /\ Len(fr) \in Nat \ {0} /\ DOMAIN fr = 1 .. Len(fr)
         /\ Last(fr) = fr[Len(fr)] /\ Last(fr) \in FrameRecs
         /\ fr[1].fn = "run" /\ fr[1].at \in OuterAts \cup EndAts
         /\ Len(fr) > 1 => fr[1].at = "after"
         /\ \A i \in 1 .. Len(fr) : fr[i] \in FrameRecs
         /\ \A i, j \in 1 .. Len(fr) : i < j => Below(fr[i], fr[j])
         /\ \A i \in 1 .. Len(fr) : i > 1 => Link(fr[i - 1], fr[i])
<1>1. fr \in Seq(FrameRecs) /\ fr # <<>> /\ fr[1].at \in OuterAts \cup EndAts
      /\ (Len(fr) > 1 => fr[1].at = "after")
  BY DEF Chain
<1>2. fr[1].fn = "run"
  BY DEF Chain, Frame
<1>3. Len(fr) \in Nat \ {0} /\ DOMAIN fr = 1 .. Len(fr)
      /\ Last(fr) = fr[Len(fr)] /\ Last(fr) \in FrameRecs
      /\ \A i \in 1 .. Len(fr) : fr[i] \in FrameRecs
  BY <1>1, LastIn, Elements
<1>4. /\ \A i, j \in 1 .. Len(fr) : i < j => Below(fr[i], fr[j])
      /\ \A i \in 1 .. Len(fr) : i > 1 => Link(fr[i - 1], fr[i])
  BY <1>3 DEF Chain
<1> QED
  BY <1>1, <1>2, <1>3, <1>4

LEMMA ChainTop ==
  ASSUME NEW fr, Chain(fr)
  PROVE  /\ Last(fr).fn # "run" => Len(fr) > 1 /\ Link(fr[Len(fr) - 1], Last(fr))
                                   /\ fr[1].at = "after"
         /\ Last(fr).fn = "run" => Len(fr) = 1 /\ fr = RunAt(fr[1].at)
<1>1. ASSUME Last(fr).fn # "run"
      PROVE  Len(fr) > 1 /\ Link(fr[Len(fr) - 1], Last(fr)) /\ fr[1].at = "after"
  BY <1>1, ChainFacts
<1>2. ASSUME Last(fr).fn = "run" PROVE Len(fr) = 1
  <2>1. ASSUME Len(fr) > 1 PROVE FALSE
    <3>1. Link(fr[Len(fr) - 1], Last(fr))
      BY <2>1, ChainFacts
    <3> QED
      BY <1>2, <3>1 DEF Link
  <2>2. Len(fr) \in Nat \ {0}
    BY ChainFacts
  <2> QED
    BY <2>1, <2>2
<1>3. ASSUME Last(fr).fn = "run" PROVE fr = RunAt(fr[1].at)
  <2>1. fr \in Seq(FrameRecs) /\ Len(fr) = 1 /\ fr[1] = Frame("run", fr[1].at, 0, 0, NoAddr, NoAddr)
    BY <1>2, <1>3 DEF Chain
  <2>2. fr = <<fr[1]>>
    BY <2>1
  <2> QED
    BY <2>1, <2>2 DEF RunAt
<1> QED
  BY <1>1, <1>2, <1>3

LEMMA ChainRun == ASSUME NEW at \in OuterAts \cup EndAts PROVE Chain(RunAt(at))
<1>1. Frame("run", at, 0, 0, NoAddr, NoAddr) \in FrameRecs
  BY DEF Frame, FrameRecs, FrameFns, FrameAts, OuterAts, EndAts, Wanted
<1>2. RunAt(at) \in Seq(FrameRecs) /\ Len(RunAt(at)) = 1 /\ DOMAIN RunAt(at) = {1}
      /\ RunAt(at)[1] = Frame("run", at, 0, 0, NoAddr, NoAddr)
  BY <1>1 DEF RunAt
<1>3. RunAt(at)[1].at = at
  BY <1>2 DEF Frame
<1> QED
  BY <1>2, <1>3 DEF Chain

LEMMA ChainPop ==
  ASSUME NEW fr, Chain(fr), Len(fr) > 1
  PROVE  Chain(Front(fr)) /\ Front(fr)[1].at = "after" /\ Last(Front(fr)) = fr[Len(fr) - 1]
<1>1. fr \in Seq(FrameRecs) /\ fr # <<>> /\ Len(fr) \in Nat \ {0} /\ Len(fr) - 1 \in Nat \ {0}
  BY ChainFacts
<1>2. /\ Front(fr) \in Seq(FrameRecs) /\ Len(Front(fr)) = Len(fr) - 1
      /\ DOMAIN Front(fr) = 1 .. Len(fr) - 1
      /\ \A i \in 1 .. Len(fr) - 1 : Front(fr)[i] = fr[i]
  BY <1>1, Fronts
<1>3. Front(fr) # <<>> /\ Front(fr)[1] = fr[1] /\ Last(Front(fr)) = fr[Len(fr) - 1]
  BY <1>1, <1>2 DEF Last
<1>4. fr[1] = Frame("run", fr[1].at, 0, 0, NoAddr, NoAddr) /\ fr[1].at = "after"
  BY DEF Chain
<1>5. /\ \A i, j \in DOMAIN Front(fr) : i < j => Below(Front(fr)[i], Front(fr)[j])
      /\ \A i \in DOMAIN Front(fr) : i > 1 => Link(Front(fr)[i - 1], Front(fr)[i])
  BY <1>1, <1>2, ChainFacts
<1> QED
  BY <1>2, <1>3, <1>4, <1>5 DEF Chain, OuterAts

LEMMA ChainPush ==
  ASSUME NEW fr, Chain(fr), NEW g \in FrameRecs, Below(Last(fr), g), Link(Last(fr), g),
         fr[1].at = "after"
  PROVE  Chain(Append(fr, g))
<1>1. fr \in Seq(FrameRecs) /\ fr # <<>> /\ Len(fr) \in Nat \ {0}
      /\ Last(fr) = fr[Len(fr)]
      /\ \A i \in 1 .. Len(fr) : fr[i] \in FrameRecs
  BY ChainFacts
<1>2. /\ Append(fr, g) \in Seq(FrameRecs) /\ Append(fr, g) # <<>>
      /\ Len(Append(fr, g)) = Len(fr) + 1
      /\ DOMAIN Append(fr, g) = 1 .. Len(fr) + 1
      /\ \A i \in 1 .. Len(fr) : Append(fr, g)[i] = fr[i]
      /\ Append(fr, g)[Len(fr) + 1] = g
  BY <1>1, Appended
<1>3. Append(fr, g)[1] = fr[1]
  BY <1>1, <1>2
<1>4. ASSUME NEW i \in 1 .. Len(fr) PROVE Below(fr[i], g)
  <2>1. /\ fr[i].depth \in Nat /\ Last(fr).depth \in Nat /\ g.depth \in Nat
    BY <1>1 DEF FrameRecs
  <2>2. i = Len(fr) \/ Below(fr[i], Last(fr))
    BY <1>1, ChainFacts
  <2> QED
    BY <1>1, <2>1, <2>2 DEF Below
<1>5. ASSUME NEW i \in DOMAIN Append(fr, g), NEW j \in DOMAIN Append(fr, g), i < j
      PROVE  Below(Append(fr, g)[i], Append(fr, g)[j])
  <2>1. CASE j = Len(fr) + 1
    BY <1>1, <1>2, <1>4, <1>5, <2>1
  <2>2. CASE j # Len(fr) + 1
    <3>1. i \in 1 .. Len(fr) /\ j \in 1 .. Len(fr)
      BY <1>1, <1>2, <1>5, <2>2
    <3> QED
      BY <1>2, <1>5, <3>1, ChainFacts
  <2> QED
    BY <2>1, <2>2
<1>6. ASSUME NEW i \in DOMAIN Append(fr, g), i > 1
      PROVE  Link(Append(fr, g)[i - 1], Append(fr, g)[i])
  <2>1. i - 1 \in 1 .. Len(fr)
    BY <1>1, <1>2, <1>6
  <2>2. CASE i = Len(fr) + 1
    <3>1. Append(fr, g)[i - 1] = Last(fr) /\ Append(fr, g)[i] = g
      BY <1>1, <1>2, <2>1, <2>2
    <3> QED
      BY <3>1
  <2>3. CASE i # Len(fr) + 1
    <3>1. i \in 1 .. Len(fr)
      BY <1>1, <1>2, <2>3
    <3> QED
      BY <1>2, <1>6, <2>1, <3>1, ChainFacts
  <2> QED
    BY <2>2, <2>3
<1>7. fr[1] = Frame("run", fr[1].at, 0, 0, NoAddr, NoAddr)
  BY DEF Chain
<1> QED
  BY <1>2, <1>3, <1>5, <1>6, <1>7 DEF Chain, OuterAts

\* The innermost activation goes on: g is the same function at the same depth.
Continues(f, g) ==
  /\ f.fn # "run" /\ g.fn = f.fn /\ g.depth = f.depth
  /\ f.fn = "trace" => g.at = "step" /\ g.want = f.want
  /\ f.fn = "dispatch" => g.at = "top"
  /\ f.fn = "pagein" => g.at \in {"enter", "pager", "body"} /\ g.os = f.os

LEMMA ChainReplace ==
  ASSUME NEW fr, Chain(fr), NEW g \in FrameRecs, Continues(Last(fr), g)
  PROVE  Chain(Append(Front(fr), g))
<1>1. Len(fr) > 1 /\ Link(fr[Len(fr) - 1], Last(fr))
  BY ChainTop DEF Continues
<1>2. Chain(Front(fr)) /\ Front(fr)[1].at = "after" /\ Last(Front(fr)) = fr[Len(fr) - 1]
  BY <1>1, ChainPop
<1>3. Link(Last(Front(fr)), g)
  BY <1>1, <1>2 DEF Link, Continues
<1>4. Below(fr[Len(fr) - 1], Last(fr))
  BY <1>1, ChainFacts
<1>5. Below(Last(Front(fr)), g)
  BY <1>2, <1>4 DEF Below, Continues
<1> QED
  BY <1>2, <1>3, <1>5, ChainPush

---------------------------------------------------------------------------
(* Kinds of addresses. *)

LEMMA Kinds ==
  ASSUME NEW a
  PROVE  /\ a \in EntryAddrs => a[1] = "entry" /\ a[2] \in Codes
         /\ a \in InAddrs => a[1] = "in" /\ a[2] \in Codes
         /\ a \in StubAddrs => a[1] = "stub" /\ a[2] \in Stubs /\ a = StubAddr(a[2])
         /\ a \in PagerAddrs => a[1] = "pager" /\ a[2] \in Stubs /\ a = Pager(a[2])
         /\ a \in MagicAddrs => a[1] \in {"far", "near"} /\ a[2] \in Ids /\ a = MagicAddr(a[1], a[2])
         /\ a \in Starts => a[1] \in {"boot", "loader"}
         /\ a \in PcAddrs \cup {NoAddr} => (IsMagic(a) <=> a \in MagicAddrs)
<1>1. a \in EntryAddrs => a[1] = "entry" /\ a[2] \in Codes
  BY DEF EntryAddrs, Entry
<1>2. a \in InAddrs => a[1] = "in" /\ a[2] \in Codes
  BY DEF InAddrs, In
<1>3. a \in StubAddrs => a[1] = "stub" /\ a[2] \in Stubs /\ a = StubAddr(a[2])
  BY DEF StubAddrs, StubAddr
<1>4. a \in PagerAddrs => a[1] = "pager" /\ a[2] \in Stubs /\ a = Pager(a[2])
  BY DEF PagerAddrs, Pager
<1>5. a \in MagicAddrs => a[1] \in {"far", "near"} /\ a[2] \in Ids /\ a = MagicAddr(a[1], a[2])
  BY KindsAssumption DEF MagicAddrs, MagicAddr
<1>6. a \in Starts => a[1] \in {"boot", "loader"}
  BY DEF Starts, Boot, Loader
<1>7. NoAddr[1] = "none"
  BY DEF NoAddr
<1>8. a \in PcAddrs \cup {NoAddr} => (IsMagic(a) <=> a \in MagicAddrs)
  BY <1>1, <1>2, <1>3, <1>4, <1>5, <1>6, <1>7 DEF PcAddrs, IsMagic
<1> QED
  BY <1>1, <1>2, <1>3, <1>4, <1>5, <1>6, <1>8

LEMMA Places1 ==
  /\ \A f \in Codes : Entry(f) \in EntryAddrs /\ In(f) \in InAddrs
  /\ \A s \in Stubs : StubAddr(s) \in StubAddrs /\ Pager(s) \in PagerAddrs /\ s \in Codes
  /\ Boot \in Starts /\ Loader \in Starts /\ Main \in Codes
  /\ Callable \subseteq EntryAddrs \cup StubAddrs
  /\ HookAddrs \subseteq EntryAddrs /\ Registry \subseteq StubAddrs /\ Special \subseteq EntryAddrs
  /\ \A k \in CallKinds, e \in Ids : MagicAddr(k, e) \in MagicAddrs
  /\ \A s \in Stubs : Pager(s)[2] = s /\ StubAddr(s)[2] = s
  /\ \A f \in Codes : Entry(f)[2] = f
<1>1. /\ \A f \in Codes : Entry(f) \in EntryAddrs /\ In(f) \in InAddrs
      /\ \A s \in Stubs : StubAddr(s) \in StubAddrs /\ Pager(s) \in PagerAddrs /\ s \in Codes
      /\ Boot \in Starts /\ Loader \in Starts /\ Main \in Codes
  BY DEF EntryAddrs, InAddrs, StubAddrs, PagerAddrs, Starts, Codes
<1>2. Callable \subseteq EntryAddrs \cup StubAddrs /\ HookAddrs \subseteq EntryAddrs
      /\ Special \subseteq EntryAddrs
  BY NamesAssumption DEF Callable, HookAddrs, Special, EntryAddrs, StubAddrs, Codes
<1>3. Registry \subseteq StubAddrs
  BY StubsAssumption DEF Registry, StubAddrs
<1>4. \A k \in CallKinds, e \in Ids : MagicAddr(k, e) \in MagicAddrs
  BY DEF MagicAddrs
<1>5. \A s \in Stubs : Pager(s)[2] = s /\ StubAddr(s)[2] = s
  BY DEF Pager, StubAddr
<1>6. \A f \in Codes : Entry(f)[2] = f
  BY DEF Entry
<1> QED
  BY <1>1, <1>2, <1>3, <1>4, <1>5, <1>6

\* What lies on the guest's stack where the pager does not run.
LEMMA StackTop ==
  ASSUME AddrInv
  PROVE  /\ stk \in Seq(RetAddrs \cup StubAddrs)
         /\ stk # <<>> => Last(stk) \in RetAddrs \cup StubAddrs
         /\ stk # <<>> /\ pc \notin PagerAddrs => Last(stk) \in RetAddrs
         /\ pc \notin PagerAddrs => Last(stk) \in Wanted
<1>1. stk \in Seq(RetAddrs \cup StubAddrs)
  BY DEF AddrInv
<1>2. stk # <<>> => Len(stk) \in DOMAIN stk /\ Last(stk) = stk[Len(stk)] /\ Last(stk) \in RetAddrs \cup StubAddrs
  <2>1. SUFFICES ASSUME stk # <<>>
                 PROVE  Len(stk) \in DOMAIN stk /\ Last(stk) = stk[Len(stk)] /\ Last(stk) \in RetAddrs \cup StubAddrs
    OBVIOUS
  <2>2. Len(stk) \in Nat \ {0} /\ Last(stk) = stk[Len(stk)] /\ Last(stk) \in RetAddrs \cup StubAddrs
    BY <1>1, <2>1, LastIn
  <2> QED
    BY <1>1, <2>2, Elements
<1>3. stk # <<>> /\ pc \notin PagerAddrs => Last(stk) \in RetAddrs
  BY <1>2 DEF AddrInv
<1>4. stk = <<>> => Last(stk) = Garbage
  BY DEF Garbage
<1> QED
  BY <1>1, <1>2, <1>3, <1>4 DEF Wanted

---------------------------------------------------------------------------
(* Every step keeps the shape of the driver's C stack. *)

LEMMA TopFacts ==
  ASSUME ChainInv
  PROVE  /\ Top \in FrameRecs /\ Top.fn \in FrameFns /\ Top.at \in FrameAts
         /\ Top.depth \in Nat /\ Top.n \in Nat
         /\ Top.want \in Wanted /\ Top.os \in Registry \cup {NoAddr}
         /\ Top.fn # "run" => Len(frames) > 1 /\ frames[1].at = "after"
         /\ Top.fn = "pagein" => Top.os \in Registry
         /\ Top.fn = "trace" => Top.want \in MagicAddrs
<1>1. Top \in FrameRecs
  BY ChainFacts DEF ChainInv, Top
<1>2. Top.fn # "run" => /\ Len(frames) > 1 /\ frames[1].at = "after"
                        /\ Link(frames[Len(frames) - 1], Top)
  BY ChainTop DEF ChainInv, Top
<1> QED
  BY <1>1, <1>2 DEF FrameRecs, Link

LEMMA InRunFacts ==
  ASSUME NEW at, InRun(at)
  PROVE  Top.fn = "run" /\ frames[1].at = at /\ Top.at = at /\ Len(frames) = 1
<1>1. frames = <<Frame("run", at, 0, 0, NoAddr, NoAddr)>>
  BY DEF InRun, RunAt
<1>2. frames[1] = Frame("run", at, 0, 0, NoAddr, NoAddr) /\ Len(frames) = 1 /\ Top = frames[1]
  BY <1>1 DEF Top, Last
<1> QED
  BY <1>2 DEF Frame

LEMMA ChainGoes == ASSUME NEW at \in OuterAts \cup EndAts, Goes(at) PROVE ChainInv'
BY ChainRun DEF Goes, ChainInv

LEMMA ChainDone == ASSUME NEW why, Done(why) PROVE ChainInv'
BY ChainGoes DEF Done, EndAts

LEMMA ChainReturns == ASSUME ChainInv, Top.fn # "run", Returns PROVE ChainInv'
BY TopFacts, ChainPop DEF Returns, ChainInv

LEMMA ChainBecomes ==
  ASSUME ChainInv, NEW g \in FrameRecs, Continues(Top, g), Becomes(g)
  PROVE  ChainInv'
BY ChainReplace DEF Becomes, ChainInv, Top

LEMMA NestedFrames ==
  ASSUME ChainInv, NEW g \in FrameRecs, NEW h \in FrameRecs
  PROVE  Front(frames) \o <<g, h>> = Append(Append(Front(frames), g), h)
<1>1. Front(frames) \in Seq(FrameRecs)
  BY Fronts DEF ChainInv, Chain
<1> QED
  BY <1>1, TwoOn

LEMMA ChainNests ==
  ASSUME ChainInv, NEW g \in FrameRecs, Continues(Top, g),
         NEW h \in FrameRecs, Below(g, h), Link(g, h),
         frames' = Front(frames) \o <<g, h>>
  PROVE  ChainInv'
<1>1. Chain(Append(Front(frames), g))
  BY ChainReplace DEF ChainInv, Top
<1>2. Front(frames) \in Seq(FrameRecs)
  BY Fronts DEF ChainInv, Chain
<1>3. Last(Append(Front(frames), g)) = g /\ Append(Front(frames), g)[1].at = "after"
  <2>1. Last(Append(Front(frames), g)) = g
    BY <1>2, Appended
  <2>2. Len(frames) > 1 /\ frames # <<>> /\ frames \in Seq(FrameRecs) /\ frames[1].at = "after"
        /\ Len(frames) \in Nat
    BY TopFacts, ChainFacts DEF Continues, ChainInv
  <2>3. Append(Front(frames), g)[1] = frames[1]
    BY <2>2, Replaced
  <2> QED
    BY <2>1, <2>2, <2>3
<1>4. Chain(Append(Append(Front(frames), g), h))
  BY <1>1, <1>3, ChainPush
<1> QED
  BY <1>4, NestedFrames DEF ChainInv

LEMMA ChainStarts ==
  ASSUME NEW h \in FrameRecs, h.fn \in {"dispatch", "pagein"}, h.depth = 0,
         h.fn = "dispatch" => h.at = "top",
         h.fn = "pagein" => h.at = "enter" /\ h.os \in Registry,
         frames' = Append(RunAt("after"), h)
  PROVE  ChainInv'
<1>1. Chain(RunAt("after")) /\ RunAt("after") \in Seq(FrameRecs)
  BY ChainRun, ChainFacts DEF OuterAts
<1>2. RunAt("after")[1] = Frame("run", "after", 0, 0, NoAddr, NoAddr)
      /\ Last(RunAt("after")) = RunAt("after")[1]
  BY DEF RunAt, Last
<1>3. RunAt("after")[1].fn = "run" /\ RunAt("after")[1].at = "after" /\ RunAt("after")[1].depth = 0
  BY <1>2 DEF Frame
<1>4. Below(Last(RunAt("after")), h) /\ Link(Last(RunAt("after")), h)
  BY <1>2, <1>3 DEF Below, Link
<1> QED
  BY <1>1, <1>2, <1>3, <1>4, ChainPush DEF ChainInv

\* The activations the driver's steps make.
LEMMA NewFrames ==
  ASSUME ChainInv
  PROVE  /\ Top.fn = "dispatch" => NextTop \in FrameRecs /\ Continues(Top, NextTop) /\ NextTop.n = Top.n + 1
         /\ Top.fn = "trace" => NextTrace \in FrameRecs /\ Continues(Top, NextTrace)
         /\ Nested \in FrameRecs /\ Nested.fn = "dispatch" /\ Nested.at = "top" /\ Nested.n = 0
         /\ Nested.depth = Top.depth + 1
         /\ Top.fn = "pagein" =>
              /\ NextBody \in FrameRecs /\ Continues(Top, NextBody) /\ NextBody.at = "body"
              /\ NextBody.want = Top.want
         /\ \A k \in CallKinds, e \in Ids : Top.fn = "dispatch" =>
              LET h == Frame("trace", "step", Top.depth, 0, MagicAddr(k, e), NoAddr)
              IN h \in FrameRecs /\ Below(NextTop, h) /\ Link(NextTop, h)
<1>1. Top.depth \in Nat /\ Top.n \in Nat /\ Top.want \in Wanted /\ Top.os \in Registry \cup {NoAddr}
      /\ Top.n + 1 \in Nat /\ Top.depth + 1 \in Nat /\ NoAddr \in Wanted
  BY TopFacts DEF Wanted
<1>2. /\ {"dispatch", "trace", "pagein"} \subseteq FrameFns
      /\ {"top", "step", "enter", "pager", "body"} \subseteq FrameAts
  BY DEF FrameFns, FrameAts
<1>3. /\ NextTop \in FrameRecs /\ NextTop.fn = "dispatch" /\ NextTop.at = "top"
      /\ NextTop.n = Top.n + 1 /\ NextTop.depth = Top.depth
  BY <1>1, <1>2 DEF NextTop, Frame, FrameRecs
<1>4. /\ NextTrace \in FrameRecs /\ NextTrace.fn = "trace" /\ NextTrace.at = "step"
      /\ NextTrace.want = Top.want /\ NextTrace.depth = Top.depth
  BY <1>1, <1>2 DEF NextTrace, Frame, FrameRecs
<1>5. /\ Nested \in FrameRecs /\ Nested.fn = "dispatch" /\ Nested.at = "top" /\ Nested.n = 0
      /\ Nested.depth = Top.depth + 1
  BY <1>1, <1>2 DEF Nested, Frame, FrameRecs
<1>6. /\ NextBody \in FrameRecs /\ NextBody.fn = "pagein" /\ NextBody.at = "body"
      /\ NextBody.want = Top.want /\ NextBody.os = Top.os /\ NextBody.depth = Top.depth
  BY <1>1, <1>2 DEF NextBody, Frame, FrameRecs
<1>7. ASSUME NEW k \in CallKinds, NEW e \in Ids, Top.fn = "dispatch",
             NEW h, h = Frame("trace", "step", Top.depth, 0, MagicAddr(k, e), NoAddr)
      PROVE  h \in FrameRecs /\ Below(NextTop, h) /\ Link(NextTop, h)
  <2>1. MagicAddr(k, e) \in MagicAddrs /\ MagicAddr(k, e) \in Wanted /\ 0 \in Nat
    BY Places1 DEF Wanted, RetAddrs
  <2>2. h \in FrameRecs /\ h.fn = "trace" /\ h.at = "step" /\ h.depth = Top.depth
        /\ h.want = MagicAddr(k, e)
    BY <1>1, <1>2, <1>7, <2>1 DEF Frame, FrameRecs
  <2> QED
    BY <1>1, <1>3, <2>1, <2>2 DEF Below, Link
<1> QED
  BY <1>3, <1>4, <1>5, <1>6, <1>7 DEF Continues

LEMMA ChainUnchanged == ASSUME ChainInv, UNCHANGED frames PROVE ChainInv'
BY DEF ChainInv

LEMMA ChainInRun ==
  ASSUME ChainInv,
         \/ MzEntryStop \/ MzSkip \/ MzFails \/ Install \/ Go \/ GuestRuns \/ GoFails
         \/ StopTracked \/ StopPageIn \/ StopUnrelated \/ StopUnexpected
         \/ AfterStop \/ Cleanup \/ Ended
  PROVE  ChainInv'
<1> USE DEF OuterAts, EndAts
<1>1. CASE MzEntryStop BY <1>1, ChainGoes DEF MzEntryStop
<1>2. CASE MzSkip BY <1>2, ChainUnchanged DEF MzSkip, vars
<1>3. CASE MzFails BY <1>3, ChainDone DEF MzFails
<1>4. CASE Install
  <2>1. Goes("go") \/ \E why : Done(why)
    BY <1>4 DEF Install
  <2> QED
    BY <2>1, ChainGoes, ChainDone
<1>5. CASE Go BY <1>5, ChainGoes DEF Go
<1>6. CASE GuestRuns
  <2>1. Goes("stopped") \/ Goes("running")
    BY <1>6 DEF GuestRuns
  <2> QED
    BY <2>1, ChainGoes
<1>7. CASE GoFails BY <1>7, ChainDone DEF GoFails
<1>8. CASE StopTracked
  <2>1. Frame("dispatch", "top", 0, 0, NoAddr, NoAddr) \in FrameRecs
        /\ Frame("dispatch", "top", 0, 0, NoAddr, NoAddr).fn = "dispatch"
        /\ Frame("dispatch", "top", 0, 0, NoAddr, NoAddr).at = "top"
        /\ Frame("dispatch", "top", 0, 0, NoAddr, NoAddr).depth = 0
    BY DEF Frame, FrameRecs, FrameFns, FrameAts, Wanted
  <2> QED
    BY <1>8, <2>1, ChainStarts DEF StopTracked
<1>9. CASE StopPageIn
  <2>1. pc \in Registry
    BY <1>9 DEF StopPageIn
  <2>2. Frame("pagein", "enter", 0, 0, NoAddr, pc) \in FrameRecs
        /\ Frame("pagein", "enter", 0, 0, NoAddr, pc).fn = "pagein"
        /\ Frame("pagein", "enter", 0, 0, NoAddr, pc).at = "enter"
        /\ Frame("pagein", "enter", 0, 0, NoAddr, pc).depth = 0
        /\ Frame("pagein", "enter", 0, 0, NoAddr, pc).os = pc
    BY <2>1 DEF Frame, FrameRecs, FrameFns, FrameAts, Wanted
  <2> QED
    BY <1>9, <2>1, <2>2, ChainStarts DEF StopPageIn
<1>10. CASE StopUnrelated BY <1>10, ChainGoes DEF StopUnrelated
<1>11. CASE StopUnexpected BY <1>11, ChainDone DEF StopUnexpected
<1>12. CASE AfterStop BY <1>12, ChainGoes, ChainDone DEF AfterStop
<1>13. CASE Cleanup BY <1>13, ChainGoes DEF Cleanup
<1>14. CASE Ended BY <1>14, ChainUnchanged DEF Ended, vars
<1> QED
  BY <1>1, <1>2, <1>3, <1>4, <1>5, <1>6, <1>7, <1>8, <1>9, <1>10, <1>11, <1>12, <1>13, <1>14

LEMMA RunnersAreContexts == Runners \subseteq Ids \cup active
BY DEF Runners, Resumed, Free

LEMMA ChainDispatch ==
  ASSUME ChainInv, active \subseteq Ids,
         \/ DispatchTooDeep \/ DispatchCapture \/ DispatchRestore \/ DispatchResume
         \/ DispatchLeave \/ DispatchCall \/ DispatchFails \/ DispatchNoContext
  PROVE  ChainInv'
<1> USE DEF OuterAts, EndAts
<1>1. CASE DispatchTooDeep BY <1>1, ChainDone DEF DispatchTooDeep
<1>2. CASE DispatchCapture
  <2>1. Goes("exited") \/ Done("ERROR")
    BY <1>2 DEF DispatchCapture
  <2> QED
    BY <2>1, ChainGoes, ChainDone
<1>3. CASE DispatchRestore
  <2>1. Top.fn = "dispatch" /\ (Done("ERROR") \/ Returns)
    BY <1>3 DEF DispatchRestore, Dispatching, At
  <2> QED
    BY <2>1, ChainReturns, ChainDone
<1>4. CASE DispatchResume
  BY <1>4, ChainReturns DEF DispatchResume, Dispatching, At
<1>5. CASE DispatchLeave
  BY <1>5, ChainReturns DEF DispatchLeave, Dispatching, At
<1>6. CASE DispatchCall
  <2>1. PICK e \in Runners, k \in CallKinds :
          frames' = Front(frames) \o
            <<NextTop, Frame("trace", "step", Top.depth, 0, MagicAddr(k, e), NoAddr)>>
    BY <1>6 DEF DispatchCall
  <2>2. e \in Ids /\ Top.fn = "dispatch"
    BY <1>6, RunnersAreContexts DEF DispatchCall, Dispatching, At
  <2> DEFINE h == Frame("trace", "step", Top.depth, 0, MagicAddr(k, e), NoAddr)
  <2>3. h \in FrameRecs /\ Below(NextTop, h) /\ Link(NextTop, h)
        /\ NextTop \in FrameRecs /\ Continues(Top, NextTop)
    BY <2>2, NewFrames
  <2> QED
    BY <2>1, <2>3, ChainNests
<1>7. CASE DispatchFails BY <1>7, ChainDone DEF DispatchFails
<1>8. CASE DispatchNoContext BY <1>8, ChainGoes DEF DispatchNoContext
<1> QED
  BY <1>1, <1>2, <1>3, <1>4, <1>5, <1>6, <1>7, <1>8

LEMMA ChainTrace ==
  ASSUME ChainInv, AddrInv,
         \/ Trace \/ TraceFails \/ PageInTooDeep \/ PageInEnter \/ PagerStep \/ PagedInNow
         \/ BodyReturns \/ BodyPageIn \/ BodyDispatch \/ BodyStep \/ PageInFails \/ ReconcileFails
  PROVE  ChainInv'
<1>0. Top.depth \in Nat /\ Top.n \in Nat /\ Top.n + 1 \in Nat /\ Top.os \in Registry \cup {NoAddr}
      /\ (Top.fn = "pagein" => Top.os \in Registry)
  BY TopFacts
<1>1. CASE Trace
  <2>1. Top.fn = "trace"
    BY <1>1 DEF Trace, At
  <2>2. Returns \/ frames' = Front(frames) \o <<NextTrace, Nested>> \/ Becomes(NextTrace)
    BY <1>1 DEF Trace
  <2>3. NextTrace \in FrameRecs /\ Continues(Top, NextTrace)
        /\ Nested \in FrameRecs /\ Below(NextTrace, Nested) /\ Link(NextTrace, Nested)
    BY <1>0, <2>1, NewFrames DEF Below, Link, Continues
  <2>4. CASE Returns BY <2>1, <2>4, ChainReturns
  <2>5. CASE frames' = Front(frames) \o <<NextTrace, Nested>> BY <2>3, <2>5, ChainNests
  <2>6. CASE Becomes(NextTrace) BY <2>3, <2>6, ChainBecomes
  <2> QED
    BY <2>2, <2>4, <2>5, <2>6
<1>2. CASE TraceFails BY <1>2, ChainDone DEF TraceFails
<1>3. CASE PageInTooDeep BY <1>3, ChainDone DEF PageInTooDeep
<1>4. CASE PageInEnter
  <2> DEFINE g == Frame("pagein", "pager", Top.depth, 0, NoAddr, Top.os)
  <2>1. g \in FrameRecs /\ g.fn = "pagein" /\ g.at = "pager" /\ g.depth = Top.depth /\ g.os = Top.os
    BY <1>0 DEF Frame, FrameRecs, FrameFns, FrameAts, Wanted
  <2>2. Continues(Top, g) /\ Becomes(g)
    BY <1>4, <2>1 DEF Continues, PageInEnter, At
  <2> HIDE DEF g
  <2> QED
    BY <2>1, <2>2, ChainBecomes
<1>5. CASE PagerStep
  <2> DEFINE g == Frame("pagein", "pager", Top.depth, Top.n + 1, NoAddr, Top.os)
  <2>1. g \in FrameRecs /\ g.fn = "pagein" /\ g.at = "pager" /\ g.depth = Top.depth /\ g.os = Top.os
    BY <1>0 DEF Frame, FrameRecs, FrameFns, FrameAts, Wanted
  <2>2. Continues(Top, g) /\ Becomes(g)
    BY <1>5, <2>1 DEF Continues, PagerStep, At
  <2> HIDE DEF g
  <2> QED
    BY <2>1, <2>2, ChainBecomes
<1>6. CASE PagedInNow
  <2>0. pc = Top.os /\ Top.fn = "pagein"
    BY <1>6 DEF PagedInNow, At
  <2>1. Last(stk) \in Wanted
    <3>1. pc \in StubAddrs /\ pc \notin PagerAddrs
      BY <1>0, <2>0, Places1, Kinds
    <3> QED
      BY <3>1, StackTop
  <2> DEFINE g == Frame("pagein", "body", Top.depth, 0, Last(stk), Top.os)
  <2>2. g \in FrameRecs /\ g.fn = "pagein" /\ g.at = "body" /\ g.depth = Top.depth /\ g.os = Top.os
    BY <1>0, <2>1 DEF Frame, FrameRecs, FrameFns, FrameAts
  <2>3. Continues(Top, g) /\ Becomes(g)
    BY <1>6, <2>0, <2>2 DEF Continues, PagedInNow
  <2> HIDE DEF g
  <2> QED
    BY <2>2, <2>3, ChainBecomes
<1>7. CASE BodyReturns BY <1>7, ChainReturns DEF BodyReturns, At
<1>8. CASE BodyPageIn
  <2>1. Top.fn = "pagein" /\ pc \in Registry
    BY <1>8 DEF BodyPageIn, BodyGoesOn, At
  <2> DEFINE h == Frame("pagein", "enter", Top.depth + 1, 0, NoAddr, pc)
  <2>2. h \in FrameRecs /\ h.fn = "pagein" /\ h.at = "enter" /\ h.depth = Top.depth + 1 /\ h.os = pc
    BY <1>0, <2>1 DEF Frame, FrameRecs, FrameFns, FrameAts, Wanted
  <2>3. NextBody \in FrameRecs /\ Continues(Top, NextBody) /\ Below(NextBody, h) /\ Link(NextBody, h)
    BY <1>0, <2>1, <2>2, NewFrames DEF Below, Link, Continues
  <2>4. frames' = Front(frames) \o <<NextBody, h>>
    BY <1>8 DEF BodyPageIn
  <2> HIDE DEF h
  <2> QED
    BY <2>2, <2>3, <2>4, ChainNests
<1>9. CASE BodyDispatch
  <2>1. Top.fn = "pagein" /\ frames' = Front(frames) \o <<NextBody, Nested>>
    BY <1>9 DEF BodyDispatch, BodyGoesOn, At
  <2>2. NextBody \in FrameRecs /\ Continues(Top, NextBody) /\ Nested \in FrameRecs
        /\ Below(NextBody, Nested) /\ Link(NextBody, Nested)
    BY <1>0, <2>1, NewFrames DEF Below, Link, Continues
  <2> QED
    BY <2>1, <2>2, ChainNests
<1>10. CASE BodyStep
  <2>1. Top.fn = "pagein" /\ Becomes(NextBody)
    BY <1>10 DEF BodyStep, BodyGoesOn, At
  <2> QED
    BY <2>1, NewFrames, ChainBecomes
<1>11. CASE PageInFails BY <1>11, ChainDone DEF PageInFails
<1>12. CASE ReconcileFails BY <1>12, ChainDone DEF ReconcileFails
<1> QED
  BY <1>1, <1>2, <1>3, <1>4, <1>5, <1>6, <1>7, <1>8, <1>9, <1>10, <1>11, <1>12

LEMMA ChainStep ==
  ASSUME ChainInv, AddrInv, active \subseteq Ids, [Next]_vars PROVE ChainInv'
<1>1. CASE UNCHANGED vars BY <1>1, ChainUnchanged DEF vars
<1> QED
  BY <1>1, ChainInRun, ChainDispatch, ChainTrace DEF Next, Host

---------------------------------------------------------------------------
(* A run that is over has a reason, and the other way round. *)

LEMMA FirstKept ==
  ASSUME ChainInv, Top.fn # "run", NEW g \in FrameRecs, NEW h \in FrameRecs,
         Returns \/ Becomes(g) \/ frames' = Front(frames) \o <<g, h>>
  PROVE  frames'[1].at = "after"
<1>1. frames \in Seq(FrameRecs) /\ frames # <<>> /\ Len(frames) \in Nat /\ Len(frames) > 1
      /\ frames[1].at = "after"
  BY TopFacts, ChainFacts DEF ChainInv
<1>2. Front(frames)[1] = frames[1] /\ Front(frames) \in Seq(FrameRecs)
      /\ Len(Front(frames)) = Len(frames) - 1
  BY <1>1, Fronts
<1>3. ASSUME NEW x \in FrameRecs
      PROVE  /\ Append(Front(frames), x)[1] = frames[1] /\ Append(Front(frames), x) \in Seq(FrameRecs)
             /\ Len(Append(Front(frames), x)) = Len(frames)
  BY <1>1, Replaced
<1>4. Append(Append(Front(frames), g), h)[1] = frames[1]
  <2>1. Append(Front(frames), g)[1] = frames[1] /\ Append(Front(frames), g) \in Seq(FrameRecs)
        /\ Len(Append(Front(frames), g)) = Len(frames)
    BY <1>3
  <2> QED
    BY <1>1, <2>1, Appended
<1> QED
  BY <1>1, <1>2, <1>3, <1>4, NestedFrames DEF Returns, Becomes

\* What a step does to the C stack and the reason.
Ends(why) == why # "none" /\ reason' = why /\ (Goes("done") \/ Goes("returned") \/ Goes("exited"))
Outside(at) == frames[1].at \in OuterAts /\ Goes(at) /\ UNCHANGED reason
Inside == frames[1].at \in OuterAts /\ frames'[1].at = "after" /\ UNCHANGED reason

LEMMA GoesAt == ASSUME NEW at, Goes(at) PROVE frames'[1].at = at
<1>1. frames'[1] = Frame("run", at, 0, 0, NoAddr, NoAddr)
  BY DEF Goes, RunAt
<1> QED
  BY <1>1 DEF Frame

LEMMA InnerIsOuter ==
  ASSUME ChainInv, Top.fn # "run" PROVE frames[1].at \in OuterAts
BY TopFacts DEF OuterAts

LEMMA EndCases ==
  ASSUME ChainInv, EndInv, AddrInv, active \subseteq Ids, Next
  PROVE  \/ \E why : Ends(why)
         \/ \E at \in OuterAts \ {"load", "install"} : Outside(at)
         \/ Inside
         \/ MzEntryStop /\ Outside("install")
         \/ UNCHANGED vars
<1>0. \A why : Done(why) /\ why # "none" => Ends(why)
  BY DEF Done, Ends
<1>1. \A at \in OuterAts, to \in OuterAts : InRun(at) /\ Goes(to) /\ UNCHANGED reason => Outside(to)
  BY InRunFacts DEF Outside
<1>2. ASSUME Top.fn # "run", UNCHANGED reason, NEW g \in FrameRecs, NEW h \in FrameRecs,
             Returns \/ Becomes(g) \/ frames' = Front(frames) \o <<g, h>>
      PROVE  Inside
  BY <1>2, FirstKept, InnerIsOuter DEF Inside, OuterAts
<1>3. NoAddr \in Wanted /\ Top \in FrameRecs
  BY TopFacts DEF Wanted
<1>4. CASE MzEntryStop BY <1>1, <1>4 DEF MzEntryStop, OuterAts
<1>5. CASE MzSkip BY <1>5 DEF MzSkip, vars
<1>6. CASE MzFails BY <1>0, <1>6 DEF MzFails
<1>7. CASE Install
  <2>1. InRun("install") /\ (Done("ERROR") \/ (Goes("go") /\ UNCHANGED reason))
    BY <1>7 DEF Install
  <2> QED
    BY <1>0, <1>1, <2>1 DEF OuterAts
<1>8. CASE Go BY <1>1, <1>8 DEF Go, OuterAts
<1>9. CASE GuestRuns
  <2>1. InRun("running") /\ UNCHANGED reason /\ (Goes("stopped") \/ Goes("running"))
    BY <1>9 DEF GuestRuns
  <2> QED
    BY <1>1, <2>1 DEF OuterAts
<1>10. CASE GoFails
  <2>1. PICK why \in {"TIMEOUT", "DOSEMU_EXIT"} : Done(why)
    BY <1>10 DEF GoFails
  <2> QED
    BY <1>0, <2>1
<1>11. CASE StopTracked \/ StopPageIn
  <2>1. InRun("stopped") /\ UNCHANGED reason /\ \E x : frames' = Append(RunAt("after"), x)
    BY <1>11 DEF StopTracked, StopPageIn
  <2>2. frames'[1].at = "after"
    <3>1. frames'[1] = Frame("run", "after", 0, 0, NoAddr, NoAddr)
      BY <2>1 DEF RunAt
    <3> QED
      BY <3>1 DEF Frame
  <2> QED
    BY <2>1, <2>2, InRunFacts DEF Inside, OuterAts
<1>12. CASE StopUnrelated BY <1>1, <1>12 DEF StopUnrelated, OuterAts
<1>13. CASE StopUnexpected BY <1>0, <1>13 DEF StopUnexpected
<1>14. CASE AfterStop
  <2>1. InRun("after") /\ ((Goes("go") /\ UNCHANGED reason) \/ \E why \in {"CALLBACK", "MAXSTEPS"} : Done(why))
    BY <1>14 DEF AfterStop
  <2> QED
    BY <1>0, <1>1, <2>1 DEF OuterAts
<1>15. CASE Cleanup
  <2>1. InRun("done") /\ (reason' = "ERROR" \/ reason' = reason) /\ Goes("returned")
    BY <1>15 DEF Cleanup
  <2>2. reason # "none"
    BY <2>1, InRunFacts DEF EndInv, OuterAts, Running
  <2> QED
    BY <2>1, <2>2 DEF Ends
<1>16. CASE Ended BY <1>16 DEF Ended, vars
<1>17. CASE DispatchTooDeep BY <1>0, <1>17 DEF DispatchTooDeep
<1>18. CASE DispatchCapture
  <2>1. (Goes("exited") /\ reason' = "exit 0") \/ Done("ERROR")
    BY <1>18 DEF DispatchCapture
  <2> QED
    BY <1>0, <2>1 DEF Ends
<1>19. CASE DispatchRestore
  <2>1. Top.fn = "dispatch" /\ (Done("ERROR") \/ (Returns /\ UNCHANGED reason))
    BY <1>19 DEF DispatchRestore, Dispatching, At
  <2> QED
    BY <1>0, <1>2, <1>3, <2>1
<1>20. CASE DispatchResume \/ DispatchLeave
  <2>1. Top.fn = "dispatch" /\ Returns /\ UNCHANGED reason
    BY <1>20 DEF DispatchResume, DispatchLeave, Dispatching, At
  <2> QED
    BY <1>2, <1>3, <2>1
<1>21. CASE DispatchCall
  <2>1. PICK e \in Runners, k \in CallKinds :
          frames' = Front(frames) \o
            <<NextTop, Frame("trace", "step", Top.depth, 0, MagicAddr(k, e), NoAddr)>>
    BY <1>21 DEF DispatchCall
  <2>2. e \in Ids /\ Top.fn = "dispatch" /\ UNCHANGED reason
    BY <1>21, RunnersAreContexts DEF DispatchCall, Dispatching, At
  <2> DEFINE h == Frame("trace", "step", Top.depth, 0, MagicAddr(k, e), NoAddr)
  <2>3. h \in FrameRecs /\ NextTop \in FrameRecs
    BY <2>2, NewFrames
  <2> QED
    BY <1>2, <2>1, <2>2, <2>3
<1>22. CASE DispatchFails BY <1>0, <1>22 DEF DispatchFails
<1>23. CASE DispatchNoContext BY <1>23 DEF DispatchNoContext, Ends
<1>24. CASE Trace
  <2>1. Top.fn = "trace" /\ UNCHANGED reason
        /\ (Returns \/ frames' = Front(frames) \o <<NextTrace, Nested>> \/ Becomes(NextTrace))
    BY <1>24 DEF Trace, At
  <2> QED
    BY <1>2, <2>1, NewFrames
<1>25. CASE TraceFails BY <1>0, <1>25 DEF TraceFails
<1>26. CASE PageInTooDeep BY <1>0, <1>26 DEF PageInTooDeep
<1>27. CASE PageInEnter \/ PagerStep \/ PagedInNow
  <2>1. Top.fn = "pagein" /\ UNCHANGED reason
    BY <1>27 DEF PageInEnter, PagerStep, PagedInNow, At
  <2>2. PICK g : Becomes(g)
    BY <1>27 DEF PageInEnter, PagerStep, PagedInNow
  <2>3. ChainInv'
    BY <1>27, ChainTrace
  <2>4. g \in FrameRecs
    <3>1. frames' = Append(Front(frames), g) /\ Front(frames) \in Seq(FrameRecs)
      BY <2>2, Fronts DEF Becomes, ChainInv, Chain
    <3>2. frames' \in Seq(FrameRecs)
      BY <2>3 DEF ChainInv, Chain
    <3> QED
      BY <3>1, <3>2
  <2> QED
    BY <1>2, <2>1, <2>2, <2>4
<1>28. CASE BodyReturns
  <2>1. Top.fn = "pagein" /\ UNCHANGED reason /\ Returns
    BY <1>28 DEF BodyReturns, At
  <2> QED
    BY <1>2, <1>3, <2>1
<1>29. CASE BodyPageIn
  <2>1. Top.fn = "pagein" /\ UNCHANGED reason /\ pc \in Registry
        /\ frames' = Front(frames) \o <<NextBody, Frame("pagein", "enter", Top.depth + 1, 0, NoAddr, pc)>>
    BY <1>29 DEF BodyPageIn, BodyGoesOn, At
  <2>2. Frame("pagein", "enter", Top.depth + 1, 0, NoAddr, pc) \in FrameRecs
    BY <2>1, TopFacts DEF Frame, FrameRecs, FrameFns, FrameAts, Wanted
  <2> QED
    BY <1>2, <2>1, <2>2, NewFrames
<1>30. CASE BodyDispatch
  <2>1. Top.fn = "pagein" /\ UNCHANGED reason /\ frames' = Front(frames) \o <<NextBody, Nested>>
    BY <1>30 DEF BodyDispatch, BodyGoesOn, At
  <2> QED
    BY <1>2, <2>1, NewFrames
<1>31. CASE BodyStep
  <2>1. Top.fn = "pagein" /\ UNCHANGED reason /\ Becomes(NextBody)
    BY <1>31 DEF BodyStep, BodyGoesOn, At
  <2> QED
    BY <1>2, <1>3, <2>1, NewFrames
<1>32. CASE PageInFails BY <1>0, <1>32 DEF PageInFails
<1>33. CASE ReconcileFails BY <1>0, <1>33 DEF ReconcileFails
<1> QED
  BY <1>4, <1>5, <1>6, <1>7, <1>8, <1>9, <1>10, <1>11, <1>12, <1>13, <1>14, <1>15, <1>16,
     <1>17, <1>18, <1>19, <1>20, <1>21, <1>22, <1>23, <1>24, <1>25, <1>26, <1>27, <1>28,
     <1>29, <1>30, <1>31, <1>32, <1>33 DEF Next, Host

LEMMA EndStep ==
  ASSUME ChainInv, EndInv, AddrInv, active \subseteq Ids, [Next]_vars PROVE EndInv'
<1>1. CASE UNCHANGED <<frames, reason>> BY <1>1 DEF EndInv, Running
<1>2. ASSUME NEW why, Ends(why) PROVE EndInv'
  BY <1>2, GoesAt DEF EndInv, Running, Ends, OuterAts
<1>3. ASSUME NEW at \in OuterAts, Outside(at) PROVE EndInv'
  BY <1>3, GoesAt DEF EndInv, Running, Outside
<1>4. CASE Inside BY <1>4 DEF EndInv, Running, Inside, OuterAts
<1>5. "install" \in OuterAts
  BY DEF OuterAts
<1> QED
  BY <1>1, <1>2, <1>3, <1>4, <1>5, EndCases DEF vars

---------------------------------------------------------------------------
(* The guest's instructions, case by case. *)

InCode == pc \in EntryAddrs \cup InAddrs
Calls1(c) ==
  /\ InCode /\ Len(stk) < MaxStack /\ c.pc \in Callable
  /\ c.stk = Append(stk, In(pc[2])) /\ In(pc[2]) \in InAddrs /\ c.bytes = bytes
Jumps(c) ==
  InCode /\ TailJumps /\ stk # <<>> /\ c.pc \in Callable /\ c.stk = stk /\ c.bytes = bytes
ReturnsTo(c) ==
  /\ InCode /\ stk # <<>> /\ c.pc = Last(stk) /\ c.stk = Front(stk) /\ c.bytes = bytes
Boots(c) == pc = Boot /\ c.pc = Entry(Main) /\ c.stk = stk /\ c.bytes = bytes
Traps(c) ==
  pc \in StubAddrs /\ Unpaged(pc) /\ c.pc = Pager(pc[2]) /\ c.stk = Append(stk, pc) /\ c.bytes = bytes
Enters(c) ==
  pc \in StubAddrs /\ ~Unpaged(pc) /\ c.pc = Entry(pc[2]) /\ c.stk = stk /\ c.bytes = bytes
Pages(c) ==
  /\ pc \in PagerAddrs /\ c.pc = Last(stk) /\ c.stk = Front(stk)
  /\ \E p \in Places : c.bytes = PagedIn(OvlOf[pc[2]], p)
Loads(c) ==
  /\ pc \in StubAddrs /\ Unpaged(pc) /\ c.pc = pc /\ c.stk = stk
  /\ \E p \in Places : c.bytes = PagedIn(OvlOf[pc[2]], p)

LEMMA CodeCases ==
  ASSUME NEW c \in GuestCode, InCode, pc[2] \in Codes
  PROVE  Calls1(c) \/ Jumps(c) \/ ReturnsTo(c)
<1>1. In(pc[2]) \in InAddrs
  BY Places1
<1>2. ASSUME NEW a, NEW s, NEW b, c = Cpu(a, s, b)
      PROVE  c.pc = a /\ c.stk = s /\ c.bytes = b
  BY <1>2 DEF Cpu
<1>3. CASE \E a \in Callable : Len(stk) < MaxStack /\ c = Cpu(a, Append(stk, In(pc[2])), bytes)
  BY <1>1, <1>2, <1>3 DEF Calls1
<1>4. CASE \E a \in Callable : TailJumps /\ stk # <<>> /\ c = Cpu(a, stk, bytes)
  BY <1>2, <1>4 DEF Jumps
<1>5. CASE stk # <<>> /\ c = Cpu(Last(stk), Front(stk), bytes)
  BY <1>2, <1>5 DEF ReturnsTo
<1> QED
  BY <1>3, <1>4, <1>5 DEF GuestCode

LEMMA CpuCases ==
  ASSUME pc \in PcAddrs, NEW c \in CpuStep
  PROVE  \/ Calls1(c) \/ Jumps(c) \/ ReturnsTo(c) \/ Boots(c)
         \/ Traps(c) \/ Enters(c) \/ Pages(c)
<1>0. ASSUME NEW a, NEW s, NEW b, c = Cpu(a, s, b)
      PROVE  c.pc = a /\ c.stk = s /\ c.bytes = b
  BY <1>0 DEF Cpu
<1>1. CASE pc = Boot
  <2>0. pc[1] = "boot"
    BY <1>1 DEF Boot
  <2>1. c = Cpu(Entry(Main), stk, bytes)
    BY <1>1, <2>0 DEF CpuStep
  <2> QED
    BY <1>0, <1>1, <2>1 DEF Boots
<1>2. CASE pc = Loader
  BY <1>2 DEF CpuStep, Loader, Boot
<1>3. CASE pc \in EntryAddrs \cup InAddrs
  <2>1. pc[1] \in {"entry", "in"} /\ pc[2] \in Codes /\ pc # Boot
    BY <1>3, Kinds DEF Boot
  <2>2. c \in GuestCode
    BY <2>1 DEF CpuStep
  <2> QED
    BY <1>3, <2>1, <2>2, CodeCases DEF InCode
<1>4. CASE pc \in StubAddrs
  <2>1. pc[1] = "stub" /\ pc # Boot
    BY <1>4, Kinds DEF Boot
  <2>2. c \in IF bytes[pc[2]] = 0 THEN {Cpu(Pager(pc[2]), Append(stk, pc), bytes)}
              ELSE {Cpu(Entry(pc[2]), stk, bytes)}
    BY <2>1 DEF CpuStep
  <2>3. CASE Unpaged(pc)
    <3>1. c = Cpu(Pager(pc[2]), Append(stk, pc), bytes)
      BY <2>2, <2>3 DEF Unpaged
    <3> QED
      BY <1>0, <1>4, <2>3, <3>1 DEF Traps
  <2>4. CASE ~Unpaged(pc)
    <3>1. c = Cpu(Entry(pc[2]), stk, bytes)
      BY <2>1, <2>2, <2>4 DEF Unpaged
    <3> QED
      BY <1>0, <1>4, <2>4, <3>1 DEF Enters
  <2> QED
    BY <2>3, <2>4
<1>5. CASE pc \in PagerAddrs
  <2>1. pc[1] = "pager" /\ pc # Boot
    BY <1>5, Kinds DEF Boot
  <2>2. PICK p \in Places : c = Cpu(Last(stk), Front(stk), PagedIn(OvlOf[pc[2]], p))
    BY <2>1 DEF CpuStep
  <2> QED
    BY <1>0, <1>5, <2>2 DEF Pages
<1>6. CASE pc \in MagicAddrs
  <2>1. pc[1] \in {"far", "near"} /\ pc # Boot
    BY <1>6, Kinds DEF Boot
  <2> QED
    BY <2>1 DEF CpuStep
<1> QED
  BY <1>1, <1>2, <1>3, <1>4, <1>5, <1>6 DEF PcAddrs, Starts

LEMMA TraceCases ==
  ASSUME pc \in PcAddrs, NEW c \in TraceStep
  PROVE  \/ Calls1(c) \/ Jumps(c) \/ ReturnsTo(c) \/ Boots(c)
         \/ Enters(c) \/ Pages(c) \/ Loads(c)
<1>1. CASE Unpaged(pc)
  <2>1. PICK p \in Places : c = Cpu(pc, stk, PagedIn(OvlOf[pc[2]], p))
    BY <1>1 DEF TraceStep
  <2>2. c.pc = pc /\ c.stk = stk /\ c.bytes = PagedIn(OvlOf[pc[2]], p)
    BY <2>1 DEF Cpu
  <2>3. pc \in StubAddrs
    <3>1. pc[1] = "stub"
      BY <1>1 DEF Unpaged
    <3> QED
      BY <3>1, Kinds DEF PcAddrs
  <2> QED
    BY <1>1, <2>2, <2>3 DEF Loads
<1>2. CASE ~Unpaged(pc)
  BY <1>2, CpuCases DEF TraceStep, Traps
<1> QED
  BY <1>1, <1>2

\* One instruction, under the CPU's own power or the debugger's.
Instr(c) ==
  \/ Calls1(c) \/ Jumps(c) \/ ReturnsTo(c) \/ Boots(c)
  \/ Traps(c) \/ Enters(c) \/ Pages(c) \/ Loads(c)

LEMMA InstrCases ==
  ASSUME AddrInv, NEW c \in CpuStep \cup TraceStep PROVE Instr(c)
BY CpuCases, TraceCases DEF Instr, AddrInv

LEMMA PushStub ==
  ASSUME AddrInv, NEW x \in RetAddrs \cup StubAddrs, pc \notin PagerAddrs
  PROVE  /\ Append(stk, x) \in Seq(RetAddrs \cup StubAddrs)
         /\ \A k \in DOMAIN Append(stk, x) : Append(stk, x)[k] \in StubAddrs => k = Len(stk) + 1
         /\ Len(Append(stk, x)) = Len(stk) + 1 /\ Last(Append(stk, x)) = x
         /\ Append(stk, x) # <<>>
<1>1. stk \in Seq(RetAddrs \cup StubAddrs)
  BY DEF AddrInv
<1>2. /\ Append(stk, x) \in Seq(RetAddrs \cup StubAddrs) /\ Append(stk, x) # <<>>
      /\ Len(Append(stk, x)) = Len(stk) + 1 /\ Last(Append(stk, x)) = x
      /\ DOMAIN Append(stk, x) = 1 .. Len(stk) + 1 /\ Len(stk) \in Nat /\ DOMAIN stk = 1 .. Len(stk)
      /\ \A i \in 1 .. Len(stk) : Append(stk, x)[i] = stk[i]
  BY <1>1, Appended, Elements
<1>3. \A k \in 1 .. Len(stk) : stk[k] \notin StubAddrs
  BY <1>2 DEF AddrInv
<1> QED
  BY <1>2, <1>3

LEMMA PopStub ==
  ASSUME AddrInv, stk # <<>>
  PROVE  /\ Front(stk) \in Seq(RetAddrs \cup StubAddrs)
         /\ \A k \in DOMAIN Front(stk) : Front(stk)[k] \in RetAddrs /\ Front(stk)[k] = stk[k]
         /\ Len(Front(stk)) = Len(stk) - 1 /\ Len(stk) \in Nat \ {0}
<1>1. stk \in Seq(RetAddrs \cup StubAddrs) /\ Len(stk) \in Nat \ {0} /\ DOMAIN stk = 1 .. Len(stk)
  BY LastIn, Elements DEF AddrInv
<1>2. /\ Front(stk) \in Seq(RetAddrs \cup StubAddrs) /\ Len(Front(stk)) = Len(stk) - 1
      /\ DOMAIN Front(stk) = 1 .. Len(stk) - 1
      /\ \A k \in 1 .. Len(stk) - 1 : Front(stk)[k] = stk[k]
  BY <1>1, Fronts
<1>3. \A k \in 1 .. Len(stk) - 1 : stk[k] \in RetAddrs
  <2>1. \A k \in 1 .. Len(stk) : stk[k] \in RetAddrs \cup StubAddrs
    BY <1>1, Elements
  <2>2. \A k \in 1 .. Len(stk) - 1 : stk[k] \notin StubAddrs
    BY <1>1 DEF AddrInv
  <2> QED
    BY <1>1, <2>1, <2>2
<1> QED
  BY <1>1, <1>2, <1>3

---------------------------------------------------------------------------
(* Addresses stay addresses. *)

LEMMA PcKinds ==
  /\ \A a \in EntryAddrs \cup InAddrs \cup StubAddrs \cup MagicAddrs \cup Starts : a \notin PagerAddrs
  /\ \A a \in EntryAddrs \cup InAddrs \cup PagerAddrs \cup MagicAddrs \cup Starts : a \notin StubAddrs
  /\ \A a \in EntryAddrs \cup StubAddrs \cup PagerAddrs \cup MagicAddrs \cup Starts : a \notin InAddrs
  /\ \A a \in EntryAddrs \cup InAddrs \cup StubAddrs \cup PagerAddrs \cup Starts : a \notin MagicAddrs
  /\ \A a \in InAddrs \cup StubAddrs \cup PagerAddrs \cup MagicAddrs \cup Starts : a \notin EntryAddrs
<1>1. /\ \A a \in EntryAddrs : a[1] = "entry"
      /\ \A a \in InAddrs : a[1] = "in"
      /\ \A a \in StubAddrs : a[1] = "stub"
      /\ \A a \in PagerAddrs : a[1] = "pager"
      /\ \A a \in MagicAddrs : a[1] \in {"far", "near"}
      /\ \A a \in Starts : a[1] \in {"boot", "loader"}
  BY Kinds
<1> QED
  BY <1>1

\* The guest elsewhere, on a stack of the given shape.
Stands(a, s) ==
  /\ a \in PcAddrs
  /\ s \in Seq(RetAddrs \cup StubAddrs)
  /\ \A k \in DOMAIN s : s[k] \in StubAddrs => a \in PagerAddrs /\ k = Len(s)
  /\ a \in PagerAddrs => s # <<>> /\ Last(s) = StubAddr(a[2])
  /\ a \notin PagerAddrs => Len(s) <= MaxStack
  /\ Len(s) <= MaxStack + 1

LEMMA InstrStands ==
  ASSUME AddrInv, Len(stk) <= MaxStack + 1, NEW c, Instr(c)
  PROVE  Stands(c.pc, c.stk)
<1>0. MaxStack \in Nat /\ Len(stk) \in Nat
  BY BoundsAssumption, Elements DEF AddrInv
<1>1. ASSUME pc \notin PagerAddrs, c.stk = stk, c.pc \in PcAddrs, c.pc \notin PagerAddrs
      PROVE  Stands(c.pc, c.stk)
  BY <1>0, <1>1 DEF Stands, AddrInv
<1>2. CASE Calls1(c)
  <2>1. c.pc \in EntryAddrs \cup StubAddrs /\ pc \notin PagerAddrs /\ c.pc \notin PagerAddrs
        /\ In(pc[2]) \in RetAddrs /\ In(pc[2]) \notin StubAddrs
    BY <1>2, Places1, PcKinds DEF Calls1, InCode, RetAddrs
  <2>2. /\ c.stk \in Seq(RetAddrs \cup StubAddrs)
        /\ \A k \in DOMAIN c.stk : c.stk[k] \in StubAddrs => k = Len(stk) + 1
        /\ Len(c.stk) = Len(stk) + 1 /\ Last(c.stk) = In(pc[2]) /\ c.stk # <<>>
    BY <1>2, <2>1, PushStub DEF Calls1
  <2>3. \A k \in DOMAIN c.stk : c.stk[k] \notin StubAddrs
    <3>1. c.stk[Len(c.stk)] = In(pc[2])
      BY <2>2 DEF Last
    <3> QED
      BY <2>1, <2>2, <3>1
  <2>4. Len(stk) < MaxStack
    BY <1>2 DEF Calls1
  <2> QED
    BY <1>0, <2>1, <2>2, <2>3, <2>4 DEF Stands, PcAddrs
<1>3. CASE Jumps(c)
  BY <1>1, <1>3, Places1, PcKinds DEF Jumps, InCode, PcAddrs
<1>4. CASE ReturnsTo(c) \/ Pages(c)
  <2>1. stk # <<>> /\ c.pc = Last(stk) /\ c.stk = Front(stk)
    BY <1>4 DEF ReturnsTo, Pages, AddrInv
  <2>2. Last(stk) \in PcAddrs /\ Last(stk) \notin PagerAddrs
    BY <2>1, StackTop, PcKinds DEF RetAddrs, PcAddrs
  <2>3. /\ Front(stk) \in Seq(RetAddrs \cup StubAddrs)
        /\ \A k \in DOMAIN Front(stk) : Front(stk)[k] \in RetAddrs
        /\ Len(Front(stk)) = Len(stk) - 1 /\ Len(stk) \in Nat \ {0}
    BY <2>1, PopStub
  <2>4. \A k \in DOMAIN Front(stk) : Front(stk)[k] \notin StubAddrs
    BY <2>3, PcKinds DEF RetAddrs
  <2> QED
    BY <1>0, <2>1, <2>2, <2>3, <2>4 DEF Stands
<1>5. CASE Boots(c)
  <2>1. pc \notin PagerAddrs /\ c.pc \in EntryAddrs /\ c.stk = stk
    BY <1>5, Places1, PcKinds DEF Boots
  <2> QED
    BY <1>1, <2>1, PcKinds DEF PcAddrs
<1>6. CASE Traps(c)
  <2>1. pc \in StubAddrs /\ pc \notin PagerAddrs /\ pc[2] \in Stubs /\ pc = StubAddr(pc[2])
        /\ c.pc = Pager(pc[2]) /\ c.stk = Append(stk, pc)
    BY <1>6, Kinds, PcKinds DEF Traps
  <2>2. c.pc \in PagerAddrs /\ c.pc[2] = pc[2]
    BY <2>1, Places1
  <2>3. /\ c.stk \in Seq(RetAddrs \cup StubAddrs)
        /\ \A k \in DOMAIN c.stk : c.stk[k] \in StubAddrs => k = Len(stk) + 1
        /\ Len(c.stk) = Len(stk) + 1 /\ Last(c.stk) = pc /\ c.stk # <<>>
    BY <2>1, PushStub
  <2>4. Len(stk) <= MaxStack
    BY <2>1 DEF AddrInv
  <2> QED
    BY <1>0, <2>1, <2>2, <2>3, <2>4 DEF Stands, PcAddrs
<1>7. CASE Enters(c)
  <2>1. pc \notin PagerAddrs /\ c.pc \in EntryAddrs /\ c.stk = stk
    BY <1>7, Kinds, Places1, PcKinds DEF Enters
  <2> QED
    BY <1>1, <2>1, PcKinds DEF PcAddrs
<1>8. CASE Loads(c)
  BY <1>1, <1>8, PcKinds DEF Loads, PcAddrs
<1> QED
  BY <1>2, <1>3, <1>4, <1>5, <1>6, <1>7, <1>8 DEF Instr

LEMMA StartStep ==
  ASSUME ChainInv, EndInv, AddrInv, StartInv, active \subseteq Ids, [Next]_vars PROVE StartInv'
<1>0. (InRun("load") \/ InRun("install"))' => frames'[1].at \in {"load", "install"}
  BY GoesAt DEF InRun, Goes
<1>1. CASE UNCHANGED vars BY <1>1 DEF StartInv, vars, InRun
<1>2. CASE \E why : Ends(why)
  BY <1>0, <1>2, GoesAt DEF Ends, StartInv
<1>3. CASE \E at \in OuterAts \ {"load", "install"} : Outside(at)
  BY <1>0, <1>3, GoesAt DEF Outside, StartInv
<1>4. CASE Inside
  BY <1>0, <1>4 DEF Inside, StartInv
<1>5. CASE MzEntryStop
  <2>1. StartInv /\ InRun("load") /\ pc' = Boot /\ UNCHANGED <<stk, active, bps, srv, bpint>>
    BY <1>5 DEF MzEntryStop, execVars, bpVars
  <2> QED
    BY <2>1 DEF StartInv, Starts
<1> QED
  BY <1>1, <1>2, <1>3, <1>4, <1>5, EndCases

LEMMA RunnerFacts ==
  ASSUME TypeOK, AddrInv, Running, NEW e \in Runners
  PROVE  /\ e \in Ids /\ mode = "NORMAL" /\ HookPc(e) \in EntryAddrs /\ pc \notin PagerAddrs
         /\ \/ e \in active /\ pc \in MagicAddrs /\ pc[2] = e /\ HookPc(e) = saved[e]
            \/ /\ e \notin active /\ HookHere /\ Resumed = {} /\ pc \in Hooked
               /\ pc \notin MagicAddrs
<1>0. active \subseteq Ids /\ pc \in PcAddrs
  BY DEF TypeOK, AddrInv
<1>1. mode = "NORMAL" /\ (e \in Resumed \/ (Resumed = {} /\ HookHere /\ e \in Free))
  BY DEF Runners
<1>2. CASE e \in Resumed
  <2>1. e \in active /\ e \in Ids /\ \E k \in CallKinds : pc = MagicAddr(k, e)
    BY <1>0, <1>2 DEF Resumed
  <2>2. pc \in MagicAddrs /\ pc[2] = e
    BY <2>1, Places1 DEF MagicAddr
  <2>3. HookPc(e) = saved[e] /\ saved[e] \in EntryAddrs
    BY <2>1 DEF HookPc, AddrInv
  <2> QED
    BY <1>1, <2>1, <2>2, <2>3, PcKinds
<1>3. CASE Resumed = {} /\ HookHere /\ e \in Free
  <2>1. e \in Ids /\ e \notin active
    BY <1>3 DEF Free
  <2>2. pc \in Hooked /\ pc \in EntryAddrs \cup StubAddrs
    BY <1>3, Places1 DEF HookHere, Hooked
  <2>3. HookPc(e) \in EntryAddrs
    <3>1. CASE pc \in StubAddrs
      BY <2>1, <3>1, Kinds, Places1 DEF HookPc
    <3>2. CASE pc \in EntryAddrs
      BY <2>1, <3>2, Kinds DEF HookPc
    <3> QED
      BY <2>2, <3>1, <3>2
  <2> QED
    BY <1>1, <1>3, <2>1, <2>2, <2>3, PcKinds
<1> QED
  BY <1>1, <1>2, <1>3

LEMMA RunningBefore ==
  ASSUME ChainInv, EndInv, AddrInv, active \subseteq Ids, [Next]_vars, Running' PROVE Running
BY EndCases DEF Running, Ends, Outside, Inside, vars

LEMMA DriverRunning == ASSUME ChainInv, EndInv, Top.fn # "run" PROVE Running
BY InnerIsOuter DEF EndInv

LEMMA AddrKept ==
  ASSUME AddrInv, Running' => Running, UNCHANGED <<pc, stk, saved>>, active' \subseteq active PROVE AddrInv'
BY DEF AddrInv

LEMMA AddrMoves ==
  ASSUME AddrInv, Running' => Running, Stands(pc', stk'), UNCHANGED saved, active' \subseteq active
  PROVE  AddrInv' /\ Len(stk)' <= MaxStack + 1
BY DEF AddrInv, Stands

\* A change of the guest's address only.
LEMMA StandsElsewhere ==
  ASSUME AddrInv, Len(stk) <= MaxStack + 1, pc \notin PagerAddrs,
         NEW a \in PcAddrs, a \notin PagerAddrs
  PROVE  Stands(a, stk)
BY DEF Stands, AddrInv

LEMMA AddrInstr ==
  ASSUME AddrInv, Len(stk) <= MaxStack + 1, NEW c \in CpuStep \cup TraceStep, SetCpu(c),
         Running' => Running,
         UNCHANGED <<saved, active>>
  PROVE  AddrInv' /\ Len(stk)' <= MaxStack + 1
BY InstrCases, InstrStands, AddrMoves DEF SetCpu

LEMMA AddrStep ==
  ASSUME TypeOK, AddrInv, StartInv, ChainInv, EndInv, [Next]_vars
  PROVE  AddrInv' /\ Len(stk)' <= MaxStack + 1
<1>0. Len(stk) <= MaxStack + 1 /\ active \subseteq Ids /\ pc \in PcAddrs
      /\ saved \in [Ids -> PcAddrs \cup {NoAddr}] /\ MaxStack \in Nat /\ Len(stk) \in Nat
  BY BoundsAssumption, Elements DEF TypeOK, AddrInv
<1>a. Running' => Running
  BY <1>0, RunningBefore
<1>b. Top.fn = "dispatch" => Running
  BY DriverRunning
<1>1. ASSUME UNCHANGED <<cpuVars, saved, active>> PROVE AddrInv' /\ Len(stk)' <= MaxStack + 1
  BY <1>0, <1>a, <1>1, AddrKept DEF cpuVars
<1>2. CASE UNCHANGED vars
  BY <1>1, <1>2 DEF vars, cpuVars
<1>3. CASE \/ MzSkip \/ MzFails \/ Install \/ Go \/ GoFails \/ StopTracked \/ StopPageIn
           \/ StopUnexpected \/ AfterStop \/ Cleanup \/ Ended
           \/ DispatchTooDeep \/ DispatchCapture \/ DispatchNoContext
           \/ TraceFails \/ PageInTooDeep \/ BodyReturns \/ BodyPageIn \/ BodyDispatch \/ PageInFails
           \/ ReconcileFails
  <2>1. UNCHANGED <<cpuVars, saved, active>>
    BY <1>3 DEF MzSkip, MzFails, Install, Go, GoFails, StopTracked, StopPageIn,
                StopUnexpected, AfterStop, Cleanup, Ended,
                DispatchTooDeep, DispatchCapture, DispatchNoContext,
                TraceFails, PageInTooDeep, BodyReturns, BodyPageIn, BodyDispatch, PageInFails,
                ReconcileFails, vars, cpuVars, execVars
  <2> QED
    BY <1>1, <2>1
<1>4. CASE \/ GuestRuns \/ StopUnrelated \/ Trace \/ PageInEnter \/ PagerStep \/ BodyStep
  <2>1. PICK c \in CpuStep \cup TraceStep : SetCpu(c)
    BY <1>4 DEF GuestRuns, StopUnrelated, Trace, PageInEnter, PagerStep, BodyStep
  <2>2. UNCHANGED <<saved, active>>
    BY <1>4 DEF GuestRuns, StopUnrelated, Trace, PageInEnter, PagerStep, BodyStep, execVars
  <2> QED
    BY <1>0, <1>a, <2>1, <2>2, AddrInstr
<1>5. CASE MzEntryStop
  <2>1. InRun("load") /\ pc' = Boot /\ UNCHANGED <<stk, saved, active>>
    BY <1>5 DEF MzEntryStop, execVars
  <2>2. pc \in Starts
    BY <2>1 DEF StartInv
  <2>3. pc \notin PagerAddrs /\ Boot \in PcAddrs /\ Boot \notin PagerAddrs
    BY <2>2, Places1, PcKinds DEF PcAddrs
  <2> QED
    BY <1>0, <1>a, <2>1, <2>3, StandsElsewhere, AddrMoves
<1>6. CASE DispatchRestore
  <2>1. UNCHANGED <<active, saved>>
    BY <1>6 DEF DispatchRestore
  <2>2. UNCHANGED <<pc, stk>> \/ \E b : SetCpu(Cpu(In(Main), <<>>, b))
    BY <1>6 DEF DispatchRestore, cpuVars
  <2>3. CASE UNCHANGED <<pc, stk>>
    BY <1>0, <1>a, <2>1, <2>3, AddrKept
  <2>4. CASE \E b : SetCpu(Cpu(In(Main), <<>>, b))
    <3>1. pc' = In(Main) /\ stk' = <<>>
      BY <2>4 DEF SetCpu, Cpu
    <3>2. In(Main) \in PcAddrs /\ In(Main) \notin PagerAddrs
      BY Places1, PcKinds DEF PcAddrs
    <3>3. Stands(In(Main), <<>>)
      BY <1>0, <3>2 DEF Stands
    <3> QED
      BY <2>1, <3>1, <3>3, <1>a, AddrMoves
  <2> QED
    BY <2>2, <2>3, <2>4
<1>7. CASE DispatchResume
  <2>1. UNCHANGED <<stk, saved>> /\ \/ UNCHANGED <<pc, active>>
                                    \/ \E e \in Runners : pc' = HookPc(e) /\ active' = active \ {e}
    BY <1>7 DEF DispatchResume
  <2>2. CASE UNCHANGED <<pc, active>>
    BY <1>0, <1>a, <2>1, <2>2, AddrKept
  <2>3. ASSUME NEW e \in Runners, pc' = HookPc(e), active' = active \ {e}
        PROVE  AddrInv' /\ Len(stk)' <= MaxStack + 1
    <3>0. Running
      BY <1>7, <1>b DEF DispatchResume, Dispatching, At
    <3>1. HookPc(e) \in PcAddrs /\ HookPc(e) \notin PagerAddrs /\ pc \notin PagerAddrs
      BY <3>0, RunnerFacts, PcKinds DEF PcAddrs
    <3>2. Stands(HookPc(e), stk)
      BY <1>0, <3>1, StandsElsewhere
    <3>3. Stands(pc', stk')
      BY <2>1, <2>3, <3>2
    <3> QED
      BY <2>1, <2>3, <3>3, <1>a, AddrMoves
  <2> QED
    BY <2>1, <2>2, <2>3
<1>8. CASE DispatchLeave
  <2>1. PICK e \in Runners : /\ active' = active \ {e}
                             /\ \/ stk # <<>> /\ pc' = Last(stk) /\ stk' = Front(stk)
                                \/ \E a \in HookJumps : pc' = a /\ UNCHANGED stk
    BY <1>8 DEF DispatchLeave
  <2>2. UNCHANGED saved
    BY <1>8 DEF DispatchLeave
  <2>0. Running
    BY <1>8, <1>b DEF DispatchLeave, Dispatching, At
  <2>3. pc \notin PagerAddrs
    BY <2>0, RunnerFacts
  <2>4. CASE stk # <<>> /\ pc' = Last(stk) /\ stk' = Front(stk)
    <3>1. Last(stk) \in PcAddrs /\ Last(stk) \notin PagerAddrs
      BY <2>3, <2>4, StackTop, PcKinds DEF RetAddrs, PcAddrs
    <3>2. /\ Front(stk) \in Seq(RetAddrs \cup StubAddrs)
          /\ \A k \in DOMAIN Front(stk) : Front(stk)[k] \in RetAddrs
          /\ Len(Front(stk)) = Len(stk) - 1 /\ Len(stk) \in Nat \ {0}
      BY <2>4, PopStub
    <3>3. \A k \in DOMAIN Front(stk) : Front(stk)[k] \notin StubAddrs
      BY <3>2, PcKinds DEF RetAddrs
    <3>4. Stands(Last(stk), Front(stk))
      BY <1>0, <3>1, <3>2, <3>3 DEF Stands
    <3> QED
      BY <2>1, <2>2, <2>4, <3>4, <1>a, AddrMoves
  <2>5. CASE \E a \in HookJumps : pc' = a /\ UNCHANGED stk
    <3>1. pc' \in PcAddrs /\ pc' \notin PagerAddrs
      BY <2>5, NamesAssumption, Places1, PcKinds DEF PcAddrs
    <3>2. Stands(pc', stk)
      BY <1>0, <2>3, <3>1, StandsElsewhere
    <3>3. Stands(pc', stk')
      BY <2>5, <3>2
    <3> QED
      BY <2>1, <2>2, <3>3, <1>a, AddrMoves
  <2> QED
    BY <2>1, <2>4, <2>5
<1>9. CASE DispatchCall
  <2>1. PICK e \in Runners, k \in CallKinds, a \in HookCalls :
          /\ pc' = a /\ stk' = Append(stk, MagicAddr(k, e))
          /\ active' = active \cup {e} /\ saved' = [saved EXCEPT ![e] = HookPc(e)]
    BY <1>9 DEF DispatchCall
  <2>0. Running
    BY <1>9, <1>b DEF DispatchCall, Dispatching, At
  <2>2. e \in Ids /\ HookPc(e) \in EntryAddrs /\ pc \notin PagerAddrs
    BY <2>0, RunnerFacts
  <2>3. MagicAddr(k, e) \in RetAddrs /\ MagicAddr(k, e) \notin StubAddrs
    BY <2>2, Places1, PcKinds DEF RetAddrs
  <2>4. a \in PcAddrs /\ a \notin PagerAddrs
    BY NamesAssumption, Places1, PcKinds DEF PcAddrs
  <2>5. /\ stk' \in Seq(RetAddrs \cup StubAddrs)
        /\ \A i \in DOMAIN stk' : stk'[i] \in StubAddrs => i = Len(stk) + 1
        /\ Len(stk') = Len(stk) + 1 /\ Last(stk') = MagicAddr(k, e)
    BY <2>1, <2>2, <2>3, PushStub
  <2>6. \A i \in DOMAIN stk' : stk'[i] \notin StubAddrs
    <3>1. stk'[Len(stk')] = MagicAddr(k, e)
      BY <2>5 DEF Last
    <3> QED
      BY <2>3, <2>5, <3>1
  <2>7. Len(stk) < MaxStack
    BY <1>9 DEF DispatchCall
  <2>8. /\ saved' \in [Ids -> PcAddrs \cup {NoAddr}]
        /\ \A d \in active' : saved'[d] \in EntryAddrs
    <3>1. saved' \in [Ids -> PcAddrs \cup {NoAddr}]
      BY <1>0, <1>a, <2>1, <2>2 DEF PcAddrs
    <3>2. \A d \in active' : saved'[d] \in EntryAddrs
      BY <1>0, <2>0, <2>1, <2>2 DEF AddrInv
    <3> QED
      BY <3>1, <3>2
  <2> QED
    BY <1>0, <1>a, <2>1, <2>4, <2>5, <2>6, <2>7, <2>8 DEF AddrInv
<1>10. CASE DispatchFails
  <2>1. UNCHANGED <<cpuVars, saved>> /\ \E why : why # "none" /\ Done(why)
    BY <1>10 DEF DispatchFails
  <2>2. ~Running'
    BY <2>1 DEF Done, Running
  <2> QED
    BY <1>0, <2>1, <2>2 DEF AddrInv, cpuVars
<1>11. CASE PagedInNow
  <2>1. pc = Top.os /\ Top.fn = "pagein" /\ pc' = Entry(pc[2]) /\ UNCHANGED <<stk, saved, active>>
    BY <1>11 DEF PagedInNow, At
  <2>2. pc \in StubAddrs /\ pc \notin PagerAddrs /\ pc[2] \in Codes
    BY <2>1, TopFacts, Places1, PcKinds, Kinds
  <2>3. pc' \in PcAddrs /\ pc' \notin PagerAddrs
    BY <2>1, <2>2, Places1, PcKinds DEF PcAddrs
  <2> QED
    BY <1>0, <1>a, <2>1, <2>2, <2>3, StandsElsewhere, AddrMoves
<1> QED
  BY <1>2, <1>3, <1>4, <1>5, <1>6, <1>7, <1>8, <1>9, <1>10, <1>11 DEF Next, Host

---------------------------------------------------------------------------
(* Contexts, guest memory and the core's segment table keep their types. *)

LEMMA ActiveStep ==
  ASSUME active \subseteq Ids, [Next]_vars PROVE active' \subseteq Ids
<1>1. CASE UNCHANGED active BY <1>1
<1>2. Runners \subseteq Ids
  BY RunnersAreContexts
<1>3. CASE DispatchResume \/ DispatchLeave \/ DispatchCall \/ DispatchFails
  BY <1>2, <1>3 DEF DispatchResume, DispatchLeave, DispatchCall, DispatchFails
<1>4. CASE UNCHANGED vars BY <1>1, <1>4 DEF vars
<1> QED
  BY <1>1, <1>3, <1>4
  DEF Next, Host, MzEntryStop, MzSkip, MzFails, Install, Go, GuestRuns, GoFails, StopTracked,
      StopPageIn, StopUnrelated, StopUnexpected, AfterStop, Cleanup, Ended, DispatchTooDeep,
      DispatchCapture, DispatchRestore, DispatchNoContext, Trace, TraceFails,
      PageInTooDeep, PageInEnter, PagerStep, PagedInNow, BodyReturns, BodyPageIn, BodyDispatch,
      BodyStep, PageInFails, ReconcileFails, execVars, vars

\* What an instruction leaves in the stubs.
LEMMA InstrBytes ==
  ASSUME AddrInv, NEW c \in CpuStep \cup TraceStep
  PROVE  c.bytes = bytes \/ \E n : \E p \in Places : c.bytes = PagedIn(n, p)
BY InstrCases DEF Instr, Calls1, Jumps, ReturnsTo, Boots, Traps, Enters, Pages, Loads

\* Guest memory after a step: as it was, paged, or a snapshot's.
LEMMA BytesCases ==
  ASSUME AddrInv, [Next]_vars
  PROVE  \/ UNCHANGED bytes
         \/ \E n : \E p \in Places : bytes' = PagedIn(n, p)
         \/ bytes' \in Snapshots
<1>1. CASE GuestRuns \/ StopUnrelated \/ Trace \/ PageInEnter \/ PagerStep \/ BodyStep
  <2>1. PICK c \in CpuStep \cup TraceStep : SetCpu(c)
    BY <1>1 DEF GuestRuns, StopUnrelated, Trace, PageInEnter, PagerStep, BodyStep
  <2>2. bytes' = c.bytes
    BY <2>1 DEF SetCpu
  <2> QED
    BY <2>2, InstrBytes
<1>2. CASE DispatchRestore
  BY <1>2 DEF DispatchRestore, SetCpu, Cpu, cpuVars
<1>3. CASE UNCHANGED vars BY <1>3 DEF vars
<1> QED
  BY <1>1, <1>2, <1>3
  DEF Next, Host, MzEntryStop, MzSkip, MzFails, Install, Go, GoFails, StopTracked,
      StopPageIn, StopUnexpected, AfterStop, Cleanup, Ended, DispatchTooDeep,
      DispatchCapture, DispatchResume, DispatchLeave, DispatchCall, DispatchFails,
      DispatchNoContext, TraceFails,
      PageInTooDeep, PagedInNow, BodyReturns, BodyPageIn, BodyDispatch, PageInFails, ReconcileFails, cpuVars, vars

BytesType == bytes \in [Stubs -> Places \cup {0}]

LEMMA BytesStep ==
  ASSUME AddrInv, BytesType, SameBytes, [Next]_vars PROVE BytesType' /\ SameBytes'
<1>1. CASE UNCHANGED bytes BY <1>1 DEF BytesType, SameBytes
<1>2. ASSUME NEW n, NEW p \in Places, bytes' = PagedIn(n, p) PROVE BytesType' /\ SameBytes'
  <2>1. BytesType'
    BY <1>2 DEF BytesType, PagedIn
  <2>2. \A s \in Stubs :
          bytes'[s] = IF OvlOf[s] = n THEN p ELSE IF bytes[s] = p THEN 0 ELSE bytes[s]
    BY <1>2 DEF PagedIn
  <2>3. SameBytes'
    BY <2>2 DEF SameBytes
  <2> QED
    BY <2>1, <2>3
<1>3. CASE bytes' \in Snapshots
  <2>1. CASE \E n \in Ovls, p \in Places \cup {0} :
               bytes' = [s \in Stubs |-> IF OvlOf[s] = n THEN p ELSE 0]
    BY <2>1 DEF BytesType, SameBytes
  <2>2. CASE bytes' = [s \in Stubs |-> 0]
    BY <2>2 DEF BytesType, SameBytes
  <2> QED
    BY <1>3, <2>1, <2>2 DEF Snapshots
<1> QED
  BY <1>1, <1>2, <1>3, BytesCases

MapType == map \in [Ovls -> Places \cup {0}]

LEMMA MappingType ==
  ASSUME MapType, NEW b \in [Stubs -> Places \cup {0}]
  PROVE  Mapping(b) \in [Ovls -> Places \cup {0}]
<1>1. \A n \in Ovls : (\E s \in OvlHooks : OvlOf[s] = n /\ b[s] # 0) =>
        b[CHOOSE s \in OvlHooks : OvlOf[s] = n /\ b[s] # 0] \in Places \cup {0}
  BY StubsAssumption
<1> QED
  BY <1>1 DEF Mapping, MapType

LEMMA SnapshotType == ASSUME NEW b \in Snapshots PROVE b \in [Stubs -> Places \cup {0}]
BY DEF Snapshots

LEMMA MapStep ==
  ASSUME BytesType, MapType, ChainInv, [Next]_vars PROVE MapType'
<1>1. CASE UNCHANGED map BY <1>1 DEF MapType
<1>2. ASSUME NEW b \in [Stubs -> Places \cup {0}], map' = Mapping(b) PROVE MapType'
  BY <1>2, MappingType DEF MapType
<1>3. CASE Install \/ StopTracked \/ BodyReturns \/ ReconcileFails
  <2>1. UNCHANGED map \/ map' = Mapping(bytes)
    BY <1>3 DEF Install, StopTracked, BodyReturns, ReconcileFails, overlay_reconcile_all
  <2> QED
    BY <1>1, <1>2, <2>1 DEF BytesType
<1>4. CASE DispatchRestore
  <2>1. UNCHANGED map \/ \E b \in Snapshots : map' = Mapping(b)
    BY <1>4 DEF DispatchRestore
  <2> QED
    BY <1>1, <1>2, <2>1, SnapshotType
<1>5. CASE PagedInNow
  <2>1. pc = Top.os /\ Top.fn = "pagein" /\ map' = [map EXCEPT ![OvlOf[pc[2]]] = bytes[pc[2]]]
    BY <1>5 DEF PagedInNow, At
  <2>2. pc[2] \in Stubs
    BY <2>1, TopFacts, Places1, Kinds
  <2> QED
    BY <2>1, <2>2 DEF MapType, BytesType
<1>6. CASE UNCHANGED vars BY <1>1, <1>6 DEF vars
<1> QED
  BY <1>1, <1>3, <1>4, <1>5, <1>6
  DEF Next, Host, MzEntryStop, MzSkip, MzFails, Go, GuestRuns, GoFails,
      StopPageIn, StopUnrelated, StopUnexpected, AfterStop, Cleanup, Ended, DispatchTooDeep,
      DispatchCapture, DispatchResume, DispatchLeave, DispatchCall, DispatchFails,
      DispatchNoContext, Trace, TraceFails, PageInTooDeep, PageInEnter, PagerStep,
      BodyPageIn, BodyDispatch, BodyStep, PageInFails, execVars, vars

---------------------------------------------------------------------------
(* The two tables of breakpoints. *)

LEMMA RunEnds ==
  /\ \A at \in EndAts : InRun(at) => ~InRun("load") /\ ~InRun("install") /\ ~(frames[1].at \in OuterAts)
  /\ \A at \in OuterAts : InRun(at) => frames[1].at = at /\ ~InRun("done") /\ ~InRun("returned") /\ ~InRun("exited")
<1>1. \A at : InRun(at) => frames[1].at = at
  BY InRunFacts
<1> QED
  BY <1>1 DEF EndAts, OuterAts

LEMMA Started ==
  ASSUME ChainInv, EndInv,
         Top.fn # "run" \/ \E at \in OuterAts \ {"load", "install"} : InRun(at)
  PROVE  Running /\ ~InRun("load") /\ ~InRun("install")
<1>1. \A at : InRun(at) => Top.fn = "run" /\ frames[1].at = at
  BY InRunFacts
<1>2. CASE Top.fn # "run" BY <1>1, <1>2, DriverRunning
<1>3. CASE \E at \in OuterAts \ {"load", "install"} : InRun(at) BY <1>1, <1>3 DEF EndInv
<1> QED
  BY <1>2, <1>3

BpNow ==
  /\ srv \subseteq Hooked \cup Special
  /\ bps \subseteq srv /\ srv \subseteq bps \cup Registry
  /\ mode = "NORMAL" => bps \subseteq Hooked

LEMMA InRunNext == \A at : InRun(at)' => frames'[1].at = at
BY GoesAt DEF InRun, Goes

LEMMA BpGoesOn ==
  ASSUME EndInv', Running', BpNow', HookAddrs \subseteq bps' \/ InRun("load")' \/ InRun("install")'
  PROVE  BpInv'
<1>1. frames'[1].at \in OuterAts
  BY DEF EndInv
<1>2. ~InRun("done")' /\ ~InRun("returned")' /\ reason' # "exit 0"
  BY <1>1, InRunNext DEF OuterAts, Running
<1> QED
  BY <1>2 DEF BpInv, BpNow

LEMMA BpIsOver ==
  ASSUME NEW why, why \notin {"none", "exit 0"}, Done(why),
         srv' \subseteq Hooked \cup Special,
         why # "ERROR" => srv' \subseteq bps' \cup Registry
  PROVE  BpInv'
<1>1. frames'[1].at = "done" /\ reason' = why
  BY GoesAt DEF Done
<1>2. ~InRun("returned")'
  BY <1>1, InRunNext
<1> QED
  BY <1>1, <1>2 DEF BpInv, Running

LEMMA BpUnfolds ==
  ASSUME BpInv, Running
  PROVE  BpNow /\ (~InRun("load") /\ ~InRun("install") => HookAddrs \subseteq bps)
BY DEF BpInv, BpNow

\* What reconciliation makes of them.
LEMMA Reconciled ==
  ASSUME BpNow, HookAddrs \subseteq bps, UNCHANGED mode, overlay_reconcile_all(bytes)
  PROVE  BpNow' /\ HookAddrs \subseteq bps'
<1>1. PagedStubs(bytes) \subseteq Registry
  BY DEF PagedStubs, Registry
<1>2. HookAddrs \cap Registry = {}
  BY Places1, PcKinds
<1> QED
  BY <1>1, <1>2 DEF overlay_reconcile_all, Tracked, BpNow, Hooked

LEMMA BpRestored ==
  ASSUME BpNow, HookAddrs \subseteq bps, BpInv, EndInv', DispatchRestore, Running
  PROVE  BpInv' /\ bps' \subseteq Hooked \cup Special
<1> DEFINE Dirty(F, G) ==
      /\ host_bp_clear_all(F, G) /\ Done("ERROR")
    Rebuilt(b, F2) ==
      /\ mode' = "NORMAL"
      /\ bps' = (HookAddrs \ F2) \cup (IF F2 = {} THEN PagedStubs(b) ELSE {})
      /\ srv' = (srv \ bps) \cup bps'
      /\ IF F2 = {} THEN Returns /\ UNCHANGED reason ELSE Done("ERROR")
<1>1. \/ \E F \in FailureSets(bps) : \E G : Dirty(F, G)
      \/ \E b, F2 : Rebuilt(b, F2)
  BY DEF DispatchRestore
<1>2. ASSUME NEW F \in FailureSets(bps), NEW G, Dirty(F, G)
      PROVE  BpInv' /\ bps' \subseteq Hooked \cup Special
  <2>1. F \subseteq bps
    BY <1>2 DEF FailureSets
  <2>2. srv' \subseteq Hooked \cup Special /\ bps' \subseteq Hooked \cup Special
    BY <1>2, <2>1 DEF host_bp_clear_all, BpNow
  <2>3. BpInv'
    BY <1>2, <2>2, BpIsOver
  <2> QED
    BY <2>2, <2>3
<1>3. ASSUME NEW b, NEW F2, Rebuilt(b, F2)
      PROVE  BpInv' /\ bps' \subseteq Hooked \cup Special
  <2>1. PagedStubs(b) \subseteq Registry
    BY DEF PagedStubs, Registry
  <2>2. bps' \subseteq Hooked
    BY <1>3, <2>1 DEF Hooked
  <2>3. srv' \subseteq Hooked \cup Special /\ bps' \subseteq srv' /\ srv' \subseteq bps' \cup Registry
    BY <1>3, <2>2 DEF BpNow
  <2>4. CASE F2 = {}
    <3>1. HookAddrs \subseteq bps' /\ Running'
      BY <1>3, <2>4 DEF Running
    <3>2. BpNow'
      BY <2>2, <2>3 DEF BpNow
    <3>3. BpInv'
      BY <3>1, <3>2, BpGoesOn
    <3> QED
      BY <2>2, <3>3
  <2>5. CASE F2 # {}
    <3>1. Done("ERROR")
      BY <1>3, <2>5
    <3>2. BpInv'
      BY <2>3, <3>1, BpIsOver
    <3> QED
      BY <2>2, <3>2
  <2> QED
    BY <2>4, <2>5
<1> QED
  BY <1>1, <1>2, <1>3

LEMMA BpExits ==
  ASSUME reason' \in {"exit 0", "MAX_EXEC"}, Goes("exited"), srv' \subseteq Hooked \cup Special,
         reason' = "exit 0" => srv' \subseteq Registry
  PROVE  BpInv'
<1>1. InRun("exited")' /\ ~InRun("done")' /\ ~InRun("returned")'
  BY GoesAt, InRunNext DEF InRun, Goes
<1> QED
  BY <1>1 DEF BpInv, Running

LEMMA BpInstall ==
  ASSUME StartInv, BpInv, EndInv', Install, Running
  PROVE  BpInv' /\ bps' \subseteq Hooked \cup Special
<1>1. bps = {} /\ srv = {} /\ UNCHANGED mode
  BY DEF Install, StartInv
<1>2. SpecialBp \subseteq Special /\ (mode = "NORMAL" => SpecialBp = {})
  BY DEF SpecialBp, Special
<1>3. CASE PreflightFails
  <2>1. Done("ERROR") /\ UNCHANGED <<bps, srv>>
    BY <1>3 DEF Install, bpVars
  <2> QED
    BY <1>1, <2>1, BpIsOver
<1>4. CASE ~PreflightFails
  <2>1. PICK F, ok, G : /\ G \subseteq F /\ F \subseteq HookAddrs \cup SpecialBp
          /\ srv' = srv \cup ((HookAddrs \cup SpecialBp) \ F) \cup G
                      \cup (IF F = {} THEN PagedStubs(bytes) ELSE {})
          /\ bps' = bps \cup ((HookAddrs \cup SpecialBp) \ F)
                      \cup (IF F = {} THEN PagedStubs(bytes) ELSE {})
          /\ IF F = {} /\ ok THEN Goes("go") /\ UNCHANGED reason ELSE Done("ERROR")
    BY <1>4 DEF Install, FailureSets
  <2>2. PagedStubs(bytes) \subseteq Registry
    BY DEF PagedStubs, Registry
  <2>3. /\ srv' \subseteq Hooked \cup Special /\ bps' \subseteq Hooked \cup Special
        /\ bps' \subseteq srv'
    BY <1>1, <1>2, <2>1, <2>2 DEF Hooked
  <2>4. CASE F = {} /\ ok
    <3>1. srv' = bps' /\ HookAddrs \subseteq bps' /\ Running'
      BY <1>1, <2>1, <2>4 DEF Running
    <3>2. mode' = "NORMAL" => bps' \subseteq Hooked
      BY <1>1, <1>2, <2>1, <2>2, <2>4 DEF Hooked
    <3>3. BpNow'
      BY <2>3, <3>1, <3>2 DEF BpNow
    <3> QED
      BY <2>3, <3>1, <3>3, BpGoesOn
  <2>5. CASE ~(F = {} /\ ok)
    <3>1. Done("ERROR")
      BY <2>1, <2>5
    <3> QED
      BY <2>3, <3>1, BpIsOver
  <2> QED
    BY <2>4, <2>5
<1> QED
  BY <1>3, <1>4

LEMMA BpCleanup ==
  ASSUME BpInv, bps \subseteq Hooked \cup Special, reason # "none", Cleanup
  PROVE  BpInv' /\ bps' \subseteq Hooked \cup Special
<1>1. PICK F, ok, G :
        /\ F \subseteq bps /\ G \subseteq F /\ host_bp_clear_all(F, G)
        /\ bpint' = (bpint /\ ~ok)
        /\ reason' = IF (F # {} \/ (bpint /\ ~ok)) /\ reason # "DOSEMU_EXIT"
                     THEN "ERROR" ELSE reason
  BY DEF Cleanup, FailureSets
<1>2. InRun("done") /\ Goes("returned")
  BY DEF Cleanup
<1>3. reason # "exit 0"
  <2>1. ~InRun("exited")
    <3>1. \A at : InRun(at) => frames[1].at = at
      BY InRunFacts
    <3> QED
      BY <1>2, <3>1
  <2> QED
    BY <2>1 DEF BpInv
<1>4. bps' = F /\ srv' = srv \ ((bps \ F) \cup G)
  BY <1>1 DEF host_bp_clear_all
<1>5. srv' \subseteq Hooked \cup Special /\ bps' \subseteq Hooked \cup Special
  BY <1>1, <1>4 DEF BpInv
<1>6. ~InRun("done")' /\ reason' # "none" /\ reason' # "exit 0"
  <2>1. frames'[1].at = "returned"
    BY <1>2, GoesAt
  <2>2. ~InRun("done")'
    BY <2>1, InRunNext
  <2> QED
    BY <1>1, <1>3, <2>2
<1>7. reason' \notin {"ERROR", "DOSEMU_EXIT"} => srv' \subseteq Registry /\ bpint' = FALSE
  <2>1. SUFFICES ASSUME reason' \notin {"ERROR", "DOSEMU_EXIT"}
                 PROVE  srv' \subseteq Registry /\ bpint' = FALSE
    OBVIOUS
  <2>2. F = {} /\ ~(bpint /\ ~ok) /\ reason \notin {"ERROR", "DOSEMU_EXIT"}
    BY <1>1, <2>1
  <2>3. srv \subseteq bps \cup Registry
    BY <1>2, <2>2 DEF BpInv
  <2> QED
    BY <1>1, <1>4, <2>2, <2>3
<1> QED
  BY <1>5, <1>6, <1>7 DEF BpInv, Running

LEMMA BpCapture ==
  ASSUME BpNow, DispatchCapture
  PROVE  BpInv' /\ bps' \subseteq Hooked \cup Special
<1>1. PICK F, G :
        /\ F \subseteq bps /\ G \subseteq F /\ host_bp_clear_all(F, G)
        /\ IF F = {} THEN Goes("exited") /\ reason' = "exit 0" ELSE Done("ERROR")
  BY DEF DispatchCapture, FailureSets
<1>2. bps' = F /\ srv' = srv \ ((bps \ F) \cup G)
  BY <1>1 DEF host_bp_clear_all
<1>3. srv' \subseteq Hooked \cup Special /\ bps' \subseteq Hooked \cup Special
  BY <1>1, <1>2 DEF BpNow
<1>4. CASE F = {}
  <2>1. srv' \subseteq Registry
    BY <1>2, <1>4 DEF BpNow
  <2> QED
    BY <1>1, <1>3, <1>4, <2>1, BpExits
<1>5. CASE F # {}
  <2>1. Done("ERROR")
    BY <1>1, <1>5
  <2> QED
    BY <1>3, <2>1, BpIsOver
<1> QED
  BY <1>4, <1>5

LEMMA BpStep ==
  ASSUME TypeOK, AddrInv, StartInv, ChainInv, EndInv, BpInv, [Next]_vars
  PROVE  BpInv' /\ bps' \subseteq Hooked \cup Special
<1> DEFINE Goal == BpInv' /\ bps' \subseteq Hooked \cup Special
<1>0. bps \subseteq Hooked \cup Special /\ active \subseteq Ids
  BY DEF TypeOK, Hooked, Special
<1>1. EndInv'
  BY <1>0, EndStep
<1>2. CASE UNCHANGED vars
  BY <1>0, <1>2 DEF BpInv, vars, Running, InRun
<1>3. ASSUME Running, UNCHANGED reason, UNCHANGED <<bps, srv, mode>>,
             (~InRun("load") /\ ~InRun("install")) \/ InRun("install")'
      PROVE  Goal
  <2>1. BpNow' /\ Running' /\ (HookAddrs \subseteq bps' \/ InRun("install")')
    BY <1>3, BpUnfolds DEF BpNow, Running
  <2> QED
    BY <1>0, <1>1, <1>3, <2>1, BpGoesOn
<1>4. ASSUME Running, NEW why, why \notin {"none", "exit 0"}, Done(why), UNCHANGED <<bps, srv>>
      PROVE  Goal
  <2>1. BpNow
    BY <1>4, BpUnfolds
  <2> QED
    BY <1>0, <1>4, <2>1, BpIsOver DEF BpNow
<1>5. ASSUME Running, UNCHANGED <<reason, mode>>, ~InRun("load") /\ ~InRun("install"),
             \/ overlay_reconcile_all(bytes)
             \/ \E a \in Registry : bps' = bps \ {a} /\ UNCHANGED srv
      PROVE  Goal
  <2>1. BpNow /\ HookAddrs \subseteq bps /\ Running'
    BY <1>5, BpUnfolds DEF Running
  <2>2. BpNow' /\ HookAddrs \subseteq bps'
    <3>1. CASE overlay_reconcile_all(bytes)
      BY <1>5, <2>1, <3>1, Reconciled
    <3>2. CASE \E a \in Registry : bps' = bps \ {a} /\ UNCHANGED srv
      <4>1. HookAddrs \cap Registry = {}
        BY Places1, PcKinds
      <4> QED
        BY <1>5, <2>1, <3>2, <4>1 DEF BpNow
    <3> QED
      BY <1>5, <3>1, <3>2
  <2>3. BpInv'
    BY <1>1, <2>1, <2>2, BpGoesOn
  <2> QED
    BY <2>2, <2>3 DEF BpNow
<1>6. CASE MzEntryStop
  <2>1. InRun("load") /\ Goes("install") /\ UNCHANGED <<reason, bps, srv, mode>>
    BY <1>6 DEF MzEntryStop, execVars, bpVars
  <2>2. Running /\ InRun("install")'
    BY <2>1, RunEnds DEF OuterAts, EndInv, InRun, Goes
  <2> QED
    BY <1>3, <2>1, <2>2
<1>7. CASE MzFails
  <2>1. InRun("load") /\ Done("ERROR") /\ UNCHANGED <<bps, srv>>
    BY <1>7 DEF MzFails, bpVars
  <2>2. Running
    BY <2>1, RunEnds DEF OuterAts, EndInv
  <2> QED
    BY <1>4, <2>1, <2>2
<1>8. CASE Install
  <2>1. Running
    BY <1>8, RunEnds DEF OuterAts, EndInv, Install
  <2> QED
    BY <1>1, <1>8, <2>1, BpInstall
<1>9. CASE Cleanup
  <2>1. reason # "none"
    <3>1. frames[1].at = "done"
      BY <1>9, InRunFacts DEF Cleanup
    <3> QED
      BY <3>1 DEF EndInv, OuterAts, Running
  <2> QED
    BY <1>0, <1>9, <2>1, BpCleanup
<1>10. CASE \/ Go \/ GuestRuns \/ GoFails \/ StopTracked \/ StopPageIn \/ StopUnrelated
            \/ StopUnexpected \/ AfterStop
  <2>0. \E at \in OuterAts \ {"load", "install"} : InRun(at)
    BY <1>10 DEF Go, GuestRuns, GoFails, StopTracked, StopPageIn, StopUnrelated, StopUnexpected,
                 AfterStop, OuterAts
  <2>1. Running /\ ~InRun("load") /\ ~InRun("install")
    BY <2>0, Started
  <2>2. CASE Go \/ GuestRuns \/ StopPageIn \/ StopUnrelated
    BY <1>3, <2>1, <2>2 DEF Go, GuestRuns, StopPageIn, StopUnrelated, execVars, bpVars
  <2>3. CASE GoFails \/ StopUnexpected
    BY <1>4, <2>1, <2>3 DEF GoFails, StopUnexpected, bpVars
  <2>4. CASE StopTracked
    BY <1>5, <2>1, <2>4 DEF StopTracked
  <2>5. CASE AfterStop
    <3>1. UNCHANGED <<bps, srv, mode>> /\ (UNCHANGED reason \/ \E why \in {"CALLBACK", "MAXSTEPS"} : Done(why))
      BY <2>5 DEF AfterStop, execVars, bpVars
    <3> QED
      BY <1>3, <1>4, <2>1, <3>1
  <2> QED
    BY <1>10, <2>2, <2>3, <2>4, <2>5
<1>11. CASE \/ DispatchTooDeep \/ DispatchCapture \/ DispatchRestore \/ DispatchResume
            \/ DispatchLeave \/ DispatchCall \/ DispatchFails \/ DispatchNoContext
  <2>0. Top.fn # "run"
    BY <1>11 DEF DispatchTooDeep, DispatchCapture, DispatchRestore, DispatchResume, DispatchLeave,
                 DispatchCall, DispatchFails, DispatchNoContext, Dispatching, At
  <2>1. Running /\ ~InRun("load") /\ ~InRun("install")
    BY <2>0, Started
  <2>2. BpNow /\ HookAddrs \subseteq bps
    BY <2>1, BpUnfolds
  <2>3. CASE DispatchResume \/ DispatchLeave \/ DispatchCall
    BY <1>3, <2>1, <2>3 DEF DispatchResume, DispatchLeave, DispatchCall, bpVars
  <2>4. CASE DispatchTooDeep
    BY <1>4, <2>1, <2>4 DEF DispatchTooDeep, bpVars
  <2>5. CASE DispatchFails
    <3>1. UNCHANGED <<bps, srv>> /\ (Done("REDIRECTS") \/ Done("ERROR"))
      BY <2>5 DEF DispatchFails, bpVars
    <3> QED
      BY <1>4, <2>1, <3>1
  <2>6. CASE DispatchCapture
    BY <2>2, <2>6, BpCapture
  <2>7. CASE DispatchRestore
    BY <1>1, <2>1, <2>2, <2>7, BpRestored
  <2>8. CASE DispatchNoContext
    <3>1. Goes("exited") /\ reason' = "MAX_EXEC" /\ UNCHANGED <<bps, srv>>
      BY <2>8 DEF DispatchNoContext, bpVars
    <3> QED
      BY <1>0, <2>2, <3>1, BpExits DEF BpNow
  <2> QED
    BY <1>11, <2>3, <2>4, <2>5, <2>6, <2>7, <2>8
<1>12. CASE \/ Trace \/ TraceFails \/ PageInTooDeep \/ PageInEnter \/ PagerStep \/ PagedInNow
            \/ BodyReturns \/ BodyPageIn \/ BodyDispatch \/ BodyStep \/ PageInFails
  <2>0. Top.fn # "run"
    BY <1>12 DEF Trace, TraceFails, PageInTooDeep, PageInEnter, PagerStep, PagedInNow, BodyReturns,
                 BodyPageIn, BodyDispatch, BodyStep, PageInFails, BodyGoesOn, At
  <2>1. Running /\ ~InRun("load") /\ ~InRun("install")
    BY <2>0, Started
  <2>2. CASE Trace \/ PagerStep \/ PagedInNow \/ BodyDispatch \/ BodyStep
    BY <1>3, <2>1, <2>2 DEF Trace, PagerStep, PagedInNow, BodyDispatch, BodyStep, execVars, bpVars
  <2>3. CASE TraceFails \/ PageInTooDeep \/ PageInFails
    BY <1>4, <2>1, <2>3 DEF TraceFails, PageInTooDeep, PageInFails, bpVars
  <2>4. CASE BodyReturns
    BY <1>5, <2>1, <2>4 DEF BodyReturns
  <2>5. CASE BodyPageIn
    BY <1>5, <2>1, <2>5 DEF BodyPageIn, execVars
  <2>6. CASE PageInEnter
    <3>1. Top.os \in Registry
      BY <2>6, TopFacts DEF PageInEnter, At
    <3> QED
      BY <1>5, <2>1, <2>6, <3>1 DEF PageInEnter, execVars
  <2> QED
    BY <1>12, <2>2, <2>3, <2>4, <2>5, <2>6
<1>13. CASE MzSkip \/ Ended
  BY <1>2, <1>13 DEF MzSkip, Ended
<1>14. CASE ReconcileFails
  <2>1. InRun("stopped") \/ Top.fn # "run"
    BY <1>14 DEF ReconcileFails, At
  <2>2. BpNow
    BY <2>1, Started, BpUnfolds DEF OuterAts
  <2>3. PagedStubs(bytes) \subseteq Registry
    BY DEF PagedStubs, Registry
  <2>4. bps' \subseteq bps \cup PagedStubs(bytes) /\ srv' \subseteq srv \cup PagedStubs(bytes) /\ Done("ERROR")
    BY <1>14 DEF ReconcileFails, Tracked
  <2>5. srv' \subseteq Hooked \cup Special /\ bps' \subseteq Hooked \cup Special
    BY <1>0, <2>2, <2>3, <2>4 DEF BpNow, Hooked
  <2> QED
    BY <2>4, <2>5, BpIsOver
<1> QED
  BY <1>2, <1>6, <1>7, <1>8, <1>9, <1>10, <1>11, <1>12, <1>13, <1>14 DEF Next, Host

---------------------------------------------------------------------------
(* The innermost activation after a step, and the pager's place in it. *)

LEMMA TopGoes == ASSUME NEW at, Goes(at) PROVE Top'.fn = "run" /\ Top'.at = at
<1>1. Top' = Frame("run", at, 0, 0, NoAddr, NoAddr)
  BY DEF Goes, RunAt, Top, Last
<1> QED
  BY <1>1 DEF Frame

LEMMA TopReturns ==
  ASSUME ChainInv, Top.fn # "run", Returns
  PROVE  Top' = frames[Len(frames) - 1] /\ Link(Top', Top)
<1>1. Top' = frames[Len(frames) - 1]
  BY TopFacts, ChainPop DEF Returns, ChainInv, Top
<1>2. Link(frames[Len(frames) - 1], Top)
  BY ChainTop DEF ChainInv, Top
<1> QED
  BY <1>1, <1>2

LEMMA TopNests ==
  ASSUME ChainInv, NEW g \in FrameRecs, NEW h \in FrameRecs
  PROVE  /\ Becomes(g) => Top' = g
         /\ frames' = Front(frames) \o <<g, h>> => Top' = h
         /\ frames' = Append(RunAt("after"), h) => Top' = h
<1>1. Front(frames) \in Seq(FrameRecs)
  BY Fronts DEF ChainInv, Chain
<1>2. Append(Front(frames), g) \in Seq(FrameRecs)
  BY <1>1
<1>3. Becomes(g) => Top' = g
  BY <1>1, Appended DEF Becomes, Top
<1>4. frames' = Front(frames) \o <<g, h>> => Top' = h
  <2>0. \A s \in Seq(FrameRecs) : Last(Append(s, h)) = h
    BY Appended
  <2>1. Last(Append(Append(Front(frames), g), h)) = h
    BY <1>2, <2>0
  <2>2. Front(frames) \o <<g, h>> = Append(Append(Front(frames), g), h)
    BY NestedFrames
  <2> QED
    BY <2>1, <2>2 DEF Top
<1>5. frames' = Append(RunAt("after"), h) => Top' = h
  BY ChainRun, ChainFacts, Appended DEF Top, OuterAts
<1> QED
  BY <1>3, <1>4, <1>5

LEMMA StartFrames ==
  /\ Frame("dispatch", "top", 0, 0, NoAddr, NoAddr) \in FrameRecs
  /\ \A a \in Registry : Frame("pagein", "enter", 0, 0, NoAddr, a) \in FrameRecs
  /\ ChainInv => \A a \in Registry : Frame("pagein", "enter", Top.depth + 1, 0, NoAddr, a) \in FrameRecs
<1>1. /\ "dispatch" \in FrameFns /\ "pagein" \in FrameFns /\ "top" \in FrameAts /\ "enter" \in FrameAts
      /\ NoAddr \in Wanted
  BY DEF FrameFns, FrameAts, Wanted
<1>2. \A d \in Nat, a \in Registry : Frame("pagein", "enter", d, 0, NoAddr, a) \in FrameRecs
  BY <1>1 DEF Frame, FrameRecs
<1>3. ChainInv => Top.depth + 1 \in Nat
  BY TopFacts
<1>4. Frame("dispatch", "top", 0, 0, NoAddr, NoAddr) \in FrameRecs
  BY <1>1 DEF Frame, FrameRecs
<1> QED
  BY <1>2, <1>3, <1>4

LEMMA PagerFrames ==
  ASSUME ChainInv, Top.fn = "pagein"
  PROVE  \A n \in Nat : LET g == Frame("pagein", "pager", Top.depth, n, NoAddr, Top.os)
                        IN g \in FrameRecs /\ g.fn = "pagein" /\ g.at = "pager" /\ g.os = Top.os
<1>1. "pagein" \in FrameFns /\ "pager" \in FrameAts /\ NoAddr \in Wanted
  BY DEF FrameFns, FrameAts, Wanted
<1> QED
  BY <1>1, TopFacts DEF Frame, FrameRecs

LEMMA PagerStepInv ==
  ASSUME TypeOK, AddrInv, ChainInv, PagerInv, [Next]_vars PROVE PagerInv'
<1> DEFINE Quiet == ~At("pagein", "enter")' /\ ~At("pagein", "pager")'
<1>0. Quiet => PagerInv'
  BY DEF PagerInv
<1>1. CASE UNCHANGED vars
  BY <1>1 DEF PagerInv, vars, At, Top, Unpaged
<1>2. ASSUME NEW at, Goes(at) PROVE Quiet
  BY <1>2, TopGoes DEF At
<1>3. ASSUME Top.fn # "run", Returns PROVE Quiet
  BY <1>3, TopReturns DEF At, Link
<1>4. ASSUME NEW why, Done(why) PROVE Quiet
  BY <1>2, <1>4 DEF Done
<1>5. ASSUME NEW g \in FrameRecs, NEW h \in FrameRecs, h.fn # "pagein",
             frames' = Front(frames) \o <<g, h>> \/ frames' = Append(RunAt("after"), h)
      PROVE  Quiet
  BY <1>5, TopNests DEF At
<1>6. ASSUME NEW g \in FrameRecs, g.fn # "pagein" \/ g.at = "body", Becomes(g) PROVE Quiet
  BY <1>6, TopNests DEF At
<1>7. CASE \/ MzEntryStop \/ MzFails \/ Install \/ Go \/ GuestRuns \/ GoFails
           \/ StopUnrelated \/ StopUnexpected \/ AfterStop \/ Cleanup
           \/ DispatchTooDeep \/ DispatchCapture \/ DispatchFails \/ DispatchNoContext
           \/ TraceFails \/ PageInTooDeep \/ PageInFails \/ ReconcileFails
  <2>1. (\E at : Goes(at)) \/ (\E why : Done(why))
    BY <1>7 DEF MzEntryStop, MzFails, Install, Go, GuestRuns, GoFails,
                StopUnrelated, StopUnexpected, AfterStop, Cleanup, DispatchTooDeep,
                DispatchCapture, DispatchFails, DispatchNoContext, TraceFails, PageInTooDeep,
                PageInFails, ReconcileFails
  <2> QED
    BY <1>0, <1>2, <1>4, <2>1
<1>8. CASE DispatchRestore \/ DispatchResume \/ DispatchLeave \/ BodyReturns
  <2>1. Top.fn # "run" /\ (Returns \/ \E why : Done(why))
    BY <1>8 DEF DispatchRestore, DispatchResume, DispatchLeave, BodyReturns, Dispatching, At
  <2> QED
    BY <1>0, <1>3, <1>4, <2>1
<1>9. CASE StopTracked
  <2>1. Frame("dispatch", "top", 0, 0, NoAddr, NoAddr).fn # "pagein"
    BY DEF Frame
  <2> QED
    BY <1>0, <1>5, <1>9, <2>1, StartFrames DEF StopTracked
<1>10. CASE DispatchCall
  <2>1. PICK e \in Runners, k \in CallKinds :
          frames' = Front(frames) \o
            <<NextTop, Frame("trace", "step", Top.depth, 0, MagicAddr(k, e), NoAddr)>>
    BY <1>10 DEF DispatchCall
  <2>2. e \in Ids /\ Top.fn = "dispatch"
    BY <1>10, RunnersAreContexts DEF DispatchCall, Dispatching, At, TypeOK
  <2> DEFINE h == Frame("trace", "step", Top.depth, 0, MagicAddr(k, e), NoAddr)
  <2>3. h \in FrameRecs /\ NextTop \in FrameRecs /\ h.fn = "trace"
    BY <2>2, NewFrames DEF Frame
  <2> QED
    BY <1>0, <1>5, <2>1, <2>3
<1>11. CASE Trace
  <2>1. Top.fn = "trace" /\ (Returns \/ frames' = Front(frames) \o <<NextTrace, Nested>> \/ Becomes(NextTrace))
    BY <1>11 DEF Trace, At
  <2>2. NextTrace \in FrameRecs /\ NextTrace.fn = "trace" /\ Nested \in FrameRecs /\ Nested.fn = "dispatch"
    BY <2>1, NewFrames DEF Continues
  <2> QED
    BY <1>0, <1>3, <1>5, <1>6, <2>1, <2>2
<1>12. CASE StopPageIn
  <2> DEFINE h == Frame("pagein", "enter", 0, 0, NoAddr, pc)
  <2>1. pc \in Registry /\ pc \notin bps /\ Unpaged(pc) /\ UNCHANGED <<pc, bytes, bps>>
        /\ frames' = Append(RunAt("after"), h)
    BY <1>12 DEF StopPageIn, cpuVars, bpVars
  <2>2. h \in FrameRecs /\ h.at = "enter" /\ h.os = pc
    BY <2>1, StartFrames DEF Frame
  <2>3. Top' = h
    BY <2>1, <2>2, TopNests
  <2> QED
    BY <2>1, <2>2, <2>3 DEF PagerInv, At, Unpaged
<1>13. CASE BodyPageIn
  <2> DEFINE h == Frame("pagein", "enter", Top.depth + 1, 0, NoAddr, pc)
  <2>1. pc \in Registry /\ Unpaged(pc) /\ UNCHANGED <<pc, bytes>> /\ bps' = bps \ {pc}
        /\ frames' = Front(frames) \o <<NextBody, h>> /\ Top.fn = "pagein"
    BY <1>13 DEF BodyPageIn, BodyGoesOn, At, cpuVars
  <2>2. h \in FrameRecs /\ h.at = "enter" /\ h.os = pc /\ NextBody \in FrameRecs
    BY <2>1, StartFrames, NewFrames DEF Frame
  <2>3. Top' = h
    BY <2>1, <2>2, TopNests
  <2> QED
    BY <2>1, <2>2, <2>3 DEF PagerInv, At, Unpaged
<1>14. CASE PageInEnter
  <2> DEFINE g == Frame("pagein", "pager", Top.depth, 0, NoAddr, Top.os)
  <2>1. Top.fn = "pagein" /\ pc = Top.os /\ Unpaged(pc) /\ Becomes(g) /\ \E c \in CpuStep : SetCpu(c)
    BY <1>14 DEF PageInEnter, PagerInv, At
  <2>2. g \in FrameRecs /\ g.at = "pager" /\ g.os = Top.os
    BY <2>1, PagerFrames
  <2>3. Top' = g
    BY <2>1, <2>2, TopNests
  <2>4. PICK c \in CpuStep : SetCpu(c)
    BY <2>1
  <2>5. pc \in StubAddrs /\ pc \notin EntryAddrs \cup InAddrs \cup PagerAddrs /\ pc # Boot
    BY <2>1, TopFacts, Places1, PcKinds
  <2>6. Traps(c)
    BY <2>1, <2>5, CpuCases DEF AddrInv, Calls1, Jumps, ReturnsTo, InCode, Boots, Enters, Pages
  <2>7. pc' = Pager(Top.os[2])
    BY <2>1, <2>4, <2>6 DEF Traps, SetCpu
  <2> QED
    BY <2>2, <2>3, <2>7 DEF PagerInv, At
<1>15. CASE PagerStep
  <2> DEFINE g == Frame("pagein", "pager", Top.depth, Top.n + 1, NoAddr, Top.os)
  <2>1. Top.fn = "pagein" /\ pc = Pager(Top.os[2]) /\ Becomes(g) /\ \E c \in CpuStep : SetCpu(c)
    BY <1>15 DEF PagerStep, PagerInv, At
  <2>2. g \in FrameRecs /\ g.at = "pager" /\ g.os = Top.os
    <3>1. Top.n + 1 \in Nat
      BY TopFacts
    <3> QED
      BY <2>1, <3>1, PagerFrames
  <2>3. Top' = g
    BY <2>1, <2>2, TopNests
  <2>4. PICK c \in CpuStep : SetCpu(c)
    BY <2>1
  <2>5. Top.os \in Registry /\ Top.os \in StubAddrs /\ Top.os[2] \in Stubs /\ StubAddr(Top.os[2]) = Top.os
    BY <2>1, TopFacts, Places1, Kinds
  <2>6. pc \in PagerAddrs /\ pc[2] = Top.os[2]
    BY <2>1, <2>5, Places1
  <2>7. pc \notin EntryAddrs \cup InAddrs \cup StubAddrs /\ pc # Boot
    BY <2>6, Places1, PcKinds
  <2>8. Pages(c)
    BY <2>7, CpuCases DEF AddrInv, Calls1, Jumps, ReturnsTo, InCode, Boots, Enters, Traps
  <2>9. pc' = Top.os
    BY <2>4, <2>5, <2>6, <2>8 DEF Pages, SetCpu, AddrInv
  <2> QED
    BY <2>2, <2>3, <2>9 DEF PagerInv, At
<1>16. CASE PagedInNow
  <2>1. PICK g : Becomes(g) /\ g = Frame("pagein", "body", Top.depth, 0, Last(stk), Top.os)
    BY <1>16 DEF PagedInNow
  <2>2. Front(frames) \in Seq(FrameRecs)
    BY Fronts DEF ChainInv, Chain
  <2>3. ChainInv'
    BY <1>16, ChainTrace
  <2>4. Top' = g /\ g.at = "body"
    <3>1. g \in FrameRecs
      <4>1. frames' = Append(Front(frames), g) /\ frames' \in Seq(FrameRecs)
        BY <2>1, <2>3 DEF Becomes, ChainInv, Chain
      <4> QED
        BY <2>2, <4>1
    <3>2. g.at = "body"
      BY <2>1 DEF Frame
    <3> QED
      BY <2>1, <3>1, <3>2, TopNests
  <2> QED
    BY <1>0, <2>4 DEF At
<1>17. CASE BodyDispatch
  <2>1. Top.fn = "pagein" /\ frames' = Front(frames) \o <<NextBody, Nested>>
    BY <1>17 DEF BodyDispatch, BodyGoesOn, At
  <2> QED
    BY <1>0, <1>5, <2>1, NewFrames
<1>18. CASE BodyStep
  <2>1. Top.fn = "pagein" /\ Becomes(NextBody)
    BY <1>18 DEF BodyStep, BodyGoesOn, At
  <2> QED
    BY <1>0, <1>6, <2>1, NewFrames
<1>19. CASE MzSkip \/ Ended
  BY <1>1, <1>19 DEF MzSkip, Ended
<1> QED
  BY <1>1, <1>7, <1>8, <1>9, <1>10, <1>11, <1>12, <1>13, <1>14, <1>15, <1>16, <1>17, <1>18, <1>19
  DEF Next, Host

---------------------------------------------------------------------------
(* DriverInv holds always. *)

LEMMA SmallTypes ==
  ASSUME mode \in {"NORMAL", "CAPTURE", "RESTORE"}, bpint \in BOOLEAN, declined \in BOOLEAN,
         Faults \in BOOLEAN, [Next]_vars
  PROVE  /\ mode' \in {"NORMAL", "CAPTURE", "RESTORE"}
         /\ bpint' \in BOOLEAN /\ declined' \in BOOLEAN
<1>1. mode' \in {mode, "NORMAL"}
  BY DEF Next, Host, MzEntryStop, MzSkip, MzFails, Install, Go, GuestRuns, GoFails, StopTracked,
      StopPageIn, StopUnrelated, StopUnexpected, AfterStop, Cleanup, Ended, DispatchTooDeep,
      DispatchCapture, DispatchRestore, DispatchResume, DispatchLeave, DispatchCall, DispatchFails,
      DispatchNoContext, Trace, TraceFails, PageInTooDeep, PageInEnter, PagerStep, PagedInNow,
      BodyReturns, BodyPageIn, BodyDispatch, BodyStep, PageInFails, ReconcileFails, execVars, vars
<1>2. bpint' \in BOOLEAN
  <2>1. CASE UNCHANGED bpint BY <2>1
  <2>2. CASE Install BY <2>2 DEF Install, bpVars
  <2>3. CASE Cleanup BY <2>3 DEF Cleanup
  <2> QED
    BY <2>1, <2>2, <2>3
    DEF Next, Host, MzEntryStop, MzSkip, MzFails, Go, GuestRuns, GoFails, StopTracked,
      StopPageIn, StopUnrelated, StopUnexpected, AfterStop, Ended, DispatchTooDeep,
      DispatchCapture, DispatchRestore, DispatchResume, DispatchLeave, DispatchCall, DispatchFails,
      DispatchNoContext, Trace, TraceFails, PageInTooDeep, PageInEnter, PagerStep, PagedInNow,
      BodyReturns, BodyPageIn, BodyDispatch, BodyStep, PageInFails, ReconcileFails, bpVars, vars
<1>3. declined' \in {declined, TRUE, FALSE}
  BY DEF Next, Host, MzEntryStop, MzSkip, MzFails, Install, Go, GuestRuns, GoFails, StopTracked,
      StopPageIn, StopUnrelated, StopUnexpected, AfterStop, Cleanup, Ended, DispatchTooDeep,
      DispatchCapture, DispatchRestore, DispatchResume, DispatchLeave, DispatchCall, DispatchFails,
      DispatchNoContext, Trace, TraceFails, PageInTooDeep, PageInEnter, PagerStep, PagedInNow,
      BodyReturns, BodyPageIn, BodyDispatch, BodyStep, PageInFails, ReconcileFails, vars
<1> QED
  BY <1>1, <1>2, <1>3

LEMMA DriverInit == ASSUME Init PROVE DriverInv
<1>0. StartModes \subseteq {"NORMAL", "CAPTURE", "RESTORE"} /\ MzLoad \in BOOLEAN /\ MaxStack \in Nat
  BY KindsAssumption, BoundsAssumption
<1>1. /\ pc \in Starts /\ stk = <<>> /\ bytes = [s \in Stubs |-> 0] /\ active = {}
      /\ saved = [e \in Ids |-> NoAddr] /\ map = [n \in Ovls |-> 0]
      /\ mode \in StartModes /\ bps = {} /\ srv = {} /\ bpint = FALSE /\ declined = FALSE
      /\ reason = "none"
  BY DEF Init, Starts
<1>2. PICK at \in {"load", "install"} : frames = RunAt(at)
  BY DEF Init
<1>3. at \in OuterAts \cup EndAts /\ at \in OuterAts
  BY <1>2 DEF OuterAts
<1>4. ChainInv
  BY <1>2, <1>3, ChainRun DEF ChainInv
<1>5. InRun(at) /\ Top.fn = "run" /\ frames[1].at = at /\ Len(frames) = 1
  BY <1>2, InRunFacts DEF InRun
<1>6. AddrInv
  <2>1. stk \in Seq(RetAddrs \cup StubAddrs) /\ Len(stk) = 0 /\ DOMAIN stk = {}
    BY <1>1
  <2>2. pc \in PcAddrs /\ pc \notin PagerAddrs
    BY <1>1, PcKinds DEF PcAddrs
  <2> QED
    BY <1>0, <1>1, <2>1, <2>2 DEF AddrInv
<1>7. TypeOK
  <2>1. Len(stk) <= MaxStack + 1 /\ Len(frames) > 0
    BY <1>0, <1>1, <1>5
  <2>2. bytes \in [Stubs -> Places \cup {0}] /\ map \in [Ovls -> Places \cup {0}]
    BY <1>1
  <2>3. mode \in {"NORMAL", "CAPTURE", "RESTORE"} /\ bpint \in BOOLEAN /\ declined \in BOOLEAN
        /\ active \subseteq Ids /\ bps = {}
    BY <1>0, <1>1
  <2> QED
    BY <2>1, <2>2, <2>3 DEF TypeOK
<1>8. SameBytes
  BY <1>1 DEF SameBytes
<1>9. PagerInv
  BY <1>5 DEF PagerInv, At
<1>10. EndInv /\ StartInv
  BY <1>1, <1>3, <1>5 DEF EndInv, Running, StartInv
<1>11. BpInv
  <2>1. \A to : InRun(to) => frames[1].at = to
    BY InRunFacts
  <2>2. ~InRun("done") /\ ~InRun("returned") /\ (InRun("load") \/ InRun("install"))
    BY <1>2, <1>5, <2>1
  <2> QED
    BY <1>1, <2>2 DEF BpInv
<1> QED
  BY <1>4, <1>6, <1>7, <1>8, <1>9, <1>10, <1>11 DEF DriverInv

LEMMA DriverStep == ASSUME DriverInv, [Next]_vars PROVE DriverInv'
<1>1. /\ TypeOK /\ AddrInv /\ ChainInv /\ EndInv /\ StartInv
      /\ SameBytes /\ PagerInv /\ BpInv
  BY DEF DriverInv
<1>2. active \subseteq Ids /\ BytesType /\ MapType
      /\ mode \in {"NORMAL", "CAPTURE", "RESTORE"} /\ bpint \in BOOLEAN /\ declined \in BOOLEAN
  BY <1>1 DEF TypeOK, BytesType, MapType
<1>3. ChainInv' /\ EndInv' /\ StartInv'
  BY <1>1, <1>2, ChainStep, EndStep, StartStep
<1>4. AddrInv' /\ Len(stk)' <= MaxStack + 1
  BY <1>1, AddrStep
<1>5. active' \subseteq Ids /\ BytesType' /\ SameBytes' /\ MapType'
  BY <1>1, <1>2, ActiveStep, BytesStep, MapStep
<1>6. PagerInv' /\ BpInv' /\ bps' \subseteq Hooked \cup Special
  BY <1>1, PagerStepInv, BpStep
<1>7. /\ mode' \in {"NORMAL", "CAPTURE", "RESTORE"}
      /\ bpint' \in BOOLEAN /\ declined' \in BOOLEAN
  BY <1>2, KindsAssumption, SmallTypes
<1>8. Len(frames)' > 0
  <2>1. frames' \in Seq(FrameRecs) /\ frames' # <<>>
    BY <1>3 DEF ChainInv, Chain
  <2> QED
    BY <2>1
<1>9. TypeOK'
  BY <1>4, <1>5, <1>6, <1>7, <1>8 DEF TypeOK, BytesType, MapType, Hooked, Special
<1> QED
  BY <1>3, <1>4, <1>5, <1>6, <1>9 DEF DriverInv

\* The driver's activations, addresses and breakpoint tables are as DriverInv
\* says: whatever the guest, the hooks, the overlay manager and a failing
\* debugger do (host_run, dispatch_hook, trace_to_return, overlay_handle_pagein).
THEOREM DriverSound == Spec => []DriverInv
<1>1. Init => DriverInv
  BY DriverInit
<1>2. DriverInv /\ [Next]_vars => DriverInv'
  BY DriverStep
<1> QED
  BY <1>1, <1>2, PTL DEF Spec

\* Contexts, breakpoints, overlay segments and the guest's stack stay within
\* their types and bounds.
THEOREM TypeCorrect == Spec => []TypeOK
<1>1. DriverInv => TypeOK
  BY DEF DriverInv
<1> QED
  BY <1>1, DriverSound, PTL

---------------------------------------------------------------------------
(* What the driver may leave behind, and whom it dispatches. *)

LEMMA NothingLeft == ASSUME OvlHooks = {}, DriverInv PROVE SnapshotFaithful
<1>1. Registry = {}
  BY DEF Registry
<1>2. BpInv
  BY DEF DriverInv
<1> QED
  BY <1>1, <1>2 DEF BpInv, SnapshotFaithful, SnapshotClean, CleanRun

\* Where no overlay hook is registered, no breakpoint is in a snapshot or left
\* in the debugger, also when debugger commands fail (host_cleanup, the capture
\* in dispatch_hook).
THEOREM SnapshotFaithfulAlways ==
  ASSUME OvlHooks = {} PROVE Spec => []SnapshotFaithful
<1>1. DriverInv => SnapshotFaithful
  BY NothingLeft
<1> QED
  BY <1>1, DriverSound, PTL

LEMMA Armed == ASSUME DriverInv PROVE HooksArmed
<1>1. ChainInv /\ EndInv /\ BpInv
  BY DEF DriverInv
<1>2. SUFFICES ASSUME InRun("go") \/ InRun("running")
               PROVE  HookAddrs \subseteq bps /\ bps \subseteq srv
  BY DEF HooksArmed
<1>3. Running /\ ~InRun("load") /\ ~InRun("install")
  BY <1>1, <1>2, Started DEF OuterAts
<1> QED
  BY <1>1, <1>3, BpUnfolds DEF BpNow

\* A hook that declined has not been followed by a stop or a dispatch.
DeclinedInv == declined => Top.fn # "dispatch" /\ ~InRun("stopped")

LEMMA DeclinedStep ==
  ASSUME OvlHooks = {}, DriverInv, DeclinedInv, [Next]_vars PROVE DeclinedInv'
<1>1. /\ TypeOK /\ AddrInv /\ ChainInv /\ EndInv /\ ChainInv'
  BY DriverStep DEF DriverInv
<1>2. Registry = {}
  BY DEF Registry
<1>3. Top.fn # "pagein"
  BY <1>1, <1>2, TopFacts
<1>4. CASE UNCHANGED vars
  BY <1>4 DEF DeclinedInv, vars, Top, InRun
<1>5. ASSUME declined' = FALSE PROVE DeclinedInv'
  BY <1>5 DEF DeclinedInv
<1>6. ASSUME NEW at, at # "stopped", Goes(at) PROVE DeclinedInv'
  <2>1. Top'.fn = "run" /\ ~InRun("stopped")'
    BY <1>6, TopGoes, GoesAt, InRunNext
  <2> QED
    BY <2>1 DEF DeclinedInv
<1>7. ASSUME NEW why, Done(why) PROVE DeclinedInv'
  BY <1>6, <1>7 DEF Done
<1>8. CASE MzEntryStop \/ MzFails \/ Install \/ Go \/ GoFails \/ StopUnexpected \/ AfterStop \/ Cleanup
           \/ DispatchTooDeep \/ DispatchCapture \/ DispatchFails \/ DispatchNoContext
           \/ TraceFails \/ PageInTooDeep \/ PageInFails \/ ReconcileFails
  <2>1. (\E at : at # "stopped" /\ Goes(at)) \/ (\E why : Done(why))
    BY <1>8 DEF MzEntryStop, MzFails, Install, Go, GoFails,
                StopUnexpected, AfterStop, Cleanup, DispatchTooDeep,
                DispatchCapture, DispatchFails, DispatchNoContext, TraceFails, PageInTooDeep,
                PageInFails, ReconcileFails
  <2> QED
    BY <1>6, <1>7, <2>1
<1>9. CASE GuestRuns \/ StopUnrelated \/ DispatchLeave \/ DispatchCall \/ Trace
  BY <1>5, <1>9 DEF GuestRuns, StopUnrelated, DispatchLeave, DispatchCall, Trace
<1>10. CASE DispatchRestore
  <2>1. declined' = FALSE \/ \E why : Done(why)
    BY <1>10 DEF DispatchRestore
  <2> QED
    BY <1>5, <1>7, <2>1
<1>11. CASE DispatchResume
  <2>1. Top.fn = "dispatch" /\ Returns
    BY <1>11 DEF DispatchResume, Dispatching, At
  <2>2. Top'.fn # "dispatch"
    BY <1>1, <2>1, TopReturns DEF Link
  <2>3. ~InRun("stopped")'
    <3>1. frames'[1].at = "after"
      <4>1. Len(frames) > 1
        BY <1>1, <2>1, TopFacts
      <4> QED
        BY <1>1, <2>1, <4>1, ChainPop DEF Returns, ChainInv
    <3> QED
      BY <3>1, InRunNext
  <2> QED
    BY <2>2, <2>3 DEF DeclinedInv
<1>12. CASE StopTracked
  BY <1>5, <1>12 DEF StopTracked, DeclinedInv
<1>13. CASE StopPageIn
  BY <1>2, <1>13 DEF StopPageIn
<1>14. ~(PageInEnter \/ PagerStep \/ PagedInNow \/ BodyReturns \/ BodyPageIn \/ BodyDispatch \/ BodyStep)
  BY <1>3 DEF PageInEnter, PagerStep, PagedInNow, BodyReturns, BodyPageIn, BodyDispatch, BodyStep,
              BodyGoesOn, At
<1>15. CASE MzSkip \/ Ended
  BY <1>4, <1>15 DEF MzSkip, Ended
<1> QED
  BY <1>4, <1>8, <1>9, <1>10, <1>11, <1>12, <1>13, <1>14, <1>15 DEF Next, Host

\* Whenever the guest runs alone every static hook is armed, also after a
\* restore; and, where no overlay hook is registered, a stop whose hook declined
\* is stepped over before anything is dispatched again (host_run, dispatch_hook).
THEOREM DispatchDisciplineAlways ==
  ASSUME OvlHooks = {} PROVE Spec => []DispatchDiscipline
<1>1. Init => DeclinedInv
  BY DEF Init, DeclinedInv
<1>2. DriverInv /\ DeclinedInv /\ [Next]_vars => DeclinedInv'
  BY DeclinedStep
<1>3. DriverInv /\ DeclinedInv => DispatchDiscipline
  <2>1. DeclinedInv => NeverDoubleDispatch
    BY DEF DeclinedInv, NeverDoubleDispatch, At
  <2> QED
    BY <2>1, Armed DEF DispatchDiscipline
<1> QED
  BY <1>1, <1>2, <1>3, DriverSound, PTL DEF Spec

\* The mapping of a registry overlay is what its stubs say.
LEMMA MappingExact ==
  ASSUME TypeOK, SameBytes, NEW s \in OvlHooks PROVE Mapping(bytes)[OvlOf[s]] = bytes[s]
<1> DEFINE Paged(t) == t \in OvlHooks /\ OvlOf[t] = OvlOf[s] /\ bytes[t] # 0
<1>1. s \in Stubs /\ OvlOf[s] \in Ovls /\ OvlOf[s] \in RegistryOvls
  BY StubsAssumption DEF Ovls, RegistryOvls
<1>2. Mapping(bytes)[OvlOf[s]] =
        IF \E t \in OvlHooks : OvlOf[t] = OvlOf[s] /\ bytes[t] # 0
        THEN bytes[CHOOSE t \in OvlHooks : OvlOf[t] = OvlOf[s] /\ bytes[t] # 0]
        ELSE 0
  BY <1>1 DEF Mapping
<1>3. CASE \E t \in OvlHooks : OvlOf[t] = OvlOf[s] /\ bytes[t] # 0
  <2> DEFINE u == CHOOSE t \in OvlHooks : OvlOf[t] = OvlOf[s] /\ bytes[t] # 0
  <2>1. u \in OvlHooks /\ OvlOf[u] = OvlOf[s]
    BY <1>3
  <2>2. bytes[u] = bytes[s]
    BY <1>1, <2>1, StubsAssumption DEF SameBytes
  <2> QED
    BY <1>2, <1>3, <2>2
<1>4. CASE ~\E t \in OvlHooks : OvlOf[t] = OvlOf[s] /\ bytes[t] # 0
  BY <1>2, <1>4
<1> QED
  BY <1>3, <1>4

LEMMA FreshStep ==
  ASSUME DriverInv, OverlayMapFresh, [Next]_vars PROVE OverlayMapFresh'
<1> DEFINE First == At("dispatch", "top") /\ Top.depth = 0 /\ Top.n = 0
<1>0. /\ TypeOK /\ AddrInv /\ ChainInv /\ EndInv /\ SameBytes
  BY DEF DriverInv
<1>1. ~First' => OverlayMapFresh'
  BY DEF OverlayMapFresh
<1>2. CASE UNCHANGED vars
  BY <1>2 DEF OverlayMapFresh, vars, At, Top, Running
<1>3. ASSUME (\E at : Goes(at)) \/ (\E why : Done(why)) PROVE ~First'
  BY <1>3, TopGoes DEF Done, At
<1>4. ASSUME Top.fn # "run", Returns PROVE ~First'
  <2>1. Top' = frames[Len(frames) - 1] /\ Link(Top', Top)
    BY <1>0, <1>4, TopReturns
  <2>2. Below(frames[Len(frames) - 1], Top)
    <3>1. Len(frames) - 1 \in 1 .. Len(frames) /\ Len(frames) \in 1 .. Len(frames)
          /\ Len(frames) - 1 < Len(frames) /\ Top = frames[Len(frames)]
      BY <1>0, <1>4, TopFacts, ChainFacts DEF ChainInv, Top
    <3> QED
      BY <1>0, <3>1, ChainFacts DEF ChainInv
  <2>3. Top'.fn = "dispatch" => Top'.n > 0
    BY <2>1, <2>2 DEF Link, Below
  <2>4. Top'.n \in Nat
    BY <1>0, <1>4, <2>1, TopFacts, ChainFacts DEF ChainInv, FrameRecs
  <2> QED
    BY <2>3, <2>4 DEF At
<1>5. ASSUME NEW g \in FrameRecs, NEW h \in FrameRecs, h.fn # "dispatch" \/ h.depth > 0,
             frames' = Front(frames) \o <<g, h>> \/ frames' = Append(RunAt("after"), h)
      PROVE  ~First'
  BY <1>0, <1>5, TopNests DEF At
<1>6. ASSUME NEW g \in FrameRecs, g.fn # "dispatch", Becomes(g) PROVE ~First'
  BY <1>0, <1>6, TopNests DEF At
<1>7. CASE \/ MzEntryStop \/ MzFails \/ Install \/ Go \/ GuestRuns \/ GoFails
           \/ StopUnrelated \/ StopUnexpected \/ AfterStop \/ Cleanup
           \/ DispatchTooDeep \/ DispatchCapture \/ DispatchFails \/ DispatchNoContext
           \/ TraceFails \/ PageInTooDeep \/ PageInFails \/ ReconcileFails
  <2>1. (\E at : Goes(at)) \/ (\E why : Done(why))
    BY <1>7 DEF MzEntryStop, MzFails, Install, Go, GuestRuns, GoFails,
                StopUnrelated, StopUnexpected, AfterStop, Cleanup, DispatchTooDeep,
                DispatchCapture, DispatchFails, DispatchNoContext, TraceFails, PageInTooDeep,
                PageInFails, ReconcileFails
  <2> QED
    BY <1>1, <1>3, <2>1
<1>8. CASE DispatchRestore \/ DispatchResume \/ DispatchLeave \/ BodyReturns
  <2>1. Top.fn # "run" /\ (Returns \/ \E why : Done(why))
    BY <1>8 DEF DispatchRestore, DispatchResume, DispatchLeave, BodyReturns, Dispatching, At
  <2> QED
    BY <1>1, <1>3, <1>4, <2>1
<1>9. CASE StopTracked
  <2>1. overlay_reconcile_all(bytes) /\ UNCHANGED bytes
    BY <1>9 DEF StopTracked, cpuVars
  <2>2. ASSUME OverlaysArmed, NEW s \in OvlHooks PROVE map'[OvlOf[s]] = bytes'[s]
    BY <1>0, <2>1, <2>2, MappingExact DEF overlay_reconcile_all
  <2> QED
    BY <2>2 DEF OverlayMapFresh
<1>10. CASE DispatchCall
  <2>1. PICK e \in Runners, k \in CallKinds :
          frames' = Front(frames) \o
            <<NextTop, Frame("trace", "step", Top.depth, 0, MagicAddr(k, e), NoAddr)>>
    BY <1>10 DEF DispatchCall
  <2>2. e \in Ids /\ Top.fn = "dispatch"
    BY <1>0, <1>10, RunnersAreContexts DEF DispatchCall, Dispatching, At, TypeOK
  <2> DEFINE h == Frame("trace", "step", Top.depth, 0, MagicAddr(k, e), NoAddr)
  <2>3. h \in FrameRecs /\ NextTop \in FrameRecs /\ h.fn = "trace"
    BY <1>0, <2>2, NewFrames DEF Frame
  <2> QED
    BY <1>1, <1>5, <2>1, <2>3
<1>11. CASE Trace
  <2>1. Top.fn = "trace" /\ (Returns \/ frames' = Front(frames) \o <<NextTrace, Nested>> \/ Becomes(NextTrace))
    BY <1>11 DEF Trace, At
  <2>2. NextTrace \in FrameRecs /\ NextTrace.fn = "trace" /\ Nested \in FrameRecs /\ Nested.depth > 0
    BY <1>0, <2>1, NewFrames, TopFacts DEF Continues
  <2> QED
    BY <1>1, <1>4, <1>5, <1>6, <2>1, <2>2
<1>12. CASE StopPageIn
  <2> DEFINE h == Frame("pagein", "enter", 0, 0, NoAddr, pc)
  <2>1. h \in FrameRecs /\ h.fn = "pagein" /\ frames' = Append(RunAt("after"), h)
    BY <1>12, StartFrames DEF StopPageIn, Frame
  <2> QED
    BY <1>1, <1>5, <2>1
<1>13. CASE BodyPageIn
  <2> DEFINE h == Frame("pagein", "enter", Top.depth + 1, 0, NoAddr, pc)
  <2>1. pc \in Registry /\ frames' = Front(frames) \o <<NextBody, h>> /\ Top.fn = "pagein"
    BY <1>13 DEF BodyPageIn, BodyGoesOn, At
  <2>2. h \in FrameRecs /\ h.fn = "pagein" /\ NextBody \in FrameRecs
    BY <1>0, <2>1, StartFrames, NewFrames DEF Frame
  <2> QED
    BY <1>1, <1>5, <2>1, <2>2
<1>14. CASE PageInEnter \/ PagerStep
  <2>1. PICK n \in {0, Top.n + 1} : Becomes(Frame("pagein", "pager", Top.depth, n, NoAddr, Top.os))
    BY <1>14 DEF PageInEnter, PagerStep
  <2>2. n \in Nat /\ Top.fn = "pagein"
    BY <1>0, <1>14, TopFacts DEF PageInEnter, PagerStep, At
  <2> QED
    BY <1>0, <1>1, <1>6, <2>1, <2>2, PagerFrames
<1>15. CASE PagedInNow
  <2>1. PICK g : Becomes(g) /\ g = Frame("pagein", "body", Top.depth, 0, Last(stk), Top.os)
    BY <1>15 DEF PagedInNow
  <2>2. Front(frames) \in Seq(FrameRecs)
    BY <1>0, Fronts DEF ChainInv, Chain
  <2>3. ChainInv'
    BY <1>0, <1>15, ChainTrace
  <2>4. g \in FrameRecs
    <3>1. frames' = Append(Front(frames), g) /\ frames' \in Seq(FrameRecs)
      BY <2>1, <2>3 DEF Becomes, ChainInv, Chain
    <3> QED
      BY <2>2, <3>1
  <2>5. g.fn = "pagein"
    BY <2>1 DEF Frame
  <2> QED
    BY <1>1, <1>6, <2>1, <2>4, <2>5
<1>16. CASE BodyDispatch
  <2>1. Top.fn = "pagein" /\ frames' = Front(frames) \o <<NextBody, Nested>>
    BY <1>16 DEF BodyDispatch, BodyGoesOn, At
  <2>2. Nested.depth > 0 /\ Nested \in FrameRecs /\ NextBody \in FrameRecs
    BY <1>0, <2>1, NewFrames, TopFacts
  <2> QED
    BY <1>1, <1>5, <2>1, <2>2
<1>17. CASE BodyStep
  <2>1. Top.fn = "pagein" /\ Becomes(NextBody)
    BY <1>17 DEF BodyStep, BodyGoesOn, At
  <2>2. NextBody \in FrameRecs /\ NextBody.fn = "pagein"
    BY <1>0, <2>1, NewFrames DEF Continues
  <2> QED
    BY <1>1, <1>6, <2>1, <2>2
<1>18. CASE MzSkip \/ Ended
  BY <1>2, <1>18 DEF MzSkip, Ended
<1> QED
  BY <1>2, <1>7, <1>8, <1>9, <1>10, <1>11, <1>12, <1>13, <1>14, <1>15, <1>16, <1>17, <1>18
  DEF Next, Host

\* A hook dispatched at a stop of the guest finds the overlay segments the
\* guest's stubs have at that moment, whatever was paged in or out before
\* (overlay_reconcile_all at every stop).
THEOREM OverlayMapFreshAlways == Spec => []OverlayMapFresh
<1>1. Init => OverlayMapFresh
  <2>1. Init => Top.fn = "run"
    BY InRunFacts DEF Init, InRun
  <2> QED
    BY <2>1 DEF OverlayMapFresh, At
<1>2. DriverInv /\ OverlayMapFresh /\ [Next]_vars => OverlayMapFresh'
  BY FreshStep
<1> QED
  BY <1>1, <1>2, DriverSound, PTL DEF Spec

---------------------------------------------------------------------------
(* The nesting of hooks and guest code, as long as no hooked address is     *)
(* entered behind the driver's back.                                       *)

\* What a hook may call or jump to in the driver's sight: no hooked address.
Plain == {Entry(f) : f \in Fns} \cup {StubAddr(s) : s \in Stubs \ OvlHooks}

\* A hooked function was called by guest code, and an overlay stub by somebody.
HookCalled(a, s) ==
  /\ a \in Hooked /\ s # <<>> => Last(s) \in InAddrs
  /\ a \in Registry => s # <<>>

\* The guest is at a, on stack s.  Each context waits at most once, and two
\* hooks' calls have guest code between them; hooked functions are called, also
\* while the pager is at work.
CallsAt(a, s) ==
  /\ \A j, k \in Magics(s) : s[j][2] = s[k][2] => j = k
  /\ IsMagic(a) => \A k \in Magics(s) : s[k][2] # a[2]
  /\ \A k \in Magics(s) : k > 1 => s[k - 1] \in InAddrs
  /\ IsMagic(a) /\ s # <<>> => Last(s) \in InAddrs
  /\ HookCalled(a, s)
  /\ a \in PagerAddrs => HookCalled(StubAddr(a[2]), Front(s))
  /\ a \in Starts => s = <<>>

\* The contexts whose call the guest has not returned from, or just has.
IdsAt(a, s) == {s[k][2] : k \in Magics(s)} \cup (IF IsMagic(a) THEN {a[2]} ELSE {})

\* The guest stands at a tracked breakpoint only if the hook there has just
\* declined, or is about to be dispatched.
Stepped == (CpuRuns \/ InRun("after")) /\ pc \in bps => declined

\* What the page-ins wait for.
Bodies(fr) ==
  \A i \in DOMAIN fr : fr[i].fn = "pagein" /\ fr[i].at = "body" => fr[i].want \in InAddrs

\* The guest is at a magic address exactly while a dispatch goes round its loop.
MagicInv == At("dispatch", "top") /\ Top.n > 0 <=> IsMagic(pc)

\* The addresses hooks called from; nothing is suspended in the special modes.
SavedInv ==
  /\ \A e \in active : saved[e] \in HookAddrs \cup {Entry(s) : s \in OvlHooks}
  /\ mode # "NORMAL" => active = {}

NestInv ==
  Running =>
    /\ WaitsFor(frames, stk)
    /\ active = IdsAt(pc, stk)
    /\ CallsAt(pc, stk)
    /\ Stepped /\ Bodies(frames) /\ MagicInv /\ SavedInv

---------------------------------------------------------------------------
(* Which activations are traces, and which return addresses magic, after a *)
(* change of the two stacks.                                               *)

SameTraces(fr, fr2) ==
  /\ Traces(fr2) = Traces(fr)
  /\ \A i \in Traces(fr) : fr2[i].want = fr[i].want
SameMagics(s, s2) ==
  /\ Magics(s2) = Magics(s)
  /\ \A k \in Magics(s) : s2[k] = s[k]

LEMMA WaitsKept ==
  ASSUME NEW fr, NEW s, NEW fr2, NEW s2, WaitsFor(fr, s), SameTraces(fr, fr2), SameMagics(s, s2)
  PROVE  WaitsFor(fr2, s2)
<1>1. PICK slot \in [Traces(fr) -> Magics(s)] :
        /\ \A i, j \in Traces(fr) : i < j => slot[i] < slot[j]
        /\ \A k \in Magics(s) : \E i \in Traces(fr) : slot[i] = k
        /\ \A i \in Traces(fr) : fr[i].want = s[slot[i]]
  BY DEF WaitsFor
<1>2. \A i \in Traces(fr) : slot[i] \in Magics(s)
  OBVIOUS
<1>3. \A i \in Traces(fr2) : fr2[i].want = s2[slot[i]]
  BY <1>1, <1>2 DEF SameTraces, SameMagics
<1>4. slot \in [Traces(fr2) -> Magics(s2)]
  BY DEF SameTraces, SameMagics
<1> QED
  BY <1>1, <1>3, <1>4 DEF WaitsFor, SameTraces, SameMagics

\* No trace: no magic address on the stack, and the other way round.
LEMMA NoTraces ==
  ASSUME NEW fr, NEW s, WaitsFor(fr, s) PROVE Traces(fr) = {} <=> Magics(s) = {}
BY DEF WaitsFor

LEMMA WaitsForNothing ==
  ASSUME NEW fr, NEW s, Traces(fr) = {}, Magics(s) = {} PROVE WaitsFor(fr, s)
<1> DEFINE slot == [i \in {} |-> i]
<1>1. slot \in [Traces(fr) -> Magics(s)]
  OBVIOUS
<1> QED
  BY <1>1 DEF WaitsFor

\* The last trace waits for the last magic address.
LEMMA LastTrace ==
  ASSUME NEW fr, NEW s, WaitsFor(fr, s), Len(fr) \in Traces(fr), Len(s) \in Magics(s),
         Traces(fr) \subseteq 1 .. Len(fr), Magics(s) \subseteq 1 .. Len(s),
         Len(fr) \in Nat, Len(s) \in Nat
  PROVE  fr[Len(fr)].want = s[Len(s)]
<1>1. PICK slot \in [Traces(fr) -> Magics(s)] :
        /\ \A i, j \in Traces(fr) : i < j => slot[i] < slot[j]
        /\ \A k \in Magics(s) : \E i \in Traces(fr) : slot[i] = k
        /\ \A i \in Traces(fr) : fr[i].want = s[slot[i]]
  BY DEF WaitsFor
<1>2. PICK i \in Traces(fr) : slot[i] = Len(s)
  BY <1>1
<1>3. i = Len(fr)
  <2>1. ASSUME i < Len(fr) PROVE FALSE
    <3>1. Len(s) < slot[Len(fr)] /\ slot[Len(fr)] \in 1 .. Len(s)
      BY <1>1, <1>2, <2>1
    <3> QED
      BY <3>1
  <2> QED
    BY <2>1
<1> QED
  BY <1>1, <1>2, <1>3

\* The innermost call is over.
LEMMA WaitsPopped ==
  ASSUME NEW fr, NEW s, NEW fr2, NEW s2, WaitsFor(fr, s),
         Len(fr) \in Traces(fr), Len(s) \in Magics(s),
         Traces(fr) \subseteq 1 .. Len(fr), Magics(s) \subseteq 1 .. Len(s),
         Len(fr) \in Nat, Len(s) \in Nat,
         Traces(fr2) = Traces(fr) \ {Len(fr)}, Magics(s2) = Magics(s) \ {Len(s)},
         \A i \in Traces(fr2) : fr2[i].want = fr[i].want,
         \A k \in Magics(s2) : s2[k] = s[k]
  PROVE  WaitsFor(fr2, s2)
<1>1. PICK slot \in [Traces(fr) -> Magics(s)] :
        /\ \A i, j \in Traces(fr) : i < j => slot[i] < slot[j]
        /\ \A k \in Magics(s) : \E i \in Traces(fr) : slot[i] = k
        /\ \A i \in Traces(fr) : fr[i].want = s[slot[i]]
  BY DEF WaitsFor
<1>2. slot[Len(fr)] = Len(s)
  <2>1. PICK i \in Traces(fr) : slot[i] = Len(s)
    BY <1>1
  <2>2. ASSUME i < Len(fr) PROVE FALSE
    <3>1. Len(s) < slot[Len(fr)] /\ slot[Len(fr)] \in 1 .. Len(s)
      BY <1>1, <2>1, <2>2
    <3> QED
      BY <3>1
  <2> QED
    BY <2>1, <2>2
<1>3. \A i \in Traces(fr2) : slot[i] \in Magics(s2)
  <2>1. SUFFICES ASSUME NEW i \in Traces(fr2) PROVE slot[i] \in Magics(s2)
    OBVIOUS
  <2>2. i \in Traces(fr) /\ i < Len(fr) /\ slot[i] \in Magics(s)
    OBVIOUS
  <2>3. slot[i] < Len(s)
    BY <1>1, <1>2, <2>2
  <2> QED
    BY <2>2, <2>3
<1> DEFINE slot2 == [i \in Traces(fr2) |-> slot[i]]
<1>4. slot2 \in [Traces(fr2) -> Magics(s2)]
  BY <1>3
<1>5. \A i, j \in Traces(fr2) : i < j => slot2[i] < slot2[j]
  BY <1>1
<1>6. \A k \in Magics(s2) : \E i \in Traces(fr2) : slot2[i] = k
  <2>1. SUFFICES ASSUME NEW k \in Magics(s2) PROVE \E i \in Traces(fr2) : slot2[i] = k
    OBVIOUS
  <2>2. PICK i \in Traces(fr) : slot[i] = k
    BY <1>1
  <2>3. i # Len(fr)
    BY <1>2, <2>2
  <2> QED
    BY <2>2, <2>3
<1>7. \A i \in Traces(fr2) : fr2[i].want = s2[slot2[i]]
  BY <1>1, <1>3
<1> HIDE DEF slot2
<1> QED
  BY <1>4, <1>5, <1>6, <1>7 DEF WaitsFor

\* A call is made.
LEMMA WaitsPushed ==
  ASSUME NEW fr, NEW s, NEW fr2, NEW s2, WaitsFor(fr, s),
         Traces(fr) \subseteq 1 .. Len(fr), Magics(s) \subseteq 1 .. Len(s),
         Len(fr) \in Nat, Len(s) \in Nat,
         Traces(fr2) = Traces(fr) \cup {Len(fr) + 1}, Magics(s2) = Magics(s) \cup {Len(s) + 1},
         \A i \in Traces(fr) : fr2[i].want = fr[i].want,
         \A k \in Magics(s) : s2[k] = s[k],
         fr2[Len(fr) + 1].want = s2[Len(s) + 1]
  PROVE  WaitsFor(fr2, s2)
<1>1. PICK slot \in [Traces(fr) -> Magics(s)] :
        /\ \A i, j \in Traces(fr) : i < j => slot[i] < slot[j]
        /\ \A k \in Magics(s) : \E i \in Traces(fr) : slot[i] = k
        /\ \A i \in Traces(fr) : fr[i].want = s[slot[i]]
  BY DEF WaitsFor
<1> DEFINE slot2 == [i \in Traces(fr2) |-> IF i = Len(fr) + 1 THEN Len(s) + 1 ELSE slot[i]]
<1>2. \A i \in Traces(fr) : i \in 1 .. Len(fr) /\ i # Len(fr) + 1 /\ slot[i] \in Magics(s)
                            /\ slot[i] \in 1 .. Len(s) /\ slot[i] # Len(s) + 1
  OBVIOUS
<1>3. /\ \A i \in Traces(fr) : i \in Traces(fr2) /\ slot2[i] = slot[i]
      /\ slot2[Len(fr) + 1] = Len(s) + 1
  BY <1>2
<1>4. slot2 \in [Traces(fr2) -> Magics(s2)]
  BY <1>2
<1> HIDE DEF slot2
<1>5. \A i, j \in Traces(fr2) : i < j => slot2[i] < slot2[j]
  <2>1. SUFFICES ASSUME NEW i \in Traces(fr2), NEW j \in Traces(fr2), i < j PROVE slot2[i] < slot2[j]
    OBVIOUS
  <2>2. i \in Traces(fr)
    BY <1>2, <2>1
  <2>3. CASE j \in Traces(fr)
    BY <1>1, <1>3, <2>1, <2>2, <2>3
  <2>4. CASE j = Len(fr) + 1
    BY <1>2, <1>3, <2>2, <2>4
  <2> QED
    BY <2>3, <2>4
<1>6. \A k \in Magics(s2) : \E i \in Traces(fr2) : slot2[i] = k
  BY <1>1, <1>3
<1>7. \A i \in Traces(fr2) : fr2[i].want = s2[slot2[i]]
  BY <1>1, <1>2, <1>3
<1> QED
  BY <1>4, <1>5, <1>6, <1>7 DEF WaitsFor

\* f is not a trace, and not a page-in whose body runs.
Neither(f) == f.fn # "trace" /\ ~(f.fn = "pagein" /\ f.at = "body")

LEMMA TopLen ==
  ASSUME ChainInv
  PROVE  /\ Len(frames) \in Nat \ {0} /\ Top = frames[Len(frames)]
         /\ \A i : i \in DOMAIN frames <=> i \in 1 .. Len(frames)
BY ChainFacts DEF ChainInv, Top

LEMMA TopSeq == ASSUME ChainInv PROVE frames \in Seq(FrameRecs) /\ frames # <<>>
BY ChainFacts DEF ChainInv

LEMMA TopTrace ==
  ASSUME ChainInv
  PROVE  Traces(frames) \subseteq 1 .. Len(frames) /\ (Len(frames) \in Traces(frames) <=> Top.fn = "trace")
<1>1. Len(frames) \in DOMAIN frames
  BY TopLen
<1> QED
  BY <1>1, TopLen DEF Traces

LEMMA FrReturns ==
  ASSUME ChainInv, Top.fn # "run", Bodies(frames), Returns
  PROVE  /\ Bodies(frames')
         /\ Traces(frames') = Traces(frames) \ {Len(frames)}
         /\ \A i \in Traces(frames') : frames'[i].want = frames[i].want
         /\ Top.fn # "trace" => SameTraces(frames, frames')
<1>1. /\ DOMAIN frames' = 1 .. Len(frames) - 1 /\ \A i \in 1 .. Len(frames) - 1 : frames'[i] = frames[i]
  BY TopSeq, Fronts DEF Returns
<1>2. Len(frames) \in Nat \ {0} /\ \A i : i \in DOMAIN frames <=> i \in 1 .. Len(frames)
  BY TopLen
<1>3. \A i : i \in DOMAIN frames' => i \in DOMAIN frames /\ i # Len(frames) /\ frames'[i] = frames[i]
  BY <1>1, <1>2
<1>4. \A i \in DOMAIN frames : i # Len(frames) => i \in DOMAIN frames'
  BY <1>1, <1>2
<1>5. Bodies(frames')
  BY <1>3 DEF Bodies
<1>6. Traces(frames') = Traces(frames) \ {Len(frames)}
      /\ \A i \in Traces(frames') : frames'[i].want = frames[i].want
  BY <1>3, <1>4 DEF Traces
<1> QED
  BY <1>5, <1>6, TopTrace DEF SameTraces

\* The innermost activation goes on, and may call another.
LEMMA FrKept ==
  ASSUME ChainInv, Bodies(frames), NEW fr, NEW n \in {Len(frames), Len(frames) + 1},
         DOMAIN fr = 1 .. n, \A i \in 1 .. Len(frames) - 1 : fr[i] = frames[i],
         fr[Len(frames)].fn = Top.fn,
         Top.fn = "trace" => fr[Len(frames)].want = Top.want,
         fr[Len(frames)].fn = "pagein" /\ fr[Len(frames)].at = "body" => fr[Len(frames)].want \in InAddrs,
         n = Len(frames) + 1 => Neither(fr[n])
  PROVE  SameTraces(frames, fr) /\ Bodies(fr)
<1>1. /\ Len(frames) \in Nat \ {0} /\ Top = frames[Len(frames)]
      /\ \A i : i \in DOMAIN frames <=> i \in 1 .. Len(frames)
  BY TopLen
<1>2. \A i \in 1 .. n : i \in 1 .. Len(frames) - 1 \/ i = Len(frames) \/ (i = n /\ n = Len(frames) + 1)
  BY <1>1
<1>3. \A i \in 1 .. Len(frames) : i \in 1 .. Len(frames) - 1 \/ i = Len(frames)
  BY <1>1
<1>4. Bodies(fr)
  <2>1. SUFFICES ASSUME NEW i \in 1 .. n, fr[i].fn = "pagein", fr[i].at = "body" PROVE fr[i].want \in InAddrs
    BY DEF Bodies
  <2>2. CASE i \in 1 .. Len(frames) - 1
    <3>1. i \in DOMAIN frames /\ fr[i] = frames[i]
      BY <1>1, <2>2
    <3> QED
      BY <2>1, <3>1 DEF Bodies
  <2> QED
    BY <1>2, <2>1, <2>2 DEF Neither
<1>5. Traces(fr) = Traces(frames)
  <2>1. \A i \in DOMAIN fr : fr[i].fn = "trace" => i \in DOMAIN frames /\ frames[i].fn = "trace"
    BY <1>1, <1>2 DEF Neither
  <2>2. \A i \in DOMAIN frames : frames[i].fn = "trace" => i \in DOMAIN fr /\ fr[i].fn = "trace"
    BY <1>1, <1>3
  <2> QED
    BY <2>1, <2>2 DEF Traces
<1>6. \A i \in Traces(frames) : fr[i].want = frames[i].want
  BY <1>1, <1>3 DEF Traces
<1> QED
  BY <1>4, <1>5, <1>6 DEF SameTraces

Follows(g) ==
  /\ g.fn = Top.fn
  /\ Top.fn = "trace" => g.want = Top.want
  /\ g.fn = "pagein" /\ g.at = "body" => g.want \in InAddrs

LEMMA FrBecomes ==
  ASSUME ChainInv, Bodies(frames), NEW g \in FrameRecs, Follows(g), Becomes(g)
  PROVE  SameTraces(frames, frames') /\ Bodies(frames')
<1>1. /\ DOMAIN frames' = 1 .. Len(frames) /\ \A i \in 1 .. Len(frames) - 1 : frames'[i] = frames[i]
      /\ frames'[Len(frames)] = g
  BY TopSeq, TopLen, Replaced DEF Becomes
<1>2. Len(frames) # Len(frames) + 1
  BY TopLen
<1> QED
  BY <1>1, <1>2, FrKept DEF Follows

LEMMA FrTwo ==
  ASSUME ChainInv, NEW g \in FrameRecs, NEW h \in FrameRecs,
         frames' = Front(frames) \o <<g, h>>
  PROVE  /\ DOMAIN frames' = 1 .. Len(frames) + 1
         /\ \A i \in 1 .. Len(frames) - 1 : frames'[i] = frames[i]
         /\ frames'[Len(frames)] = g /\ frames'[Len(frames) + 1] = h
<1> DEFINE fr == Append(Front(frames), g)
<1>1. /\ fr \in Seq(FrameRecs) /\ Len(fr) = Len(frames)
      /\ \A i \in 1 .. Len(frames) - 1 : fr[i] = frames[i]
      /\ fr[Len(frames)] = g
  BY TopSeq, TopLen, Replaced
<1>2. frames' = Append(fr, h)
  BY NestedFrames
<1> HIDE DEF fr
<1>3. /\ DOMAIN frames' = 1 .. Len(fr) + 1 /\ \A i \in 1 .. Len(fr) : frames'[i] = fr[i]
      /\ frames'[Len(fr) + 1] = h
  <2>1. /\ DOMAIN Append(fr, h) = 1 .. Len(fr) + 1 /\ \A i \in 1 .. Len(fr) : Append(fr, h)[i] = fr[i]
        /\ Append(fr, h)[Len(fr) + 1] = h
    BY <1>1, Appended
  <2> QED
    BY <1>2, <2>1
<1>4. Len(frames) \in Nat \ {0}
  BY TopLen
<1>5. \A i \in 1 .. Len(frames) - 1 : i \in 1 .. Len(frames)
  BY <1>4
<1>6. Len(frames) \in 1 .. Len(frames)
  BY <1>4
<1> QED
  BY <1>1, <1>3, <1>5, <1>6

LEMMA FrNests ==
  ASSUME ChainInv, Bodies(frames), NEW g \in FrameRecs, Follows(g), NEW h \in FrameRecs, Neither(h),
         frames' = Front(frames) \o <<g, h>>
  PROVE  SameTraces(frames, frames') /\ Bodies(frames')
BY FrTwo, FrKept DEF Follows

LEMMA FrCalls ==
  ASSUME ChainInv, Bodies(frames), Top.fn = "dispatch", NEW g \in FrameRecs, g.fn = "dispatch",
         NEW h \in FrameRecs, h.fn = "trace", frames' = Front(frames) \o <<g, h>>
  PROVE  /\ Bodies(frames')
         /\ Traces(frames') = Traces(frames) \cup {Len(frames) + 1}
         /\ \A i \in Traces(frames) : frames'[i].want = frames[i].want
         /\ frames'[Len(frames) + 1] = h
<1>1. /\ DOMAIN frames' = 1 .. Len(frames) + 1 /\ \A i \in 1 .. Len(frames) - 1 : frames'[i] = frames[i]
      /\ frames'[Len(frames)] = g /\ frames'[Len(frames) + 1] = h
  BY FrTwo
<1>2. /\ Len(frames) \in Nat \ {0} /\ Top = frames[Len(frames)]
      /\ \A i : i \in DOMAIN frames <=> i \in 1 .. Len(frames)
  BY TopLen
<1>3. \A i \in 1 .. Len(frames) + 1 : i \in 1 .. Len(frames) - 1 \/ i = Len(frames) \/ i = Len(frames) + 1
  BY <1>2
<1>4. \A i \in 1 .. Len(frames) : i \in 1 .. Len(frames) - 1 \/ i = Len(frames)
  BY <1>2
<1>5. \A i \in 1 .. Len(frames) - 1 : i \in DOMAIN frames
  BY <1>2
<1>6. Bodies(frames')
  BY <1>1, <1>3, <1>5 DEF Bodies
<1>7. Traces(frames') = Traces(frames) \cup {Len(frames) + 1}
  <2>1. \A i \in DOMAIN frames' : frames'[i].fn = "trace" => i = Len(frames) + 1 \/ (i \in DOMAIN frames /\ frames[i].fn = "trace")
    BY <1>1, <1>3, <1>5
  <2>2. \A i \in DOMAIN frames : frames[i].fn = "trace" => i \in DOMAIN frames' /\ frames'[i].fn = "trace"
    BY <1>1, <1>2, <1>4
  <2>3. Len(frames) + 1 \in DOMAIN frames' /\ frames'[Len(frames) + 1].fn = "trace"
    BY <1>1, <1>2
  <2> QED
    BY <2>1, <2>2, <2>3 DEF Traces
<1>8. \A i \in Traces(frames) : frames'[i].want = frames[i].want
  BY <1>1, <1>2, <1>4 DEF Traces
<1> QED
  BY <1>1, <1>6, <1>7, <1>8

\* Where host_run alone is active.
LEMMA RunTraces == ASSUME NEW at PROVE Traces(RunAt(at)) = {} /\ Bodies(RunAt(at))
<1>1. RunAt(at)[1] = Frame("run", at, 0, 0, NoAddr, NoAddr) /\ DOMAIN RunAt(at) = {1}
  BY DEF RunAt
<1>2. RunAt(at)[1].fn = "run"
  BY <1>1 DEF Frame
<1> QED
  BY <1>1, <1>2 DEF Traces, Bodies

LEMMA FrGoes ==
  ASSUME NEW at, InRun(at), NEW to, Goes(to)
  PROVE  SameTraces(frames, frames') /\ Bodies(frames') /\ Traces(frames) = {}
BY RunTraces DEF SameTraces, InRun, Goes

LEMMA FrStarts ==
  ASSUME NEW at, InRun(at), NEW h \in FrameRecs, Neither(h), frames' = Append(RunAt("after"), h)
  PROVE  SameTraces(frames, frames') /\ Bodies(frames') /\ Traces(frames) = {}
<1>1. RunAt("after")[1] = Frame("run", "after", 0, 0, NoAddr, NoAddr)
  BY DEF RunAt
<1>2. DOMAIN frames' = 1 .. 2 /\ frames'[1] = RunAt("after")[1] /\ frames'[2] = h
  BY DEF RunAt
<1>3. frames'[1].fn = "run"
  BY <1>1, <1>2 DEF Frame
<1>4. \A i \in 1 .. 2 : i = 1 \/ i = 2
  OBVIOUS
<1>5. Traces(frames') = {} /\ Bodies(frames')
  BY <1>2, <1>3, <1>4 DEF Traces, Bodies, Neither
<1>6. Traces(frames) = {}
  BY RunTraces DEF InRun
<1> QED
  BY <1>5, <1>6 DEF SameTraces

---------------------------------------------------------------------------
(* What an instruction does to the calls on the guest's stack. *)

MagicTop(s) == s # <<>> /\ IsMagic(Last(s))

LEMMA StkFacts ==
  ASSUME AddrInv
  PROVE  /\ stk \in Seq(RetAddrs \cup StubAddrs)
         /\ Len(stk) \in Nat
         /\ \A k : k \in DOMAIN stk <=> k \in 1 .. Len(stk)
         /\ \A k \in 1 .. Len(stk) : stk[k] \in RetAddrs \cup StubAddrs
         /\ stk # <<>> => Len(stk) \in Nat \ {0} /\ Last(stk) = stk[Len(stk)]
BY Elements, LastIn DEF AddrInv

LEMMA MagicKinds ==
  /\ \A a \in EntryAddrs \cup InAddrs \cup StubAddrs \cup PagerAddrs \cup Starts : ~IsMagic(a)
  /\ \A a \in MagicAddrs : IsMagic(a)
  /\ \A a \in RetAddrs : IsMagic(a) \/ a \in InAddrs
BY Kinds, PcKinds DEF RetAddrs, PcAddrs

\* A return address that is not magic is pushed.
LEMMA PushPlain ==
  ASSUME AddrInv, NEW x \in RetAddrs \cup StubAddrs, ~IsMagic(x)
  PROVE  SameMagics(stk, Append(stk, x))
<1>1. /\ DOMAIN Append(stk, x) = 1 .. Len(stk) + 1 /\ Append(stk, x)[Len(stk) + 1] = x
      /\ \A k \in 1 .. Len(stk) : Append(stk, x)[k] = stk[k]
  BY StkFacts, Appended
<1>2. Len(stk) \in Nat /\ \A k : k \in DOMAIN stk <=> k \in 1 .. Len(stk)
  BY StkFacts
<1>3. \A k : k \in 1 .. Len(stk) + 1 <=> k \in 1 .. Len(stk) \/ k = Len(stk) + 1
  BY <1>2
<1> QED
  BY <1>1, <1>2, <1>3 DEF SameMagics, Magics

LEMMA PushMagic ==
  ASSUME AddrInv, NEW x \in RetAddrs, IsMagic(x)
  PROVE  /\ Magics(Append(stk, x)) = Magics(stk) \cup {Len(stk) + 1}
         /\ \A k \in Magics(stk) : Append(stk, x)[k] = stk[k]
         /\ Append(stk, x)[Len(stk) + 1] = x
         /\ \A k \in 1 .. Len(stk) : Append(stk, x)[k] = stk[k]
<1>1. /\ DOMAIN Append(stk, x) = 1 .. Len(stk) + 1 /\ Append(stk, x)[Len(stk) + 1] = x
      /\ \A k \in 1 .. Len(stk) : Append(stk, x)[k] = stk[k]
  BY StkFacts, Appended
<1>2. Len(stk) \in Nat /\ \A k : k \in DOMAIN stk <=> k \in 1 .. Len(stk)
  BY StkFacts
<1>3. \A k : k \in 1 .. Len(stk) + 1 <=> k \in 1 .. Len(stk) \/ k = Len(stk) + 1
  BY <1>2
<1> QED
  BY <1>1, <1>2, <1>3 DEF Magics

\* The top of the stack is popped.
LEMMA PopFacts ==
  ASSUME AddrInv, stk # <<>>
  PROVE  /\ \A k \in Magics(Front(stk)) : Front(stk)[k] = stk[k]
         /\ Magics(Front(stk)) = Magics(stk) \ {Len(stk)}
         /\ Len(stk) \in Magics(stk) <=> IsMagic(Last(stk))
         /\ Front(stk) # <<>> => Last(Front(stk)) = stk[Len(stk) - 1] /\ Len(stk) > 1
         /\ \A k \in Magics(Front(stk)) : k > 1 => Front(stk)[k - 1] = stk[k - 1]
         /\ ~IsMagic(Last(stk)) => SameMagics(stk, Front(stk))
<1>1. /\ Front(stk) \in Seq(RetAddrs \cup StubAddrs) /\ Len(Front(stk)) = Len(stk) - 1
      /\ DOMAIN Front(stk) = 1 .. Len(stk) - 1
      /\ \A k \in 1 .. Len(stk) - 1 : Front(stk)[k] = stk[k]
  BY StkFacts, Fronts
<1>2. /\ Len(stk) \in Nat \ {0} /\ Last(stk) = stk[Len(stk)]
      /\ \A k : k \in DOMAIN stk <=> k \in 1 .. Len(stk)
  BY StkFacts
<1>3. \A k : k \in 1 .. Len(stk) - 1 <=> k \in 1 .. Len(stk) /\ k # Len(stk)
  BY <1>2
<1>4. /\ \A k \in Magics(Front(stk)) : Front(stk)[k] = stk[k]
      /\ Magics(Front(stk)) = Magics(stk) \ {Len(stk)}
  BY <1>1, <1>2, <1>3 DEF Magics
<1>5. Len(stk) \in Magics(stk) <=> IsMagic(Last(stk))
  BY <1>2 DEF Magics
<1>6. Front(stk) # <<>> => Last(Front(stk)) = stk[Len(stk) - 1] /\ Len(stk) > 1
  <2>1. SUFFICES ASSUME Front(stk) # <<>> PROVE Last(Front(stk)) = stk[Len(stk) - 1] /\ Len(stk) > 1
    OBVIOUS
  <2>2. Len(Front(stk)) \in Nat \ {0} /\ Last(Front(stk)) = Front(stk)[Len(Front(stk))]
    BY <1>1, <2>1, LastIn
  <2> QED
    BY <1>1, <1>2, <2>2
<1>7. \A k \in Magics(Front(stk)) : k > 1 => Front(stk)[k - 1] = stk[k - 1]
  <2>1. \A k \in Magics(Front(stk)) : k \in 1 .. Len(stk) - 1
    BY <1>1 DEF Magics
  <2>2. \A k \in 1 .. Len(stk) - 1 : k > 1 => k - 1 \in 1 .. Len(stk) - 1
    BY <1>2
  <2> QED
    BY <1>1, <2>1, <2>2
<1>8. ~IsMagic(Last(stk)) => SameMagics(stk, Front(stk))
  BY <1>4, <1>5 DEF SameMagics
<1> QED
  BY <1>4, <1>5, <1>6, <1>7, <1>8

\* The same calls on another stack: magic addresses where they were, guest code
\* under them, and the guest at an address that is not magic.
LEMMA CallsKept ==
  ASSUME NEW a, NEW s, NEW b, NEW t, CallsAt(a, s), SameMagics(s, t),
         \A k \in Magics(s) : k > 1 => t[k - 1] = s[k - 1],
         ~IsMagic(b), HookCalled(b, t),
         b \in PagerAddrs => HookCalled(StubAddr(b[2]), Front(t)),
         b \in Starts => t = <<>>
  PROVE  CallsAt(b, t) /\ IdsAt(b, t) = {s[k][2] : k \in Magics(s)}
<1>1. CallsAt(b, t)
  BY DEF CallsAt, SameMagics
<1>2. {t[k][2] : k \in Magics(t)} = {s[k][2] : k \in Magics(s)}
  BY DEF SameMagics
<1> QED
  BY <1>1, <1>2 DEF IdsAt

LEMMA NotHooked ==
  /\ \A a \in InAddrs \cup PagerAddrs \cup MagicAddrs \cup Starts : \A s : HookCalled(a, s)
  /\ \A f \in Stubs : \A s : HookCalled(Entry(f), s)
<1>1. /\ \A a \in InAddrs \cup PagerAddrs \cup MagicAddrs \cup Starts : a \notin EntryAddrs /\ a \notin StubAddrs
  BY PcKinds
<1>2. \A f \in Stubs : Entry(f) \notin Hooked /\ Entry(f) \notin Registry
  <2>1. SUFFICES ASSUME NEW f \in Stubs PROVE Entry(f) \notin HookAddrs /\ Entry(f) \notin StubAddrs
    BY Places1 DEF Hooked
  <2>2. Entry(f) \notin StubAddrs
    BY Places1, PcKinds
  <2>3. \A h \in Hooks : Entry(h) # Entry(f)
    BY NamesAssumption DEF Entry
  <2> QED
    BY <2>2, <2>3 DEF HookAddrs
<1> QED
  BY <1>1, <1>2, Places1 DEF HookCalled, Hooked

\* What an instruction does: the same calls wait, or the guest has just come
\* back to the address the innermost of them waits for.
Plainly(c) == ~IsMagic(c.pc) /\ SameMagics(stk, c.stk)
ComesBack(c) == IsMagic(c.pc) /\ stk # <<>> /\ c.pc = Last(stk) /\ c.stk = Front(stk)

LEMMA IdsElsewhere ==
  ASSUME NEW s, ~IsMagic(pc) PROVE IdsAt(pc, s) = {s[k][2] : k \in Magics(s)}
BY DEF IdsAt

LEMMA PlainPush ==
  ASSUME AddrInv, CallsAt(pc, stk), NEW x \in RetAddrs \cup StubAddrs, ~IsMagic(x),
         NEW b, ~IsMagic(b), HookCalled(b, Append(stk, x)),
         b \in PagerAddrs => HookCalled(StubAddr(b[2]), stk), b \notin Starts
  PROVE  /\ CallsAt(b, Append(stk, x)) /\ SameMagics(stk, Append(stk, x))
         /\ IdsAt(b, Append(stk, x)) = {stk[k][2] : k \in Magics(stk)}
<1>1. SameMagics(stk, Append(stk, x))
  BY PushPlain
<1>2. /\ \A k \in 1 .. Len(stk) : Append(stk, x)[k] = stk[k] 
      /\ Front(Append(stk, x)) = stk
  BY StkFacts, Appended
<1>3. \A k \in Magics(stk) : k > 1 => Append(stk, x)[k - 1] = stk[k - 1]
  <2>1. Len(stk) \in Nat /\ \A k \in Magics(stk) : k \in 1 .. Len(stk)
    BY StkFacts DEF Magics
  <2>2. \A k \in 1 .. Len(stk) : k > 1 => k - 1 \in 1 .. Len(stk)
    BY <2>1
  <2> QED
    BY <1>2, <2>1, <2>2
<1>4. b \in PagerAddrs => HookCalled(StubAddr(b[2]), Front(Append(stk, x)))
  BY <1>2
<1> DEFINE t == Append(stk, x)
<1>5. /\ SameMagics(stk, t) /\ \A k \in Magics(stk) : k > 1 => t[k - 1] = stk[k - 1]
      /\ HookCalled(b, t) /\ (b \in PagerAddrs => HookCalled(StubAddr(b[2]), Front(t)))
  BY <1>1, <1>3, <1>4
<1> HIDE DEF t
<1>6. CallsAt(b, t) /\ IdsAt(b, t) = {stk[k][2] : k \in Magics(stk)}
  BY <1>5, CallsKept
<1> QED
  BY <1>1, <1>6 DEF t

LEMMA PlainPop ==
  ASSUME AddrInv, CallsAt(pc, stk), stk # <<>>, ~IsMagic(Last(stk)), Last(stk) \in InAddrs \cup StubAddrs,
         HookCalled(Last(stk), Front(stk))
  PROVE  /\ CallsAt(Last(stk), Front(stk)) /\ SameMagics(stk, Front(stk))
         /\ IdsAt(Last(stk), Front(stk)) = {stk[k][2] : k \in Magics(stk)}
<1>1. SameMagics(stk, Front(stk))
  BY PopFacts
<1>2. \A k \in Magics(stk) : k > 1 => Front(stk)[k - 1] = stk[k - 1]
  BY <1>1, PopFacts DEF SameMagics
<1>3. Last(stk) \notin PagerAddrs /\ Last(stk) \notin Starts
  BY PcKinds, Kinds
<1> QED
  BY <1>1, <1>2, <1>3, CallsKept

LEMMA PlainStay ==
  ASSUME CallsAt(pc, stk), NEW b, ~IsMagic(b), HookCalled(b, stk), b \notin PagerAddrs,
         b \in Starts => stk = <<>>
  PROVE  /\ CallsAt(b, stk) /\ SameMagics(stk, stk)
         /\ IdsAt(b, stk) = {stk[k][2] : k \in Magics(stk)}
<1>1. SameMagics(stk, stk)
  BY DEF SameMagics
<1> QED
  BY <1>1, CallsKept

LEMMA MagicPop ==
  ASSUME AddrInv, CallsAt(pc, stk), stk # <<>>, Last(stk) \in MagicAddrs
  PROVE  CallsAt(Last(stk), Front(stk)) /\ IdsAt(Last(stk), Front(stk)) = {stk[k][2] : k \in Magics(stk)}
<1>1. IsMagic(Last(stk)) /\ Len(stk) \in Magics(stk) /\ Last(stk) = stk[Len(stk)]
      /\ Len(stk) \in Nat \ {0}
  BY MagicKinds, PopFacts, StkFacts
<1>2. /\ Magics(Front(stk)) = Magics(stk) \ {Len(stk)}
      /\ \A k \in Magics(Front(stk)) : Front(stk)[k] = stk[k]
      /\ \A k \in Magics(Front(stk)) : k > 1 => Front(stk)[k - 1] = stk[k - 1]
      /\ Front(stk) # <<>> => Last(Front(stk)) = stk[Len(stk) - 1] /\ Len(stk) > 1
  BY PopFacts
<1>3. /\ \A j, k \in Magics(stk) : stk[j][2] = stk[k][2] => j = k
      /\ \A k \in Magics(stk) : k > 1 => stk[k - 1] \in InAddrs
  BY DEF CallsAt
<1>4. /\ \A j, k \in Magics(Front(stk)) : Front(stk)[j][2] = Front(stk)[k][2] => j = k
      /\ \A k \in Magics(Front(stk)) : Front(stk)[k][2] # Last(stk)[2]
      /\ \A k \in Magics(Front(stk)) : k > 1 => Front(stk)[k - 1] \in InAddrs
      /\ Front(stk) # <<>> => Last(Front(stk)) \in InAddrs
  BY <1>1, <1>2, <1>3
<1>5. HookCalled(Last(stk), Front(stk)) /\ Last(stk) \notin PagerAddrs /\ Last(stk) \notin Starts
  BY NotHooked, PcKinds, Kinds
<1>6. CallsAt(Last(stk), Front(stk))
  BY <1>4, <1>5 DEF CallsAt
<1>7. {Front(stk)[k][2] : k \in Magics(Front(stk))} \cup {Last(stk)[2]} = {stk[k][2] : k \in Magics(stk)}
  BY <1>1, <1>2
<1> QED
  BY <1>1, <1>6, <1>7 DEF IdsAt

LEMMA InstrCalls ==
  ASSUME AddrInv, CallsAt(pc, stk), NEW c, Instr(c), ~ReturnsToHook(c.pc, c.stk)
  PROVE  /\ CallsAt(c.pc, c.stk) /\ IdsAt(c.pc, c.stk) = IdsAt(pc, stk)
         /\ Plainly(c) \/ ComesBack(c)
<1> DEFINE ids == {stk[k][2] : k \in Magics(stk)}
<1>0. ~IsMagic(pc)
  <2>1. pc \in EntryAddrs \cup InAddrs \cup StubAddrs \cup PagerAddrs \cup Starts
    BY DEF Instr, Calls1, Jumps, ReturnsTo, Boots, Traps, Enters, Pages, Loads, InCode, Starts
  <2> QED
    BY <2>1, MagicKinds
<1>1. IdsAt(pc, stk) = ids
  BY <1>0, IdsElsewhere
<1> SUFFICES CallsAt(c.pc, c.stk) /\ IdsAt(c.pc, c.stk) = ids /\ (Plainly(c) \/ ComesBack(c))
  BY <1>1
<1>2. CASE Calls1(c)
  <2>1. c.pc \in EntryAddrs \cup StubAddrs /\ c.stk = Append(stk, In(pc[2])) /\ In(pc[2]) \in InAddrs
    BY <1>2, Places1 DEF Calls1
  <2>2. ~IsMagic(c.pc) /\ ~IsMagic(In(pc[2])) /\ c.pc \notin PagerAddrs /\ c.pc \notin Starts
    BY <2>1, MagicKinds, PcKinds, Kinds
  <2>3. Last(Append(stk, In(pc[2]))) = In(pc[2]) /\ Append(stk, In(pc[2])) # <<>>
    BY <2>1, StkFacts, Appended DEF RetAddrs
  <2>4. HookCalled(c.pc, Append(stk, In(pc[2])))
    BY <2>1, <2>3 DEF HookCalled
  <2> QED
    BY <2>1, <2>2, <2>4, PlainPush DEF Plainly, RetAddrs
<1>3. CASE ReturnsTo(c)
  <2>1. stk # <<>> /\ c.pc = Last(stk) /\ c.stk = Front(stk) /\ Last(stk) \in RetAddrs
    BY <1>3, StackTop, PcKinds DEF ReturnsTo, InCode
  <2>2. CASE Last(stk) \in MagicAddrs
    BY <2>1, <2>2, MagicPop, MagicKinds DEF ComesBack
  <2>3. CASE Last(stk) \in InAddrs
    BY <2>1, <2>3, PlainPop, MagicKinds, NotHooked DEF Plainly
  <2> QED
    BY <2>1, <2>2, <2>3 DEF RetAddrs
<1>4. CASE Boots(c)
  <2>1. c.pc \in EntryAddrs /\ c.stk = stk /\ stk = <<>> /\ c.pc \notin StubAddrs
    BY <1>4, Places1, PcKinds DEF Boots, CallsAt
  <2>2. HookCalled(c.pc, stk)
    BY <2>1, Places1 DEF HookCalled
  <2> QED
    BY <2>1, <2>2, PlainStay, MagicKinds, PcKinds DEF Plainly
<1>5. CASE Traps(c)
  <2>1. pc \in StubAddrs /\ pc = StubAddr(pc[2]) /\ c.pc \in PagerAddrs /\ c.pc[2] = pc[2]
        /\ c.stk = Append(stk, pc)
    BY <1>5, Kinds, Places1 DEF Traps
  <2>2. HookCalled(StubAddr(c.pc[2]), stk) /\ HookCalled(c.pc, Append(stk, pc))
    BY <2>1, NotHooked DEF CallsAt
  <2>3. ~IsMagic(c.pc) /\ ~IsMagic(pc) /\ c.pc \notin Starts
    BY <2>1, MagicKinds, Kinds
  <2> QED
    BY <2>1, <2>2, <2>3, PlainPush DEF Plainly
<1>6. CASE Enters(c)
  <2>1. pc[2] \in Stubs /\ c.pc = Entry(pc[2]) /\ c.pc \in EntryAddrs /\ c.stk = stk
    BY <1>6, Kinds, Places1 DEF Enters
  <2>2. HookCalled(c.pc, stk) /\ ~IsMagic(c.pc) /\ c.pc \notin PagerAddrs /\ c.pc \notin Starts
    BY <2>1, NotHooked, MagicKinds, PcKinds, Kinds
  <2> QED
    BY <2>1, <2>2, PlainStay DEF Plainly
<1>7. CASE Pages(c)
  <2>1. pc \in PagerAddrs /\ c.pc = Last(stk) /\ c.stk = Front(stk) /\ stk # <<>>
        /\ Last(stk) = StubAddr(pc[2]) /\ Last(stk) \in StubAddrs
    BY <1>7, Kinds, Places1 DEF Pages, AddrInv
  <2>2. HookCalled(Last(stk), Front(stk)) /\ ~IsMagic(Last(stk))
    BY <2>1, MagicKinds DEF CallsAt
  <2> QED
    BY <2>1, <2>2, PlainPop DEF Plainly
<1>8. CASE Loads(c)
  <2>1. c.pc = pc /\ c.stk = stk /\ pc \in StubAddrs /\ HookCalled(pc, stk)
    BY <1>8 DEF Loads, CallsAt
  <2>2. pc \notin PagerAddrs /\ pc \notin Starts /\ ~IsMagic(pc)
    BY <2>1, PcKinds, Kinds, MagicKinds
  <2> QED
    BY <2>1, <2>2, PlainStay DEF Plainly
<1>9. CASE Jumps(c)
  <2>1. c.pc \in EntryAddrs \cup StubAddrs /\ c.stk = stk /\ stk # <<>> /\ Last(stk) \in RetAddrs
    BY <1>9, StackTop, PcKinds, Places1 DEF Jumps, InCode
  <2>2. c.pc \in Hooked => Last(stk) \in InAddrs
    BY <2>1, MagicKinds DEF ReturnsToHook, RetAddrs
  <2>3. HookCalled(c.pc, stk)
    BY <2>1, <2>2 DEF HookCalled
  <2>4. ~IsMagic(c.pc) /\ c.pc \notin PagerAddrs /\ c.pc \notin Starts
    BY <2>1, MagicKinds, PcKinds, Kinds
  <2> QED
    BY <2>1, <2>3, <2>4, PlainStay DEF Plainly
<1> QED
  BY <1>2, <1>3, <1>4, <1>5, <1>6, <1>7, <1>8, <1>9 DEF Instr

---------------------------------------------------------------------------
(* The steps. *)

NestNow ==
  /\ WaitsFor(frames, stk) /\ active = IdsAt(pc, stk) /\ CallsAt(pc, stk)
  /\ Stepped /\ Bodies(frames) /\ MagicInv /\ SavedInv

LEMMA NestUnfolds == ASSUME NestInv, Running PROVE NestNow
BY DEF NestInv, NestNow

LEMMA NestFolds == ASSUME NestNow' PROVE NestInv'
BY DEF NestInv, NestNow

\* The run is over.
LEMMA NestEnds == ASSUME NEW why, why # "none", reason' = why PROVE NestInv'
BY DEF NestInv, Running

\* Nothing on the two stacks changes hands.
LEMMA NestKept ==
  ASSUME NestNow, UNCHANGED <<pc, stk, active, saved, mode>>,
         SameTraces(frames, frames'), Bodies(frames'), Stepped', MagicInv'
  PROVE  NestInv'
<1>1. SameMagics(stk, stk')
  BY DEF SameMagics
<1>2. WaitsFor(frames', stk')
  BY <1>1, WaitsKept DEF NestNow
<1>3. active' = IdsAt(pc', stk') /\ CallsAt(pc', stk')
  BY DEF NestNow
<1>4. SavedInv'
  BY DEF NestNow, SavedInv
<1> QED
  BY <1>2, <1>3, <1>4, NestFolds DEF NestNow

\* The guest is elsewhere, with the same calls waiting.
LEMMA NestMoves ==
  ASSUME NestNow, CallsAt(pc', stk'), SameMagics(stk, stk'), active' = IdsAt(pc', stk'),
         active' \subseteq active, UNCHANGED <<saved, mode>>,
         SameTraces(frames, frames'), Bodies(frames'), Stepped', MagicInv'
  PROVE  NestInv'
<1>1. WaitsFor(frames', stk')
  BY WaitsKept DEF NestNow
<1>2. SavedInv'
  BY DEF NestNow, SavedInv
<1> QED
  BY <1>1, <1>2, NestFolds DEF NestNow

LEMMA InRunTop == \A at : InRun(at)' => Top'.fn = "run" /\ Top'.at = at
BY TopGoes DEF InRun, Goes

LEMMA SteppedDispatch == ASSUME Top'.fn = "dispatch" PROVE Stepped'
BY InRunTop DEF Stepped, CpuRuns, At, BodyGoesOn

LEMMA SteppedPageIn ==
  ASSUME ChainInv', PagerInv', Top'.fn = "pagein", bps' \cap PagerAddrs = {} PROVE Stepped'
<1>1. SUFFICES ASSUME CpuRuns' \/ InRun("after")', pc' \in bps' PROVE FALSE
  BY DEF Stepped
<1>2. \/ At("pagein", "enter")'
      \/ At("pagein", "pager")' /\ pc' # Top'.os
  BY <1>1, InRunTop DEF CpuRuns, At, BodyGoesOn
<1>3. At("pagein", "pager")' /\ pc' = Pager(Top'.os[2])
  BY <1>1, <1>2 DEF PagerInv
<1>4. Top'.os \in Registry
  <2>1. Link(frames'[Len(frames') - 1], Top')
    BY <1>3, ChainTop DEF ChainInv, Top, At
  <2> QED
    BY <1>3, <2>1 DEF Link, At
<1>5. Top'.os[2] \in Stubs
  BY <1>4, Places1, Kinds
<1> QED
  BY <1>1, <1>3, <1>5, Places1

LEMMA MagicQuiet ==
  ASSUME ~IsMagic(pc'), Top'.fn # "dispatch" \/ Top'.n = 0 PROVE MagicInv'
BY DEF MagicInv, At

\* Where no dispatch goes round its loop the guest is not at a magic address.
LEMMA NotMagic == ASSUME NestNow, Top.fn # "dispatch" PROVE ~IsMagic(pc)
BY DEF NestNow, MagicInv, At

LEMMA PlainIsNot == Hooked \cap Plain = {}
<1>1. \A f \in Fns, h \in Hooks : Entry(f) # Entry(h)
  BY NamesAssumption DEF Entry
<1>2. \A s \in Stubs \ OvlHooks, t \in OvlHooks : StubAddr(s) # StubAddr(t)
  BY DEF StubAddr
<1>3. \A f, s : Entry(f) # StubAddr(s)
  BY DEF Entry, StubAddr
<1> QED
  BY <1>1, <1>2, <1>3 DEF Hooked, Plain, HookAddrs, Registry

\* Whose breakpoints are where the guest's instructions can be.
LEMMA BpPlaces ==
  ASSUME DriverInv'
  PROVE  /\ bps' \cap (PagerAddrs \cup InAddrs \cup MagicAddrs \cup Starts) = {}
         /\ Running' /\ mode' = "NORMAL" => bps' \cap Plain = {}
<1>1. bps' \subseteq EntryAddrs \cup StubAddrs
  BY Places1 DEF DriverInv, TypeOK, Special
<1>2. Running' /\ mode' = "NORMAL" => bps' \subseteq Hooked
  BY DEF DriverInv, BpInv
<1> QED
  BY <1>1, <1>2, PlainIsNot, PcKinds

LEMMA PlainAddrs ==
  ASSUME NEW a \in Plain
  PROVE  /\ a \in EntryAddrs \cup StubAddrs /\ ~IsMagic(a) /\ a \notin PagerAddrs /\ a \notin Starts
         /\ \A s : HookCalled(a, s)
<1>1. a \in EntryAddrs \cup StubAddrs
  BY Places1 DEF Plain, Codes
<1>2. a \notin Hooked
  BY PlainIsNot
<1>3. \A s : HookCalled(a, s)
  BY <1>2 DEF HookCalled, Hooked
<1> QED
  BY <1>1, <1>3, MagicKinds, PcKinds, Kinds

LEMMA PlainCallable == ASSUME NEW a \in Callable, a \notin Hooked PROVE a \in Plain
BY DEF Callable, Plain, Hooked, HookAddrs, Registry

\* host_run on its own, the CPU at rest.
LEMMA NestRun ==
  ASSUME DriverInv, DriverInv', NestInv, Running,
         MzEntryStop \/ Install \/ Go \/ AfterStop \/ StopTracked \/ StopPageIn
  PROVE  NestInv'
<1>1. ChainInv /\ StartInv /\ ChainInv' /\ PagerInv' /\ NestNow
  BY NestUnfolds DEF DriverInv
<1>2. bps' \cap (PagerAddrs \cup InAddrs \cup MagicAddrs \cup Starts) = {}
  BY BpPlaces
<1>3. ASSUME NEW why, why # "none", Done(why) PROVE NestInv'
  BY <1>3, NestEnds DEF Done
<1>4. Top.fn = "run" /\ ~IsMagic(pc)
  <2>1. Top.fn = "run"
    BY InRunFacts DEF MzEntryStop, Install, Go, AfterStop, StopTracked, StopPageIn
  <2> QED
    BY <1>1, <2>1, NotMagic
<1>5. ASSUME NEW at, InRun(at), NEW to, Goes(to), UNCHANGED <<pc, stk, active, saved, mode>>, Stepped'
      PROVE  NestInv'
  <2>1. SameTraces(frames, frames') /\ Bodies(frames')
    BY <1>5, FrGoes
  <2>2. MagicInv'
    BY <1>4, <1>5, TopGoes, MagicQuiet
  <2> QED
    BY <1>1, <1>5, <2>1, <2>2, NestKept
<1>6. CASE MzEntryStop
  <2>1. InRun("load") /\ Goes("install") /\ pc' = Boot /\ stk = <<>> /\ active = {}
        /\ UNCHANGED <<stk, active, saved, mode>>
    BY <1>1, <1>6 DEF MzEntryStop, execVars, StartInv
  <2>2. Boot \in Starts /\ ~IsMagic(Boot)
    BY MagicKinds, Places1
  <2>3. Stepped'
    BY <1>2, <2>1, <2>2 DEF Stepped
  <2>4. SameTraces(frames, frames') /\ Bodies(frames')
    BY <2>1, FrGoes
  <2>5. MagicInv'
    BY <2>1, <2>2, TopGoes, MagicQuiet
  <2>6. CallsAt(Boot, stk) /\ SameMagics(stk, stk) /\ IdsAt(Boot, stk) = {stk[k][2] : k \in Magics(stk)}
    <3>1. HookCalled(Boot, stk) /\ Boot \notin PagerAddrs
      BY <2>2, NotHooked, PcKinds
    <3> QED
      BY <1>1, <2>1, <2>2, <3>1, PlainStay DEF NestNow
  <2>7. IdsAt(Boot, stk) = IdsAt(pc, stk)
    BY <1>4, <2>6, IdsElsewhere
  <2> QED
    BY <1>1, <2>1, <2>3, <2>4, <2>5, <2>6, <2>7, NestMoves DEF NestNow
<1>7. CASE Install
  <2>1. InRun("install") /\ (Done("ERROR") \/ Goes("go")) /\ UNCHANGED <<pc, stk, active, saved, mode>>
    BY <1>7 DEF Install, cpuVars
  <2>2. pc \in Starts
    BY <1>1, <2>1 DEF StartInv
  <2>3. Stepped'
    BY <1>2, <2>1, <2>2 DEF Stepped
  <2> QED
    BY <1>3, <1>5, <2>1, <2>3
<1>8. CASE Go
  <2>1. InRun("go") /\ Goes("running") /\ UNCHANGED <<pc, stk, active, saved, mode, bps, declined>>
    BY <1>8 DEF Go, cpuVars, execVars, bpVars
  <2>2. Stepped'
    BY <1>1, <2>1 DEF Stepped, CpuRuns, NestNow
  <2> QED
    BY <1>5, <2>1, <2>2
<1>9. CASE AfterStop
  <2>1. InRun("after") /\ UNCHANGED <<pc, stk, active, saved, mode, bps, declined>>
        /\ (Goes("go") \/ \E why \in {"CALLBACK", "MAXSTEPS"} : Done(why))
    BY <1>9 DEF AfterStop, cpuVars, execVars, bpVars
  <2>2. Stepped'
    BY <1>1, <2>1 DEF Stepped, NestNow
  <2> QED
    BY <1>3, <1>5, <2>1, <2>2
<1>10. ASSUME InRun("stopped"), NEW h \in FrameRecs, Neither(h), frames' = Append(RunAt("after"), h),
              h.n = 0 \/ h.fn # "dispatch", UNCHANGED <<pc, stk, active, saved, mode>>, Stepped'
       PROVE  NestInv'
  <2>1. SameTraces(frames, frames') /\ Bodies(frames')
    BY <1>10, FrStarts
  <2>2. Top' = h
    BY <1>1, <1>10, TopNests
  <2>3. MagicInv'
    BY <1>4, <1>10, <2>2, MagicQuiet
  <2> QED
    BY <1>1, <1>10, <2>1, <2>3, NestKept
<1>11. CASE StopTracked
  <2> DEFINE h == Frame("dispatch", "top", 0, 0, NoAddr, NoAddr)
  <2>1. h \in FrameRecs /\ h.fn = "dispatch" /\ h.at = "top" /\ h.n = 0
    BY StartFrames DEF Frame
  <2>2. InRun("stopped") /\ frames' = Append(RunAt("after"), h) /\ UNCHANGED <<pc, stk, active, saved, mode>>
    BY <1>11 DEF StopTracked, cpuVars
  <2> HIDE DEF h
  <2>3. Top' = h
    BY <1>1, <2>1, <2>2, TopNests
  <2>4. Stepped'
    BY <2>1, <2>3, SteppedDispatch
  <2> QED
    BY <1>10, <2>1, <2>2, <2>4 DEF Neither
<1>12. CASE StopPageIn
  <2> DEFINE h == Frame("pagein", "enter", 0, 0, NoAddr, pc)
  <2>1. pc \in Registry
    BY <1>12 DEF StopPageIn
  <2>2. h \in FrameRecs /\ h.fn = "pagein" /\ h.at = "enter"
    BY <2>1, StartFrames DEF Frame
  <2>3. InRun("stopped") /\ frames' = Append(RunAt("after"), h) /\ UNCHANGED <<pc, stk, active, saved, mode>>
    BY <1>12 DEF StopPageIn, cpuVars, execVars
  <2> HIDE DEF h
  <2>4. Top' = h
    BY <1>1, <2>2, <2>3, TopNests
  <2>5. Stepped'
    BY <1>1, <1>2, <2>2, <2>4, SteppedPageIn
  <2> QED
    BY <1>10, <2>2, <2>3, <2>5 DEF Neither
<1> QED
  BY <1>6, <1>7, <1>8, <1>9, <1>11, <1>12

\* Where no call is traced no context is in use, and an instruction cannot come
\* back to one.
LEMMA NestInstr ==
  ASSUME DriverInv, NestNow, Traces(frames) = {}, ~EntersUnseen,
         NEW c \in CpuStep \cup TraceStep, SetCpu(c), UNCHANGED <<active, saved, mode>>,
         SameTraces(frames, frames'), Bodies(frames'), Stepped',
         Top'.fn # "dispatch" \/ Top'.n = 0
  PROVE  NestInv'
<1>1. AddrInv /\ CallsAt(pc, stk) /\ active = IdsAt(pc, stk) /\ Instr(c)
  BY InstrCases DEF DriverInv, NestNow
<1>a. ~ReturnsToHook(c.pc, c.stk)
  BY DEF EntersUnseen, SetCpu
<1>2. CallsAt(c.pc, c.stk) /\ IdsAt(c.pc, c.stk) = IdsAt(pc, stk) /\ (Plainly(c) \/ ComesBack(c))
  BY <1>1, <1>a, InstrCalls
<1>3. Magics(stk) = {}
  BY NoTraces DEF NestNow
<1>4. ~ComesBack(c)
  BY <1>1, <1>3, PopFacts DEF ComesBack
<1>5. ~IsMagic(pc') /\ SameMagics(stk, stk')
  BY <1>2, <1>4 DEF Plainly, SetCpu
<1>6. CallsAt(pc', stk') /\ active' = IdsAt(pc', stk') /\ active' \subseteq active
  BY <1>1, <1>2 DEF SetCpu
<1>7. MagicInv'
  BY <1>5, MagicQuiet
<1> QED
  BY <1>5, <1>6, <1>7, NestMoves

LEMMA NoTraceUnderPageIn == ASSUME ChainInv, Top.fn = "pagein" PROVE Traces(frames) = {}
<1>1. SUFFICES ASSUME NEW i \in DOMAIN frames, frames[i].fn = "trace" PROVE FALSE
  BY DEF Traces
<1>2. Len(frames) \in Nat \ {0} /\ Top = frames[Len(frames)] /\ i \in 1 .. Len(frames)
  BY TopLen
<1>3. i # Len(frames)
  BY <1>1, <1>2
<1>4. i < Len(frames) /\ Len(frames) \in 1 .. Len(frames)
  BY <1>2, <1>3
<1>5. Below(frames[i], Top)
  BY <1>2, <1>4, ChainFacts DEF ChainInv
<1> QED
  BY <1>1, <1>5 DEF Below

\* The guest on its own.
LEMMA NestGuest ==
  ASSUME DriverInv, DriverInv', NestInv, Running, ~EntersUnseen, GuestRuns \/ StopUnrelated
  PROVE  NestInv'
<1>1. NestNow /\ ChainInv /\ AddrInv /\ BpInv
  BY NestUnfolds DEF DriverInv
<1>2. CASE GuestRuns
  <2>1. PICK c \in CpuStep : SetCpu(c) /\ Goes(IF StopsAt(c) THEN "stopped" ELSE "running")
    BY <1>2 DEF GuestRuns
  <2>2. InRun("running") /\ UNCHANGED <<active, saved, mode, bps>>
    BY <1>2 DEF GuestRuns, execVars, bpVars
  <2>3. SameTraces(frames, frames') /\ Bodies(frames') /\ Traces(frames) = {}
    BY <2>1, <2>2, FrGoes
  <2>4. declined' = FALSE /\ pc' = c.pc /\ bps \subseteq srv
    BY <1>1, <1>2, <2>1 DEF GuestRuns, SetCpu, BpInv
  <2>5. Stepped'
    <3>1. CASE StopsAt(c)
      <4>1. Goes("stopped")
        BY <2>1, <3>1
      <4>2. Top'.fn = "run" /\ Top'.at = "stopped"
        BY <4>1, TopGoes
      <4>3. ~CpuRuns' /\ ~InRun("after")'
        BY <4>2, InRunTop DEF CpuRuns, At, BodyGoesOn
      <4> QED
        BY <4>3 DEF Stepped
    <3>2. CASE ~StopsAt(c)
      BY <2>2, <2>4, <3>2 DEF Stepped, StopsAt
    <3> QED
      BY <3>1, <3>2
  <2>6. Top'.fn = "run"
    BY <2>1, TopGoes
  <2> QED
    BY <1>1, <2>1, <2>2, <2>3, <2>5, <2>6, NestInstr
<1>3. CASE StopUnrelated
  <2>1. PICK c \in CpuStep : SetCpu(c)
    BY <1>3 DEF StopUnrelated
  <2>2. InRun("stopped") /\ Goes("go") /\ Unpaged(pc) /\ UNCHANGED <<active, saved, mode, bps>>
    BY <1>3 DEF StopUnrelated, execVars, bpVars
  <2>3. SameTraces(frames, frames') /\ Bodies(frames') /\ Traces(frames) = {}
    BY <2>2, FrGoes
  <2>4. pc' \in PagerAddrs
    <3>1. pc[1] = "stub" /\ pc \in PcAddrs
      BY <1>1, <2>2 DEF Unpaged, AddrInv
    <3>2. pc \in StubAddrs
      BY <3>1, Kinds DEF PcAddrs
    <3>3. CpuStep = {Cpu(Pager(pc[2]), Append(stk, pc), bytes)}
      BY <2>2, <3>1 DEF CpuStep, Unpaged, Boot
    <3>4. c.pc = Pager(pc[2])
      BY <2>1, <3>3 DEF Cpu
    <3> QED
      BY <2>1, <3>2, <3>4, Kinds, Places1 DEF SetCpu
  <2>5. Stepped'
    BY <2>4, BpPlaces DEF Stepped
  <2>6. Top'.fn = "run"
    BY <2>2, TopGoes
  <2> QED
    BY <1>1, <2>1, <2>2, <2>3, <2>5, <2>6, NestInstr
<1> QED
  BY <1>2, <1>3

\* overlay_handle_pagein.
LEMMA NestPageIn ==
  ASSUME DriverInv, DriverInv', NestInv, Running, ~EntersUnseen,
         \/ PageInEnter \/ PagerStep \/ PagedInNow
         \/ BodyReturns \/ BodyPageIn \/ BodyDispatch \/ BodyStep
  PROVE  NestInv'
<1>1. NestNow /\ ChainInv /\ AddrInv /\ PagerInv /\ ChainInv' /\ PagerInv' /\ Bodies(frames)
      /\ CallsAt(pc, stk) /\ active = IdsAt(pc, stk)
  BY NestUnfolds DEF DriverInv, NestNow
<1>2. Top.fn = "pagein"
  BY DEF PageInEnter, PagerStep, PagedInNow, BodyReturns, BodyPageIn, BodyDispatch, BodyStep, BodyGoesOn, At
<1>3. ~IsMagic(pc) /\ Traces(frames) = {}
  BY <1>1, <1>2, NotMagic, NoTraceUnderPageIn
<1>4. bps' \cap (PagerAddrs \cup InAddrs \cup MagicAddrs \cup Starts) = {} /\ bps' \cap PagerAddrs = {}
  BY BpPlaces
<1>5. ASSUME Top'.fn = "pagein" PROVE Stepped'
  BY <1>1, <1>4, <1>5, SteppedPageIn
<1>6. Top.depth \in Nat /\ Top.n \in Nat /\ Top.n + 1 \in Nat /\ Top.os \in Registry
  BY <1>1, <1>2, TopFacts
<1>7. /\ NextBody \in FrameRecs /\ NextBody.fn = "pagein" /\ NextBody.want = Top.want
      /\ Nested \in FrameRecs /\ Nested.fn = "dispatch" /\ Nested.n = 0
  BY <1>1, <1>2, NewFrames DEF Continues
<1>8. ASSUME BodyGoesOn PROVE Follows(NextBody)
  <2>1. Top.at = "body" /\ Len(frames) \in DOMAIN frames /\ Top = frames[Len(frames)]
    BY <1>1, <1>8, TopLen DEF BodyGoesOn, At
  <2>2. Top.want \in InAddrs
    BY <1>1, <1>2, <2>1 DEF Bodies
  <2> QED
    BY <1>2, <1>7, <2>2 DEF Follows
<1>9. ASSUME NEW c \in CpuStep \cup TraceStep, SetCpu(c), UNCHANGED <<active, saved, mode>>,
             NEW g \in FrameRecs, g.fn = "pagein", Follows(g), Becomes(g)
      PROVE  NestInv'
  <2>1. Top' = g
    BY <1>1, <1>9, TopNests
  <2>2. Stepped'
    BY <1>5, <1>9, <2>1
  <2>3. SameTraces(frames, frames') /\ Bodies(frames')
    BY <1>1, <1>9, FrBecomes
  <2>4. Top'.fn # "dispatch"
    BY <1>9, <2>1
  <2> QED
    BY <1>1, <1>3, <1>9, <2>2, <2>3, <2>4, NestInstr
<1>10. CASE PageInEnter \/ PagerStep
  <2>1. PICK n \in Nat : Becomes(Frame("pagein", "pager", Top.depth, n, NoAddr, Top.os))
    BY <1>6, <1>10 DEF PageInEnter, PagerStep
  <2>2. PICK c \in CpuStep : SetCpu(c)
    BY <1>10 DEF PageInEnter, PagerStep
  <2>3. UNCHANGED <<active, saved, mode>>
    BY <1>10 DEF PageInEnter, PagerStep, execVars
  <2> DEFINE g == Frame("pagein", "pager", Top.depth, n, NoAddr, Top.os)
  <2>4. g \in FrameRecs /\ g.fn = "pagein" /\ g.at = "pager"
    BY <1>1, <1>2, PagerFrames
  <2>5. Becomes(g)
    BY <2>1
  <2> HIDE DEF g
  <2>6. Follows(g)
    BY <1>2, <2>4 DEF Follows
  <2> QED
    BY <1>9, <2>2, <2>3, <2>4, <2>5, <2>6
<1>11. CASE BodyStep
  <2>1. PICK c \in TraceStep : SetCpu(c)
    BY <1>11 DEF BodyStep
  <2>2. UNCHANGED <<active, saved, mode>> /\ Becomes(NextBody) /\ BodyGoesOn
    BY <1>11 DEF BodyStep, execVars
  <2> QED
    BY <1>7, <1>8, <1>9, <2>1, <2>2
<1>12. CASE BodyReturns
  <2>1. Returns /\ pc = Top.want /\ Top.at = "body" /\ UNCHANGED <<pc, stk, active, saved, mode>>
    BY <1>12 DEF BodyReturns, At, cpuVars
  <2>2. SameTraces(frames, frames') /\ Bodies(frames')
    BY <1>1, <1>2, <2>1, FrReturns
  <2>3. Top' = frames[Len(frames) - 1] /\ Link(Top', Top)
    BY <1>1, <1>2, <2>1, TopReturns
  <2>4. Top'.fn # "dispatch"
    <3>1. Len(frames) > 1 /\ Len(frames) \in Nat /\ Top = frames[Len(frames)]
      BY <1>1, <1>2, TopFacts, TopLen
    <3>2. Below(frames[Len(frames) - 1], Top)
      BY <1>1, <3>1, ChainFacts DEF ChainInv
    <3> QED
      BY <1>2, <2>3, <3>2 DEF Below
  <2>5. pc \in InAddrs
    <3>1. Len(frames) \in DOMAIN frames /\ Top = frames[Len(frames)]
      BY <1>1, TopLen
    <3> QED
      BY <1>1, <1>2, <2>1, <3>1 DEF Bodies
  <2>6. Stepped'
    BY <1>4, <2>1, <2>5 DEF Stepped
  <2>7. MagicInv'
    BY <1>3, <2>1, <2>4, MagicQuiet
  <2> QED
    BY <1>1, <2>1, <2>2, <2>6, <2>7, NestKept
<1>13. CASE BodyPageIn
  <2> DEFINE h == Frame("pagein", "enter", Top.depth + 1, 0, NoAddr, pc)
  <2>1. pc \in Registry /\ BodyGoesOn /\ frames' = Front(frames) \o <<NextBody, h>>
        /\ UNCHANGED <<pc, stk, active, saved, mode>>
    BY <1>13 DEF BodyPageIn, cpuVars, execVars
  <2>2. h \in FrameRecs /\ h.fn = "pagein" /\ h.at = "enter"
    BY <1>1, <2>1, StartFrames DEF Frame
  <2> HIDE DEF h
  <2>3. Neither(h) /\ Follows(NextBody)
    BY <1>8, <2>1, <2>2 DEF Neither
  <2>4. SameTraces(frames, frames') /\ Bodies(frames')
    BY <1>1, <1>7, <2>1, <2>2, <2>3, FrNests
  <2>5. Top' = h
    BY <1>1, <1>7, <2>1, <2>2, TopNests
  <2>6. Stepped' /\ MagicInv'
    BY <1>3, <1>5, <2>1, <2>2, <2>5, MagicQuiet
  <2> QED
    BY <1>1, <2>1, <2>4, <2>6, NestKept
<1>14. CASE BodyDispatch
  <2>1. BodyGoesOn /\ frames' = Front(frames) \o <<NextBody, Nested>>
        /\ UNCHANGED <<pc, stk, active, saved, mode>>
    BY <1>14 DEF BodyDispatch, cpuVars, execVars
  <2>2. Neither(Nested) /\ Follows(NextBody)
    BY <1>7, <1>8, <2>1 DEF Neither
  <2>3. SameTraces(frames, frames') /\ Bodies(frames')
    BY <1>1, <1>7, <2>1, <2>2, FrNests
  <2>4. Top' = Nested
    BY <1>1, <1>7, <2>1, TopNests
  <2>5. Stepped' /\ MagicInv'
    BY <1>3, <1>7, <2>1, <2>4, SteppedDispatch, MagicQuiet
  <2> QED
    BY <1>1, <2>1, <2>3, <2>5, NestKept
<1>15. CASE PagedInNow
  <2> DEFINE g == Frame("pagein", "body", Top.depth, 0, Last(stk), Top.os)
  <2>1. pc = Top.os /\ pc' = Entry(pc[2]) /\ Becomes(g) /\ UNCHANGED <<stk, active, saved, mode>>
    BY <1>15 DEF PagedInNow
  <2>2. pc \in Registry /\ pc \in StubAddrs /\ pc[2] \in Stubs
    BY <1>6, <2>1, Places1, Kinds
  <2>3. Last(stk) \in InAddrs
    BY <1>1, <2>2 DEF CallsAt, HookCalled, Hooked
  <2>4. g \in FrameRecs /\ g.fn = "pagein" /\ g.want = Last(stk)
    BY <1>6, <2>3 DEF Frame, FrameRecs, FrameFns, FrameAts, Wanted, RetAddrs
  <2> HIDE DEF g
  <2>5. Follows(g)
    BY <1>2, <2>3, <2>4 DEF Follows
  <2>6. SameTraces(frames, frames') /\ Bodies(frames')
    BY <1>1, <2>1, <2>4, <2>5, FrBecomes
  <2>7. Top' = g
    BY <1>1, <2>1, <2>4, TopNests
  <2>8. pc' \in EntryAddrs /\ HookCalled(pc', stk)
    BY <2>1, <2>2, NotHooked, Places1
  <2>9. ~IsMagic(pc') /\ pc' \notin PagerAddrs /\ pc' \notin Starts
    BY <2>8, MagicKinds, PcKinds, Kinds
  <2>10. CallsAt(pc', stk) /\ SameMagics(stk, stk) /\ IdsAt(pc', stk) = IdsAt(pc, stk)
    BY <1>1, <1>3, <2>8, <2>9, PlainStay, IdsElsewhere
  <2>11. Stepped' /\ MagicInv'
    BY <1>5, <2>4, <2>7, <2>9, MagicQuiet
  <2> QED
    BY <1>1, <2>1, <2>6, <2>10, <2>11, NestMoves
<1> QED
  BY <1>10, <1>11, <1>12, <1>13, <1>14, <1>15

\* trace_to_return.
LEMMA NestTrace ==
  ASSUME DriverInv, DriverInv', NestInv, Running, ~EntersUnseen, Trace PROVE NestInv'
<1>1. NestNow /\ ChainInv /\ AddrInv /\ ChainInv' /\ Bodies(frames)
      /\ CallsAt(pc, stk) /\ active = IdsAt(pc, stk) /\ WaitsFor(frames, stk)
  BY NestUnfolds DEF DriverInv, NestNow
<1>2. Top.fn = "trace" /\ UNCHANGED <<active, saved, mode, bps>> /\ declined' = FALSE
  BY DEF Trace, At, execVars, bpVars
<1>3. PICK c \in TraceStep :
        /\ SetCpu(c)
        /\ IF c.pc = Top.want THEN Returns
           ELSE IF c.pc \in bps THEN frames' = Front(frames) \o <<NextTrace, Nested>>
           ELSE Becomes(NextTrace)
  BY DEF Trace
<1>4. /\ CallsAt(pc', stk') /\ active' = IdsAt(pc', stk') /\ active' \subseteq active
      /\ Plainly(c) \/ ComesBack(c)
  <2>1. Instr(c)
    BY <1>1, <1>3, InstrCases
  <2>2. ~ReturnsToHook(c.pc, c.stk)
    BY <1>3 DEF EntersUnseen, SetCpu
  <2> QED
    BY <1>1, <1>2, <1>3, <2>1, <2>2, InstrCalls DEF SetCpu
<1>5. Top.want \in MagicAddrs /\ IsMagic(Top.want) /\ Len(frames) \in Traces(frames)
      /\ Traces(frames) \subseteq 1 .. Len(frames) /\ Top = frames[Len(frames)] /\ Len(frames) \in Nat
  BY <1>1, <1>2, TopFacts, TopTrace, TopLen, MagicKinds
<1>6. /\ NextTrace \in FrameRecs /\ NextTrace.fn = "trace" /\ NextTrace.want = Top.want
      /\ Nested \in FrameRecs /\ Nested.fn = "dispatch" /\ Nested.n = 0
  BY <1>1, <1>2, NewFrames DEF Continues
<1>7. CASE Plainly(c)
  <2>1. ~IsMagic(pc') /\ SameMagics(stk, stk') /\ pc' = c.pc /\ c.pc # Top.want
    BY <1>3, <1>5, <1>7 DEF Plainly, SetCpu
  <2>2. Follows(NextTrace) /\ Neither(Nested)
    BY <1>2, <1>6 DEF Follows, Neither
  <2>3. SameTraces(frames, frames') /\ Bodies(frames')
    BY <1>1, <1>3, <1>6, <2>1, <2>2, FrNests, FrBecomes
  <2>4. Stepped' /\ MagicInv'
    <3>1. CASE c.pc \in bps
      <4>1. Top' = Nested
        BY <1>1, <1>3, <1>6, <2>1, <3>1, TopNests
      <4> QED
        BY <1>6, <2>1, <4>1, SteppedDispatch, MagicQuiet
    <3>2. CASE c.pc \notin bps
      <4>1. Top' = NextTrace
        BY <1>1, <1>3, <1>6, <2>1, <3>2, TopNests
      <4>2. Stepped'
        BY <1>2, <2>1, <3>2 DEF Stepped
      <4> QED
        BY <1>6, <2>1, <4>1, <4>2, MagicQuiet
    <3> QED
      BY <3>1, <3>2
  <2> QED
    BY <1>1, <1>2, <1>4, <2>1, <2>3, <2>4, NestMoves
<1>8. CASE ComesBack(c)
  <2>1. IsMagic(pc') /\ stk # <<>> /\ pc' = Last(stk) /\ stk' = Front(stk) /\ pc' = c.pc
    BY <1>3, <1>8 DEF ComesBack, SetCpu
  <2>2. /\ Len(stk) \in Magics(stk) /\ Last(stk) = stk[Len(stk)] /\ Len(stk) \in Nat
        /\ Magics(stk) \subseteq 1 .. Len(stk)
        /\ Magics(stk') = Magics(stk) \ {Len(stk)}
        /\ \A k \in Magics(stk') : stk'[k] = stk[k]
    BY <1>1, <2>1, PopFacts, StkFacts DEF Magics
  <2>3. Top.want = pc'
    BY <1>1, <1>5, <2>1, <2>2, LastTrace
  <2>4. Returns
    BY <1>3, <2>1, <2>3
  <2>5. /\ Bodies(frames') /\ Traces(frames') = Traces(frames) \ {Len(frames)}
        /\ \A i \in Traces(frames') : frames'[i].want = frames[i].want
    BY <1>1, <1>2, <2>4, FrReturns
  <2>6. WaitsFor(frames', stk')
    BY <1>1, <1>5, <2>2, <2>5, WaitsPopped
  <2>7. Top'.fn = "dispatch" /\ Top'.n > 0
    BY <1>1, <1>2, <2>4, TopReturns DEF Link
  <2>8. Top'.at = "top"
    <3>1. Link(frames'[Len(frames') - 1], Top')
      BY <1>1, <2>7, ChainTop DEF ChainInv, Top
    <3> QED
      BY <2>7, <3>1 DEF Link
  <2>9. MagicInv' /\ Stepped'
    BY <2>1, <2>7, <2>8, SteppedDispatch DEF MagicInv, At
  <2>10. SavedInv'
    BY <1>1, <1>2 DEF NestNow, SavedInv
  <2> QED
    BY <1>4, <2>5, <2>6, <2>9, <2>10, NestFolds DEF NestNow
<1> QED
  BY <1>4, <1>7, <1>8

---------------------------------------------------------------------------
(* The steps of dispatch_hook. *)

\* Who waits below a context that runs: the stack's calls are the contexts in
\* use, except for the one that runs; guest code is below it.
LEMMA RunnerCalls ==
  ASSUME DriverInv, NestNow, Running, NEW e \in Runners
  PROVE  /\ e \in Ids /\ mode = "NORMAL"
         /\ active \ {e} = {stk[k][2] : k \in Magics(stk)}
         /\ active \cup {e} = {stk[k][2] : k \in Magics(stk)} \cup {e}
         /\ \A k \in Magics(stk) : stk[k][2] # e
         /\ stk # <<>> => Last(stk) \in InAddrs
         /\ HookCalled(HookPc(e), stk) /\ HookPc(e) \in EntryAddrs
         /\ HookPc(e) \in HookAddrs \cup {Entry(s) : s \in OvlHooks}
<1>1. TypeOK /\ AddrInv /\ CallsAt(pc, stk) /\ active = IdsAt(pc, stk) /\ SavedInv
  BY DEF DriverInv, NestNow
<1>2. /\ e \in Ids /\ mode = "NORMAL" /\ HookPc(e) \in EntryAddrs /\ pc \notin PagerAddrs
      /\ \/ e \in active /\ pc \in MagicAddrs /\ pc[2] = e /\ HookPc(e) = saved[e]
         \/ /\ e \notin active /\ HookHere /\ Resumed = {} /\ pc \in Hooked
            /\ pc \notin MagicAddrs
  BY <1>1, RunnerFacts
<1>3. CASE e \in active /\ pc \in MagicAddrs /\ pc[2] = e /\ HookPc(e) = saved[e]
  <2>1. IsMagic(pc) /\ IdsAt(pc, stk) = {stk[k][2] : k \in Magics(stk)} \cup {e}
    BY <1>3, MagicKinds DEF IdsAt
  <2>2. \A k \in Magics(stk) : stk[k][2] # e
    BY <1>1, <1>3, <2>1 DEF CallsAt
  <2>3. stk # <<>> => Last(stk) \in InAddrs
    BY <1>1, <2>1 DEF CallsAt
  <2>4. HookPc(e) \in HookAddrs \cup {Entry(s) : s \in OvlHooks}
    BY <1>1, <1>3 DEF SavedInv
  <2>5. HookCalled(HookPc(e), stk)
    <3>1. HookPc(e) \notin Registry
      BY <1>2, Places1, PcKinds
    <3> QED
      BY <2>3, <3>1 DEF HookCalled
  <2> QED
    BY <1>1, <1>2, <1>3, <2>1, <2>2, <2>3, <2>4, <2>5
<1>4. CASE e \notin active /\ HookHere /\ pc \in Hooked /\ pc \notin MagicAddrs
  <2>1. pc \in EntryAddrs \cup StubAddrs
    BY <1>4, Places1 DEF Hooked
  <2>2. ~IsMagic(pc)
    BY <2>1, MagicKinds
  <2>3. IdsAt(pc, stk) = {stk[k][2] : k \in Magics(stk)}
    BY <2>2, IdsElsewhere
  <2>4. HookCalled(pc, stk) /\ (stk # <<>> => Last(stk) \in InAddrs)
    BY <1>1, <1>4 DEF CallsAt, HookCalled
  <2>5. HookPc(e) \in HookAddrs \cup {Entry(s) : s \in OvlHooks} /\ HookCalled(HookPc(e), stk)
    <3>1. CASE pc \in HookAddrs
      <4>1. pc[1] = "entry"
        BY <3>1, Places1, Kinds
      <4>2. HookPc(e) = pc
        BY <1>4, <4>1 DEF HookPc
      <4> QED
        BY <2>4, <3>1, <4>2
    <3>2. CASE pc \in Registry
      <4>1. PICK s \in OvlHooks : pc = StubAddr(s)
        BY <3>2 DEF Registry
      <4>2. HookPc(e) = Entry(s) /\ s \in Stubs
        BY <1>4, <4>1, StubsAssumption DEF HookPc, StubAddr
      <4> QED
        BY <4>2, NotHooked
    <3> QED
      BY <1>4, <3>1, <3>2 DEF Hooked
  <2> QED
    BY <1>1, <1>2, <1>4, <2>3, <2>4, <2>5
<1> QED
  BY <1>2, <1>3, <1>4

LEMMA NestRestore ==
  ASSUME DriverInv, DriverInv', NestInv, Running, DispatchRestore PROVE NestInv'
<1>1. NestNow /\ ChainInv /\ AddrInv /\ ChainInv' /\ Bodies(frames)
      /\ CallsAt(pc, stk) /\ active = IdsAt(pc, stk) /\ WaitsFor(frames, stk)
  BY NestUnfolds DEF DriverInv, NestNow
<1>2. CASE \E why \in {"ERROR"} : Done(why)
  BY <1>2, NestEnds DEF Done
<1>3. CASE Returns /\ pc' = In(Main) /\ stk' = <<>> /\ mode' = "NORMAL"
  <2>1. Top.fn = "dispatch" /\ mode # "NORMAL" /\ UNCHANGED <<active, saved>>
    BY DEF DispatchRestore, Dispatching, At, RestoreStop
  <2>2. active = {}
    BY <1>1, <2>1 DEF NestNow, SavedInv
  <2>3. Magics(stk) = {} /\ Magics(stk') = {}
    <3>1. Magics(stk) = {}
      BY <1>1, <2>2 DEF IdsAt
    <3>2. Magics(<<>>) = {}
      BY DEF Magics
    <3> QED
      BY <1>3, <3>1, <3>2
  <2>4. SameTraces(frames, frames') /\ Bodies(frames')
    BY <1>1, <1>3, <2>1, FrReturns
  <2>5. WaitsFor(frames', stk')
    BY <1>1, <2>3, <2>4, NoTraces, WaitsForNothing DEF SameTraces
  <2>6. pc' \in InAddrs /\ ~IsMagic(pc') /\ pc' \notin PagerAddrs /\ pc' \notin Starts
    <3>1. pc' \in InAddrs
      BY <1>3, Places1
    <3> QED
      BY <3>1, MagicKinds, PcKinds
  <2>7. CallsAt(pc', stk')
    BY <1>3, <2>3, <2>6, NotHooked DEF CallsAt
  <2>8. active' = IdsAt(pc', stk')
    BY <2>1, <2>2, <2>3, <2>6 DEF IdsAt
  <2>9. Stepped'
    BY <2>6, BpPlaces DEF Stepped
  <2>10. Top'.fn # "dispatch"
    BY <1>1, <1>3, <2>1, TopReturns DEF Link
  <2>11. MagicInv' /\ SavedInv'
    BY <1>3, <2>1, <2>2, <2>6, <2>10, MagicQuiet DEF SavedInv
  <2> QED
    BY <2>4, <2>5, <2>7, <2>8, <2>9, <2>11, NestFolds DEF NestNow
<1> QED
  BY <1>2, <1>3 DEF DispatchRestore, SetCpu, Cpu

\* The guest is at a magic return address only with a context to run.
LEMMA MagicRuns ==
  ASSUME DriverInv, NestNow, IsMagic(pc) PROVE Resumed # {} /\ Runners # {} /\ mode = "NORMAL"
<1>1. pc \in MagicAddrs
  BY Kinds DEF DriverInv, AddrInv
<1>2. PICK k \in CallKinds, e \in Ids : pc = MagicAddr(k, e)
  BY <1>1 DEF MagicAddrs
<1>3. pc[2] = e
  BY <1>2 DEF MagicAddr
<1>4. e \in active
  BY <1>3 DEF NestNow, IdsAt
<1>5. e \in Resumed
  BY <1>2, <1>4 DEF Resumed
<1>6. mode = "NORMAL"
  BY <1>4 DEF NestNow, SavedInv
<1> QED
  BY <1>5, <1>6 DEF Runners

LEMMA NestResume ==
  ASSUME DriverInv, DriverInv', NestInv, Running, DispatchResume PROVE NestInv'
<1>1. NestNow /\ ChainInv /\ AddrInv /\ Bodies(frames)
      /\ CallsAt(pc, stk) /\ active = IdsAt(pc, stk)
  BY NestUnfolds DEF DriverInv, NestNow
<1>2. Top.fn = "dispatch" /\ Returns /\ declined' = TRUE /\ UNCHANGED <<stk, saved, mode>>
  BY DEF DispatchResume, Dispatching, At
<1>3. SameTraces(frames, frames') /\ Bodies(frames')
  BY <1>1, <1>2, FrReturns
<1>4. Top'.fn # "dispatch" /\ Stepped'
  BY <1>1, <1>2, TopReturns DEF Link, Stepped
<1>5. CASE Runners = {} /\ UNCHANGED <<pc, active>>
  <2>1. ~IsMagic(pc)
    BY <1>1, <1>5, MagicRuns
  <2>2. MagicInv'
    BY <1>4, <1>5, <2>1, MagicQuiet
  <2> QED
    BY <1>1, <1>2, <1>3, <1>4, <1>5, <2>2, NestKept
<1>6. ASSUME NEW e \in Runners, pc' = HookPc(e), active' = active \ {e} PROVE NestInv'
  <2>1. active' = {stk[k][2] : k \in Magics(stk)} /\ HookCalled(pc', stk) /\ pc' \in EntryAddrs
    BY <1>1, <1>6, RunnerCalls
  <2>2. ~IsMagic(pc') /\ pc' \notin PagerAddrs /\ pc' \notin Starts
    BY <2>1, MagicKinds, PcKinds, Kinds
  <2>3. CallsAt(pc', stk) /\ SameMagics(stk, stk) /\ IdsAt(pc', stk) = active'
    BY <1>1, <2>1, <2>2, PlainStay
  <2>4. MagicInv'
    BY <1>4, <2>2, MagicQuiet
  <2>5. active' \subseteq active
    BY <1>6
  <2> QED
    BY <1>1, <1>2, <1>3, <1>4, <2>3, <2>4, <2>5, NestMoves
<1>7. \/ Runners = {} /\ UNCHANGED <<pc, active>>
      \/ \E e \in Runners : pc' = HookPc(e) /\ active' = active \ {e}
  BY DEF DispatchResume
<1> QED
  BY <1>5, <1>6, <1>7

LEMMA NestLeave ==
  ASSUME DriverInv, DriverInv', NestInv, Running, Running', ~EntersUnseen, DispatchLeave PROVE NestInv'
<1>1. NestNow /\ ChainInv /\ AddrInv /\ Bodies(frames)
      /\ CallsAt(pc, stk) /\ active = IdsAt(pc, stk)
  BY NestUnfolds DEF DriverInv, NestNow
<1>2. Top.fn = "dispatch" /\ Returns /\ UNCHANGED <<saved, mode>>
  BY DEF DispatchLeave, Dispatching, At
<1>3. SameTraces(frames, frames') /\ Bodies(frames')
  BY <1>1, <1>2, FrReturns
<1>4. Top'.fn # "dispatch"
  BY <1>1, <1>2, TopReturns DEF Link
<1>5. PICK e \in Runners :
        /\ \/ stk # <<>> /\ pc' = Last(stk) /\ stk' = Front(stk)
           \/ \E a \in HookJumps : pc' = a /\ UNCHANGED stk
        /\ active' = active \ {e}
  BY DEF DispatchLeave
<1>6. active' = {stk[k][2] : k \in Magics(stk)} /\ active' \subseteq active /\ mode = "NORMAL"
      /\ (stk # <<>> => Last(stk) \in InAddrs)
  BY <1>1, <1>5, RunnerCalls
<1>7. /\ CallsAt(pc', stk') /\ SameMagics(stk, stk') /\ IdsAt(pc', stk') = active'
      /\ ~IsMagic(pc') /\ pc' \in InAddrs \cup Plain
  <2>1. CASE stk # <<>> /\ pc' = Last(stk) /\ stk' = Front(stk)
    <3>1. Last(stk) \in InAddrs /\ ~IsMagic(Last(stk)) /\ HookCalled(Last(stk), Front(stk))
      BY <1>6, <2>1, MagicKinds, NotHooked
    <3> QED
      BY <1>1, <1>6, <2>1, <3>1, PlainPop
  <2>2. ASSUME NEW a \in HookJumps, pc' = a, UNCHANGED stk
        PROVE  CallsAt(pc', stk') /\ SameMagics(stk, stk') /\ IdsAt(pc', stk') = active'
               /\ ~IsMagic(pc') /\ pc' \in InAddrs \cup Plain
    <3>0. At("dispatch", "top") /\ Returns /\ ~declined'
      BY DEF DispatchLeave, Dispatching
    <3>1. a \in Plain
      BY <2>2, <3>0, NamesAssumption, PlainCallable DEF EntersUnseen, JumpsToHook
    <3>2. ~IsMagic(a) /\ a \notin PagerAddrs /\ a \notin Starts /\ HookCalled(a, stk)
      BY <3>1, PlainAddrs
    <3> QED
      BY <1>1, <1>6, <2>2, <3>1, <3>2, PlainStay
  <2> QED
    BY <1>5, <2>1, <2>2
<1>8. Stepped'
  <2>1. mode' = "NORMAL"
    BY <1>2, <1>6
  <2> QED
    BY <1>7, <2>1, BpPlaces DEF Stepped
<1>9. MagicInv'
  BY <1>4, <1>7, MagicQuiet
<1> QED
  BY <1>1, <1>2, <1>3, <1>6, <1>7, <1>8, <1>9, NestMoves

LEMMA NestCall ==
  ASSUME DriverInv, DriverInv', NestInv, Running, Running', ~EntersUnseen, DispatchCall PROVE NestInv'
<1>1. NestNow /\ ChainInv /\ AddrInv /\ Bodies(frames) /\ WaitsFor(frames, stk)
      /\ CallsAt(pc, stk) /\ active = IdsAt(pc, stk) /\ active \subseteq Ids
  BY NestUnfolds DEF DriverInv, NestNow, TypeOK
<1>2. Top.fn = "dispatch" /\ mode' = mode
  BY DEF DispatchCall, Dispatching, At
<1>3. PICK e \in Runners, k \in CallKinds, a \in HookCalls :
        /\ pc' = a
        /\ stk' = Append(stk, MagicAddr(k, e))
        /\ active' = active \cup {e}
        /\ saved' = [saved EXCEPT ![e] = HookPc(e)]
        /\ frames' = Front(frames) \o
             <<NextTop, Frame("trace", "step", Top.depth, 0, MagicAddr(k, e), NoAddr)>>
  BY DEF DispatchCall
<1>4. /\ e \in Ids /\ mode = "NORMAL"
      /\ active' = {stk[j][2] : j \in Magics(stk)} \cup {e}
      /\ \A j \in Magics(stk) : stk[j][2] # e
      /\ stk # <<>> => Last(stk) \in InAddrs
      /\ HookPc(e) \in HookAddrs \cup {Entry(s) : s \in OvlHooks}
  BY <1>1, <1>3, RunnerCalls
<1> DEFINE x == MagicAddr(k, e)
           h == Frame("trace", "step", Top.depth, 0, x, NoAddr)
<1>6. x \in MagicAddrs /\ x \in RetAddrs /\ IsMagic(x) /\ x[2] = e
  <2>1. x \in MagicAddrs
    BY <1>4, Places1
  <2> QED
    BY <2>1, MagicKinds DEF RetAddrs, MagicAddr
<1>7. /\ NextTop \in FrameRecs /\ NextTop.fn = "dispatch" /\ h \in FrameRecs
      /\ h.fn = "trace" /\ h.want = x
  BY <1>1, <1>2, <1>4, NewFrames DEF Continues, Frame
<1>8. frames' = Front(frames) \o <<NextTop, h>> /\ stk' = Append(stk, x)
  BY <1>3
<1> HIDE DEF x, h
<1>5. a \in Plain /\ ~IsMagic(a) /\ a \notin PagerAddrs /\ a \notin Starts /\ HookCalled(a, stk')
  <2>1. Last(stk') = x /\ stk' # <<>>
    BY <1>1, <1>6, <1>8, StkFacts, Appended
  <2>2. a \notin Hooked
    BY <1>3, <1>6, <2>1 DEF EntersUnseen, ReturnsToHook
  <2>3. a \in Plain
    BY <1>3, <2>2, NamesAssumption, PlainCallable
  <2> QED
    BY <2>3, PlainAddrs
<1>9. /\ Bodies(frames')
      /\ Traces(frames') = Traces(frames) \cup {Len(frames) + 1}
      /\ \A i \in Traces(frames) : frames'[i].want = frames[i].want
      /\ frames'[Len(frames) + 1] = h
  BY <1>1, <1>2, <1>7, <1>8, FrCalls
<1>10. /\ Magics(stk') = Magics(stk) \cup {Len(stk) + 1}
       /\ \A j \in Magics(stk) : stk'[j] = stk[j]
       /\ stk'[Len(stk) + 1] = x
       /\ \A j \in 1 .. Len(stk) : stk'[j] = stk[j]
  BY <1>1, <1>6, <1>8, PushMagic
<1>11. /\ Traces(frames) \subseteq 1 .. Len(frames) /\ Magics(stk) \subseteq 1 .. Len(stk)
       /\ Len(frames) \in Nat /\ Len(stk) \in Nat
       /\ stk # <<>> => Last(stk) = stk[Len(stk)]
       /\ Len(stk) > 0 => stk # <<>>
  BY <1>1, TopTrace, TopLen, StkFacts DEF Magics
<1>12. WaitsFor(frames', stk')
  <2>1. frames'[Len(frames) + 1].want = stk'[Len(stk) + 1]
    BY <1>7, <1>9, <1>10
  <2> QED
    BY <1>1, <1>9, <1>10, <1>11, <2>1, WaitsPushed
<1>13. CallsAt(pc', stk')
  <2>1. \A i, j \in Magics(stk') : stk'[i][2] = stk'[j][2] => i = j
    BY <1>1, <1>4, <1>6, <1>10 DEF CallsAt
  <2>2. \A j \in Magics(stk') : j > 1 => stk'[j - 1] \in InAddrs
    <3>1. SUFFICES ASSUME NEW j \in Magics(stk'), j > 1 PROVE stk'[j - 1] \in InAddrs
      OBVIOUS
    <3>2. CASE j \in Magics(stk)
      <4>1. j - 1 \in 1 .. Len(stk) /\ stk[j - 1] \in InAddrs
        BY <1>1, <1>11, <3>1, <3>2 DEF CallsAt
      <4> QED
        BY <1>10, <4>1
    <3>3. CASE j = Len(stk) + 1
      <4>1. Len(stk) \in 1 .. Len(stk) /\ j - 1 = Len(stk) /\ stk # <<>>
        BY <1>11, <3>1, <3>3
      <4> QED
        BY <1>4, <1>10, <1>11, <4>1
    <3> QED
      BY <1>10, <3>2, <3>3
  <2> QED
    BY <1>3, <1>5, <2>1, <2>2 DEF CallsAt
<1>14. active' = IdsAt(pc', stk')
  <2>1. {stk'[j][2] : j \in Magics(stk')} = {stk[j][2] : j \in Magics(stk)} \cup {e}
    BY <1>6, <1>10
  <2> QED
    BY <1>3, <1>4, <1>5, <2>1 DEF IdsAt
<1>15. Stepped'
  BY <1>2, <1>3, <1>4, <1>5, BpPlaces DEF Stepped
<1>16. Top'.fn # "dispatch"
  <2>1. Top' = h
    BY <1>1, <1>7, <1>8, TopNests
  <2> QED
    BY <1>7, <2>1
<1>17. MagicInv'
  BY <1>3, <1>5, <1>16, MagicQuiet
<1>18. SavedInv'
  <2>1. saved \in [Ids -> PcAddrs \cup {NoAddr}]
    BY <1>1 DEF AddrInv
  <2>2. \A d \in active' : saved'[d] \in HookAddrs \cup {Entry(s) : s \in OvlHooks}
    BY <1>1, <1>3, <1>4, <2>1 DEF NestNow, SavedInv
  <2> QED
    BY <1>2, <1>4, <2>2 DEF SavedInv
<1> QED
  BY <1>9, <1>12, <1>13, <1>14, <1>15, <1>17, <1>18, NestFolds DEF NestNow

---------------------------------------------------------------------------
(* The nesting cap is reached before the contexts run out. *)

LEMMA LeastNumber ==
  ASSUME NEW T, T \subseteq Nat, T # {} PROVE \E x \in T : \A y \in T : x <= y
<1>1. \E x \in T : \A y \in T : <<y, x>> \notin OpToRel(<, Nat)
  BY NatLessThanWellFounded, WFMin
<1>2. ASSUME NEW x \in T, NEW y \in T, <<y, x>> \notin OpToRel(<, Nat) PROVE x <= y
  BY <1>2 DEF OpToRel
<1> QED
  BY <1>1, <1>2

LEMMA NoneFree == ASSUME Free = {} PROVE Ids \subseteq active
<1>1. SUFFICES ASSUME Ids \ active # {} PROVE FALSE
  OBVIOUS
<1>2. Ids \ active \subseteq Nat
  BY BoundsAssumption DEF Ids
<1>3. PICK x \in Ids \ active : \A y \in Ids \ active : x <= y
  BY <1>1, <1>2, LeastNumber
<1>4. x \in Free
  BY <1>3 DEF Free
<1> QED
  BY <1>4

\* Every context in use has its own depth below the dispatch that wants another.
LEMMA ContextsSuffice ==
  ASSUME DriverInv, NestNow, MaxDepth < MaxExec PROVE ~DispatchNoContext
<1> SUFFICES ASSUME DispatchNoContext PROVE FALSE
  OBVIOUS
<1>1. ChainInv /\ WaitsFor(frames, stk) /\ active = IdsAt(pc, stk)
  BY DEF DriverInv, NestNow
<1>2. Top.fn = "dispatch" /\ Top.depth <= MaxDepth /\ Resumed = {} /\ Ids \subseteq active
  BY NoneFree DEF DispatchNoContext, Dispatching, At
<1>3. active = {stk[k][2] : k \in Magics(stk)}
  BY <1>1, <1>2, MagicRuns, IdsElsewhere
<1>4. \A e \in Ids : \E i \in Traces(frames) : frames[i].want[2] = e
  <2>1. SUFFICES ASSUME NEW e \in Ids PROVE \E i \in Traces(frames) : frames[i].want[2] = e
    OBVIOUS
  <2>2. PICK k \in Magics(stk) : stk[k][2] = e
    BY <1>2, <1>3
  <2>3. PICK slot \in [Traces(frames) -> Magics(stk)] :
          /\ \A j \in Magics(stk) : \E i \in Traces(frames) : slot[i] = j
          /\ \A i \in Traces(frames) : frames[i].want = stk[slot[i]]
    BY <1>1 DEF WaitsFor
  <2>4. PICK i \in Traces(frames) : slot[i] = k
    BY <2>3
  <2> QED
    BY <2>2, <2>3, <2>4
<1> DEFINE tr == [e \in Ids |-> CHOOSE i \in Traces(frames) : frames[i].want[2] = e]
<1>5. \A e \in Ids : tr[e] \in Traces(frames) /\ frames[tr[e]].want[2] = e
  BY <1>4
<1> HIDE DEF tr
<1>6. /\ Len(frames) \in Nat \ {0} /\ Top = frames[Len(frames)]
      /\ \A i : i \in DOMAIN frames <=> i \in 1 .. Len(frames)
  BY <1>1, TopLen
<1>7. \A i \in Traces(frames) :
        i \in 1 .. Len(frames) /\ i < Len(frames) /\ frames[i].fn = "trace" /\ frames[i].depth \in Nat
  <2>1. SUFFICES ASSUME NEW i \in Traces(frames)
                 PROVE  i \in 1 .. Len(frames) /\ i < Len(frames) /\ frames[i].fn = "trace" /\ frames[i].depth \in Nat
    OBVIOUS
  <2>2. i \in 1 .. Len(frames) /\ frames[i].fn = "trace"
    BY <1>6 DEF Traces
  <2>3. i # Len(frames)
    BY <1>2, <1>6, <2>2
  <2>4. frames[i] \in FrameRecs
    BY <1>1, <2>2, ChainFacts DEF ChainInv
  <2> QED
    BY <1>6, <2>2, <2>3, <2>4 DEF FrameRecs
<1>8. \A i, j \in 1 .. Len(frames) : i < j /\ frames[i].fn = "trace" => frames[i].depth < frames[j].depth
  BY <1>1, ChainFacts DEF ChainInv, Below
<1> DEFINE d == [e \in Ids |-> frames[tr[e]].depth]
<1>9. MaxDepth \in Nat /\ MaxExec \in Nat /\ Top.depth \in Nat
  BY <1>1, BoundsAssumption, TopFacts
<1>10. d \in [Ids -> 0 .. MaxDepth - 1]
  <2>1. SUFFICES ASSUME NEW e \in Ids PROVE frames[tr[e]].depth \in 0 .. MaxDepth - 1
    OBVIOUS
  <2>2. tr[e] \in 1 .. Len(frames) /\ tr[e] < Len(frames) /\ frames[tr[e]].fn = "trace"
        /\ frames[tr[e]].depth \in Nat
    BY <1>5, <1>7
  <2>3. Len(frames) \in 1 .. Len(frames)
    BY <1>6
  <2>4. frames[tr[e]].depth < Top.depth
    BY <1>6, <1>8, <2>2, <2>3
  <2> QED
    BY <1>2, <1>9, <2>2, <2>4
<1>11. /\ IsFiniteSet(Ids) /\ Cardinality(Ids) = MaxExec
       /\ IsFiniteSet(0 .. MaxDepth - 1) /\ Cardinality(0 .. MaxDepth - 1) = MaxDepth
  <2>1. /\ IsFiniteSet(0 .. MaxExec - 1)
        /\ Cardinality(0 .. MaxExec - 1) = IF 0 > MaxExec - 1 THEN 0 ELSE (MaxExec - 1) - 0 + 1
    BY <1>9, FS_Interval
  <2>2. /\ IsFiniteSet(0 .. MaxDepth - 1)
        /\ Cardinality(0 .. MaxDepth - 1) = IF 0 > MaxDepth - 1 THEN 0 ELSE (MaxDepth - 1) - 0 + 1
    BY <1>9, FS_Interval
  <2>3. \A m \in Nat : (IF 0 > m - 1 THEN 0 ELSE (m - 1) - 0 + 1) = m
    OBVIOUS
  <2> QED
    BY <1>9, <2>1, <2>2, <2>3 DEF Ids
<1>12. PICK x, y \in Ids : x # y /\ d[x] = d[y]
  <2> HIDE DEF d
  <2> QED
    BY <1>9, <1>10, <1>11, FS_PigeonHole
<1>13. tr[x] # tr[y]
  BY <1>5, <1>12
<1>14. /\ tr[x] \in 1 .. Len(frames) /\ frames[tr[x]].fn = "trace" /\ frames[tr[x]].depth \in Nat
       /\ tr[y] \in 1 .. Len(frames) /\ frames[tr[y]].fn = "trace" /\ frames[tr[y]].depth \in Nat
       /\ frames[tr[x]].depth = frames[tr[y]].depth
  BY <1>5, <1>7, <1>12
<1>15. tr[x] < tr[y] \/ tr[y] < tr[x]
  BY <1>6, <1>13, <1>14
<1> QED
  BY <1>8, <1>14, <1>15

\* Nothing else says that the contexts have run out.
LEMMA MaxExecOnly ==
  ASSUME [Next]_vars, reason # "MAX_EXEC", ~DispatchNoContext PROVE reason' # "MAX_EXEC"
<1>1. CASE UNCHANGED vars BY <1>1 DEF vars
<1>2. CASE \/ MzEntryStop \/ MzSkip \/ MzFails \/ Install \/ Go \/ GuestRuns \/ GoFails
           \/ StopTracked \/ StopPageIn \/ StopUnrelated \/ StopUnexpected
           \/ AfterStop \/ Cleanup \/ Ended
  BY <1>2 DEF MzEntryStop, MzSkip, MzFails, Install, Go, GuestRuns, GoFails, StopTracked, StopPageIn,
              StopUnrelated, StopUnexpected, AfterStop, Cleanup, Ended, Done, vars
<1>3. CASE \/ DispatchTooDeep \/ DispatchCapture \/ DispatchRestore \/ DispatchResume
           \/ DispatchLeave \/ DispatchCall \/ DispatchFails
  BY <1>3 DEF DispatchTooDeep, DispatchCapture, DispatchRestore, DispatchResume,
              DispatchLeave, DispatchCall, DispatchFails, Done
<1>4. CASE \/ Trace \/ TraceFails \/ PageInTooDeep \/ PageInEnter \/ PagerStep \/ PagedInNow
           \/ BodyReturns \/ BodyPageIn \/ BodyDispatch \/ BodyStep \/ PageInFails \/ ReconcileFails
  BY <1>4 DEF Trace, TraceFails, PageInTooDeep, PageInEnter, PagerStep, PagedInNow,
              BodyReturns, BodyPageIn, BodyDispatch, BodyStep, PageInFails, ReconcileFails, Done
<1> QED
  BY <1>1, <1>2, <1>3, <1>4 DEF Next, Host

---------------------------------------------------------------------------
LEMMA NestStands == ASSUME NestInv, UNCHANGED vars PROVE NestInv'
<1>1. SUFFICES ASSUME Running' PROVE NestInv'
  BY DEF NestInv
<1>2. NestNow /\ UNCHANGED <<pc, stk, active, saved, mode, frames, bps, declined>>
  BY <1>1, NestUnfolds DEF vars, Running
<1>3. SameTraces(frames, frames') /\ Bodies(frames')
  BY <1>2 DEF SameTraces, NestNow
<1>4. Stepped'
  BY <1>2 DEF NestNow, Stepped, CpuRuns, InRun, At, Top, BodyGoesOn
<1>5. MagicInv'
  BY <1>2 DEF NestNow, MagicInv, At, Top
<1> QED
  BY <1>2, <1>3, <1>4, <1>5, NestKept

LEMMA NestStep ==
  ASSUME DriverInv, NestInv, ~EntersUnseen, [Next]_vars PROVE NestInv'
<1>1. DriverInv'
  BY DriverStep
<1>2. ChainInv /\ EndInv /\ AddrInv /\ active \subseteq Ids
  BY DEF DriverInv, TypeOK
<1>3. SUFFICES ASSUME Running' PROVE NestInv'
  BY DEF NestInv
<1>4. Running
  BY <1>2, <1>3, RunningBefore
<1>5. ASSUME NEW why, why # "none", reason' = why PROVE NestInv'
  BY <1>5, NestEnds
<1>6. CASE UNCHANGED vars
  BY <1>6, NestStands
<1>8. CASE MzEntryStop \/ Install \/ Go \/ AfterStop \/ StopTracked \/ StopPageIn
  BY <1>1, <1>4, <1>8, NestRun
<1>9. CASE GuestRuns \/ StopUnrelated
  BY <1>1, <1>4, <1>9, NestGuest
<1>10. CASE \/ PageInEnter \/ PagerStep \/ PagedInNow
            \/ BodyReturns \/ BodyPageIn \/ BodyDispatch \/ BodyStep
  BY <1>1, <1>4, <1>10, NestPageIn
<1>11. CASE Trace
  BY <1>1, <1>4, <1>11, NestTrace
<1>12. CASE DispatchRestore
  BY <1>1, <1>4, <1>12, NestRestore
<1>13. CASE DispatchResume
  BY <1>1, <1>4, <1>13, NestResume
<1>14. CASE DispatchLeave
  BY <1>1, <1>3, <1>4, <1>14, NestLeave
<1>15. CASE DispatchCall
  BY <1>1, <1>3, <1>4, <1>15, NestCall
<1>16. CASE \/ MzFails \/ GoFails \/ StopUnexpected
            \/ DispatchTooDeep \/ DispatchCapture \/ DispatchFails \/ DispatchNoContext
            \/ TraceFails \/ PageInTooDeep \/ PageInFails \/ ReconcileFails
  BY <1>5, <1>16 DEF MzFails, GoFails, StopUnexpected, DispatchTooDeep, DispatchCapture,
                     DispatchFails, DispatchNoContext, TraceFails, PageInTooDeep, PageInFails,
                     ReconcileFails, Done
<1>17. CASE Cleanup \/ MzSkip \/ Ended
  <2>1. CASE Cleanup
    <3>1. frames[1].at = "done"
      BY <2>1, InRunFacts DEF Cleanup
    <3> QED
      BY <1>2, <1>4, <3>1 DEF EndInv, OuterAts
  <2> QED
    BY <1>6, <1>17, <2>1 DEF MzSkip, Ended
<1> QED
  BY <1>6, <1>8, <1>9, <1>10, <1>11, <1>12, <1>13, <1>14, <1>15, <1>16, <1>17 DEF Next, Host

LEMMA NestInit == ASSUME Init PROVE NestInv
<1>1. /\ stk = <<>> /\ active = {} /\ bps = {} /\ pc \in Starts /\ (InRun("load") \/ InRun("install"))
  BY DEF Init, InRun, Starts
<1>2. Magics(stk) = {}
  BY <1>1 DEF Magics
<1>3. Traces(frames) = {} /\ Bodies(frames) /\ Top.fn = "run"
  BY <1>1, RunTraces, InRunFacts DEF InRun
<1>4. ~IsMagic(pc) /\ pc \notin PagerAddrs /\ \A s : HookCalled(pc, s)
  BY <1>1, MagicKinds, PcKinds, NotHooked
<1>5. WaitsFor(frames, stk)
  BY <1>2, <1>3, WaitsForNothing
<1>6. active = IdsAt(pc, stk) /\ CallsAt(pc, stk)
  BY <1>1, <1>2, <1>4 DEF IdsAt, CallsAt
<1>7. Stepped /\ MagicInv /\ SavedInv
  BY <1>1, <1>3, <1>4 DEF Stepped, MagicInv, SavedInv, At
<1> QED
  BY <1>3, <1>5, <1>6, <1>7 DEF NestInv

LEMMA NestSafe ==
  ASSUME DriverInv, NestInv, DepthBeforeContexts
  PROVE  NestingAgrees /\ NoMagicExecuted /\ TrackedAreDispatched /\ DepthBeforeContexts
<1>1. ChainInv /\ EndInv
  BY DEF DriverInv
<1>2. NestingAgrees
  BY DEF NestInv, NestingAgrees, Back, IdsAt
<1>3. CpuRuns => Running /\ Top.fn # "dispatch"
  <2>1. CpuRuns => InRun("go") \/ InRun("running") \/ Top.fn \in {"trace", "pagein"}
    BY DEF CpuRuns, At, BodyGoesOn
  <2>2. InRun("go") \/ InRun("running") => Top.fn = "run" /\ frames[1].at \in {"go", "running"}
    BY InRunFacts
  <2> QED
    BY <1>1, <2>1, <2>2, DriverRunning DEF EndInv, OuterAts
<1>4. NoMagicExecuted
  BY <1>3, NestUnfolds, NotMagic DEF NoMagicExecuted
<1>5. TrackedAreDispatched
  BY <1>3, NestUnfolds DEF TrackedAreDispatched, NestNow, Stepped
<1> QED
  BY <1>2, <1>4, <1>5

LEMMA DepthStep ==
  ASSUME DriverInv, NestInv, DepthBeforeContexts, [Next]_vars PROVE DepthBeforeContexts'
<1>1. SUFFICES ASSUME MaxDepth < MaxExec PROVE reason' # "MAX_EXEC"
  BY DEF DepthBeforeContexts
<1>2. reason # "MAX_EXEC"
  BY <1>1 DEF DepthBeforeContexts
<1>3. ~DispatchNoContext
  <2>1. DispatchNoContext => Running
    BY DriverRunning DEF DispatchNoContext, Dispatching, At, DriverInv
  <2> QED
    BY <1>1, <2>1, NestUnfolds, ContextsSuffice
<1> QED
  BY <1>2, <1>3, MaxExecOnly

\* The history variable watches the driver's own steps.
LEMMA WatchedSteps ==
  ASSUME [WatchedNext]_<<vars, unseen>>
  PROVE  [Next]_vars /\ (unseen => unseen') /\ (~unseen' => ~EntersUnseen \/ UNCHANGED vars)
<1>1. CASE WatchedNext
  <2>1. Next
    BY <1>1, Zenon DEF WatchedNext, Seen, Next, Host
  <2>2. unseen' = (unseen \/ EntersUnseen)
    BY <1>1, Zenon DEF WatchedNext, Seen
  <2> QED
    BY <2>1, <2>2, Zenon
<1>2. CASE UNCHANGED <<vars, unseen>>
  BY <1>2, Zenon
<1> QED
  BY <1>1, <1>2, Zenon

NestHolds == ~unseen => NestInv /\ DepthBeforeContexts

\* As long as no hooked address is entered unseen, whatever else hooks and guest
\* functions call, jump to, decline or page in: the driver's activations, the
\* contexts in use and the guest's stack tell the same story, no magic return
\* address and no tracked entry is executed, and the nesting cap fires before
\* the contexts run out (trace_to_return, dispatch_hook, hydra_machine_exec).
THEOREM NestingSafeAlways == WatchedSpec => []NestingSafe
<1>1. WatchedInit => NestHolds
  BY NestInit DEF WatchedInit, Init, DepthBeforeContexts, NestHolds
<1>2. DriverInv /\ NestHolds /\ [WatchedNext]_<<vars, unseen>> => NestHolds'
  <2>1. SUFFICES ASSUME DriverInv, NestHolds, [WatchedNext]_<<vars, unseen>>, ~unseen'
                 PROVE  (NestInv /\ DepthBeforeContexts)'
    BY DEF NestHolds
  <2>2. [Next]_vars /\ NestInv /\ DepthBeforeContexts /\ (~EntersUnseen \/ UNCHANGED vars)
    BY <2>1, WatchedSteps DEF NestHolds
  <2>3. DepthBeforeContexts'
    BY <2>1, <2>2, DepthStep
  <2>4. NestInv'
    <3>1. CASE ~EntersUnseen
      BY <2>1, <2>2, <3>1, NestStep
    <3>2. CASE UNCHANGED vars
      BY <2>1, <2>2, <3>2, NestStands
    <3> QED
      BY <2>2, <3>1, <3>2
  <2> QED
    BY <2>3, <2>4
<1>3. DriverInv /\ NestHolds => NestingSafe
  BY NestSafe DEF NestHolds, NestingSafe
<1>4. [WatchedNext]_<<vars, unseen>> => [Next]_vars
  BY WatchedSteps
<1> QED
  BY <1>1, <1>2, <1>3, <1>4, DriverSound, PTL DEF WatchedSpec, WatchedInit, Spec
=============================================================================
