# Verification of dis86 and Hydra

This directory holds TLA+ models of the parts of this repository whose
correctness depends on order, nesting, sharing, limits or agreement between two
implementations of the same thing, the TLC configurations that check them, and
TLAPS proofs of the results that matter most. `PROJECT.json` is the index:
components, runs, mutants, the map from definitions to source lines, hazards
and theorems.

## 1. Inventory

| Component | State | Operations | What is hard |
|---|---|---|---|
| **exec layer** (`hydra/src/exec.c`, call seams of `machine.c`, `api_impl.c`) | up to 1024 contexts (thread, mutex, two condition variables, state, machine copy, result, saved registers), `thread_active`, overlay tracking, `HYDRA_MODE` | `hydra_machine_exec`, `run_begin`, `run_continue`, `run_wait`, `try_resume`, `hydra_impl_call_far/near`, `thread_func` | two threads share a machine by handover; a return address *is* a context number; nesting |
| **callstack model** (`callstack.c`) | 1024 call entries, a pending event | track, notify, trigger_enter, ret | two-phase events, a limit |
| **hooks, overlays** (`hooks.c`, `overlay.c`) | hook table, physical-to-overlay map | find, remap | mapping moves at run time |
| **raw code** (`machine.c:105-139`) | slot counter | place and run code bytes | slots are never reused |
| **trace sink** (`trace.c`) | sink, counters, budget | open, emit, close | close while emitting, truncation |
| **dosemu host driver** (`dosemu_host/host_driver.c`) | breakpoint table, overlay stub registry, run context | `host_run`, `dispatch_hook`, `trace_to_return`, overlay page-in and reconciliation, MZ entry | recursion over a remote CPU, stale breakpoints |
| **debugger client** (`dosemu_host/dosdebug.c`) | pipes, receive buffer, stop state | request, wait for answer, wait for stop | late and partial answers, timeouts |
| **dosemu host services** (`host.c`, `lowmem.c`) | shared low memory, snapshot files | registers, state save and restore | partial files |
| **native host** (`native_host/*.c`) | guest memory, text window, PIT, keyboard, interrupt table | memory accessors, ports, INT dispatch, snapshots | mirrored state, one shared timestamp |
| **ranges and coverage** (`util/range_set.rs`, `config.rs`, `coverage.rs`) | vectors of ranges | insert, gaps, merge regions, subtract data, count | binary searches that trust their order; half-open edges |
| **function scan** (`analyze/*.rs`, `asm/branch.rs`) | two work queues, per-function details | scan, walk blocks, classify branches and calls | overlapping blocks, data in code, ends of regions and segments |
| **control-flow structuring** (`decompile/control_flow.rs`, `ast.rs`, `gen.rs`) | elements, bodies, layout, labels, statements | phi blocks, infer loops, switches, ifs, schedule, label, emit | every pass moves blocks between bodies; the scheduler asserts what the passes left |
| **instruction lowering** (`ir_build.rs`) | value of every register and byte fragment, flags value, tracked carry, `df_clear` | one arm per instruction | fragments and flags that outlive the instruction that set them |
| **block graph, flag analyses** (`ir_build.rs`) | blocks, predecessors, whether carry and direction are known where a block starts | infer block starts, link blocks, two fixpoints over block summaries | region boundaries, the start in the middle of a region, dead code, joins and loops |
| **SSA construction and optimiser** (`ir/`, `ir_build.rs`, `opt.rs`, `sym.rs`, `fuse.rs`, `ir/fin.rs`) | blocks, pools, phis, symbols | seal blocks, rewrite, symbolise, forward, lift, fuse, finalise | rewrites in the wrong order; effects moved over each other |
| **ABI inference** (`decompile/abi.rs`, `app_infer.rs`) | declared inputs of every function | liveness of entry registers, DX scan, rounds | a fixpoint over a call graph with cycles |
| **validation and batch driver** (`validate.rs`, `spec.rs`, `app.rs`, `app_analyze.rs`, `report.rs`) | diagnostics, ledger, exit code | validate, select, decompile each, report | agreement of validation with what later passes assume; partial failure |
| **emu86 instructions** (`emu86/step.rs`, `cpu_*.rs`, `alu.rs`) | registers, FLAGS, memory | one step | flags at the edges, string operations, repetition |
| **emu86 DOS services and devices** (`interrupt.rs`, `dos*.rs`, `mem.rs`, `io.rs`, `adlib.rs`, `video.rs`) | interrupt vectors, file handles, write tracker, timers, palette | INT, IRET, INT 21h, ports | nesting on a wrapping stack, tables that fill up, time |
| **bsl** (`bsl/src`, `dis86/src/bsl`) | configuration tree | parse, get | malformed input |
| **decoder, confgen, parity, moo** | - | table-driven decoding, generators, test lanes, vendored code | - |

How they interact. `dis86` is a batch tool: it reads an executable and a bsl
configuration, validates the one against the other, finds functions (scan),
reports what is known of the image (coverage), infers calling conventions and
decompiles: instructions are decoded, lowered to IR, put in SSA form, optimised,
structured and printed as C. `emu86` executes the same instructions, so that the
two readings of the instruction set can be compared. The C, compiled as
*hooks*, runs inside Hydra. A Hydra host (dosemu or native) drives the guest CPU,
stops it wherever a hook, an overlay stub or a magic return address may be, and
calls `hydra_machine_exec`. The exec layer runs the hook on a thread of its own
and hands the machine over. A hook that calls a guest function pushes a return
address that names its context; the host runs the guest until it gets there,
and the guest may enter further hooks on the way.

What makes each modelled part correct:

* exec layer: one thread at a time touches the machine; a result is taken only
  when posted; every return reaches the hook that made the call and nothing else
  does; contexts nest like a stack and are given back; no wakeup is lost.
* host driver: hook addresses are armed whenever the guest runs freely, no
  stop is dispatched twice or missed, the driver's recursion agrees with the
  guest's stack, snapshots and the end of a run leave no breakpoint behind,
  every dispatch ends.
* ranges and coverage: the representation is kept, and every byte is counted
  once.
* function scan: exactly the reachable code is decoded, data never is, what is
  reported is what the instructions say, and the scan ends.
* structuring: no block is lost or doubled, and control in the printed C goes
  from every block where the graph says.
* lowering: after each instruction, the IR has computed what the processor has;
  what is remembered of carry and direction is true; a resolved branch goes the
  processor's way, an unresolved one says so.
* block graph: it has every step of the code and no other, and says that carry
  or direction is known only where it is on every way there.
* optimiser: each stage keeps the IR in SSA form over its own graph, and means
  what the guest program means; so does the C.
* ABI inference: a register is reported as an input exactly if it matters, the
  high half of a result exactly if a caller uses it before its next call; apart
  from an input only handed on (`PassesOn`), and from callers with a phi made
  after the call, with a result's DX handed on to a callee that declares it, or
  with a DX input of their own (`LatePhi`, `HandsDxOn`, `TakesDx`).
* validation and batch: what validation passes decodes; the ledger adds up;
  exit code 0 means that everything asked for came out.
* DOS services: an interrupt is invisible to the code it interrupts, the handle
  table keeps DOS's promise, the write tracker misses nothing but file reads, a timer
  keeps time from its start to its overflow.

## 2. Plan

Done:

1. Exec layer with its abstract specification (`CoroutineStack`); proofs of the
   handover, of every safety property the runs check, and of the refinement.
2. dosemu host driver over the exec layer seen from outside; proofs of its four
   safety properties.
3. Ranges, region arithmetic and coverage, with proofs of every property the run
   checks; function scan, with proofs of the walk and of the report.
4. The decompiler: structuring and the printed text (`ControlFlow`, `AstBuild`);
   emulator against lowering (`Alu`, `Emu86`, `IrLower`, `IsaAgreement`); SSA and
   the passes against the guest (`SsaIr`, `SsaOpt`, `GuestSem`, `SsaPipeline`);
   the ABI fixpoint (`AbiInference`).
5. Validation against decoding, the block graph of what was decoded, and the
   batch driver (`Preflight`, `BlockBuild`, `Batch`); proofs that the report
   adds up and that the exit code tells the truth.
6. emu86's interrupts, files, write tracker and ports (`DosMachine`,
   `SoundPorts`), with an abstract handle table (`HandleTable`); proofs of all
   four properties, the refinement included.

Left, in order:

7. Proofs about the block graph of the batch run (`BlocksExact`).
8. The callstack model on its own (call, return and jump tables, interrupt
   handlers), raw-code slots, the debugger client's request/answer protocol with
   timeouts, the snapshots of both hosts, the native host.

## 3. Modules

| Module | Models | State | Actions |
|---|---|---|---|
| `HydraCallstack` | `callstack.c` | operators on the callstack record | used by `HydraExec` |
| `HydraExec` | `exec.c`, the call seams of `machine.c`, `api_impl.c` | registers and stack of the guest, contexts, mutexes, program counters of the host's and the hooks' threads, overlay tracking, mode, callstack model | guest steps (external), dispatch, `RunBegin` ... `ApplyResult` of the host's thread, `ThreadStart` ... `ThreadExit` of a hook's |
| `CoroutineStack` | what the exec layer promises: a stack of coroutines | the stack of suspended hooks, who runs | call, return, start, end |
| `HydraExecProofs` | proofs about `HydraExec`: types, the handover, and the invariant of its contexts, frames and segments | | |
| `HydraReturnsProofs` | what follows: returns, hooks, overlays, the refinement | | |
| `HostDriver` | `host_driver.c` | CPU, stub bytes, contexts in use, the C stack of activations (`frames`), tracked and actual breakpoints, mode | one per branch of `host_run`, `dispatch_hook`, `trace_to_return`, `overlay_handle_pagein` |
| `HostNesting` | what nested hooks may rely on: `HostDriver` with a history variable | `unseen`: a hooked address was entered behind the driver's back | those of `HostDriver` |
| `HostDriverProofs` | proofs about `HostDriver`: types, breakpoints, snapshots, overlays, the nesting of its activations | | |
| `RangeSet` | `range_set.rs` | operators | |
| `RegionConfig` | region arithmetic of `config.rs` | operators | |
| `Coverage` | `coverage.rs` | loop position, three range sets, report | `NextFunc`, `CountCode`, `CountText`, `Report` |
| `RangeSetProofs` | what the operators of `RangeSet` and `RegionConfig` return, for any ranges and regions | | |
| `CoverageProofs` | proofs about `Coverage` | | |
| `FuncScan` | `analyze.rs` (scan), `func_details.rs`, `instr_details.rs`, `workqueue.rs`, `branch.rs` | program, two work queues, the function being walked, results | taking a function, taking a block, one instruction by what follows it, finishing |
| `FuncScanProofs` | proofs about `FuncScan`: the walk and the report | | |
| `ControlFlow` | `control_flow.rs` | elements, bodies, the bodies still to visit, pass, labels | one per pass over a body (loops, switches, ifs), `ScheduleLayout`, `LabelBlocks` |
| `AstBuild` | the statement structure of `ast.rs`, and where `gen.rs` makes it go | statements | emission of the whole function |
| `Alu` | `alu.rs`, `cpu_flags.rs` at a byte of `B` bits | operators | |
| `Emu86` | `step.rs`, `cpu_*.rs`, operands and memory | operators on a machine record | |
| `IrLower` | the arms of `append_asm_instr_inner` in `ir_build.rs`; the flag-reader rewriting of `opt.rs` | operators on a lowering record | |
| `IsaAgreement` | `Emu86` and `IrLower` in step | both machines, the last flag writer | one per class of instructions |
| `SsaIr` | `ir/def.rs`, `ir/methods.rs`, the block driver of `ir_build.rs`: variables, sealing, phis, calls, exit write-back | operators on an IR | |
| `SsaOpt` | `opt.rs`, `sym.rs`, `fuse.rs`, `ir/fin.rs` | operators on an IR | |
| `GuestSem` | what guest instructions do (the reference, external) | operators on a machine state | |
| `SsaPipeline` | the stages of one decompilation, and three executions: of the guest, of the IR, of the C | program, IR, stage | one per stage |
| `AbiInference` | `abi.rs` and the rounds of `app_infer.rs` | working declarations, functions as built last, round, report | build, each stage, compare, report |
| `Preflight` | `validate.rs`, the lookups of `config.rs`, `spec.rs` | operators on a configuration and an image | |
| `BlockBuild` | `build_once`, `build`, `analyze_df`, `analyze_carry` of `ir_build.rs` | operators on a decoded function: its graph, the flags at block entries | |
| `Batch` | `run` of `app.rs`, `app_analyze.rs`, `report.rs` | program counter, functions to do, ledger, failures, files, exit code | argument checks, validation, selection, one function, finish |
| `BatchProofs` | proofs about `Batch`: what validation passes decodes, the ledger, the exit code | | |
| `HandleTable` | what a program relies on of DOS file handles | table, last result | open, close, read, seek |
| `SoundPorts` | `io.rs`, `adlib.rs`, `video.rs` | timers, selected register, palette index | one per port access |
| `DosMachine` | `interrupt.rs`, `dos.rs`, `dos_filesystem.rs`, stack and tracker of `machine.rs`, `mem.rs` | CPU, memory, tracker, vectors, handles | INT, IRET, stack, one per service |
| `DosMachineProofs` | proofs about `SoundPorts` and `DosMachine` | | |
| `MC*` | instances for TLC | | |

What composes what: `HydraExec` uses `HydraCallstack` and implements
`CoroutineStack`. `Coverage`, `FuncScan` and `Preflight` share the region
arithmetic of `RegionConfig`; `BlockBuild` takes the functions
`Preflight` decodes, and `Batch` runs over both. `AstBuild` prints
what `ControlFlow` structured. `IsaAgreement` joins `Emu86` and `IrLower`.
`SsaPipeline` and `AbiInference` run the same `SsaIr` and `SsaOpt`, and compare
with the same `GuestSem`. `DosMachine` includes `SoundPorts` and implements
`HandleTable`. `HostDriver` sees the exec layer from outside: what
`hydra_machine_exec` answers.

Conventions. Each guard, early return and assertion of the code is a guard or an
action here. An abort of the C code sets `fault` (exec layer) or `reason` (host
driver); a Rust panic is a state (`"panicked"`, `"panic ..."`, `ok = FALSE`) where
nothing more happens, or the exit code 101 where `Batch` does not catch it.
Definitions that begin with `\* Mutant:` are wrong on purpose: no specification
uses them, each shows that one property fails when the code is wrong in that
way.

Abstractions.

* Exec layer: the guest's stack is a sequence of frames, one per call, since
  hooks and guest agree on frame sizes; addresses are scaled down with the magic
  windows kept in proportion.
* `HostDriver`: an error return makes every caller return at once, so it unwinds
  all activations in one step.
* `FuncScan`: a program is a partial function from addresses to instructions
  that is chosen at the first decode and stays: every overlap of instructions is
  possible, which is more than bytes allow and includes all they do. One normal
  segment is analysed; all other segments are one address.
* `ControlFlow`: a block is its exits, whether it begins with phis and whether it
  ends in a jump table.
* `Alu`, `Emu86`, `IrLower`: the byte has 2 bits, the word 4; every constant of
  the code keeps its role (8 is `B`, 16 is `W`, the count mask is `2*W-1`). AF
  has no reader and is left out.
* `SsaIr`: words only, with 8 values; a word is one unit of address; registers
  are AX, BX, CX, DX and SP. Byte fragments and flags are the business of
  `IrLower`; between the two, every arm is checked once.
* `Batch`: the outcome of the phases after lowering (structuring, AST, C) is
  chosen freely, since the modules above look inside.
* `DosMachine`: file contents are positions and lengths; the OPL synthesizer and
  path resolution are left out.

What the models assume:

* the overlay pager does not move an overlay whose hook waits for a *far* call
  (the code has `maybe_reloc` for near calls only);
* the debugger's breakpoint table is not affected by what the guest writes, and
  its single step runs an INT to its return;
* hooks are not placed on functions whose first instruction is a call or a
  return (section 7);
* `pthread_cond_wait` returns when signalled;
* the comparison of `IsaAgreement` ends at an instruction of `Excepted`, where lowered
  code and processor are known to differ and no marker says so: byte DIV and IDIV,
  PUSH and IMUL with a negative byte, XCHG with memory addressed through the
  swapped register, shift counts of 32 and more, SETcc outside `Exact`, and word accesses
  that straddle the end of a segment, where the emulator wraps and pointers of the
  host do not. Each of them occurs in the instance, and without any of the six
  TLC finds `StateAgrees` violated;
* a flag reader is compared for the writers and conditions of `Exact` in
  `IsaAgreement`; for the others section 7 lists what the code makes of them;
* the programs of `MCSsa` keep the shapes its header names;
* a handler of the guest pops what it pushed before it returns.

## 4. Runs

| Run | Instance | Shows |
|---|---|---|
| `exec_nesting` | 3 contexts, 2 with a near magic address, 2 hooks, guest functions inside the magic windows, all three modes, 3 frames | hooks and guest call each other in every order: one runner, results posted before taken (`HandoverSafe`), no return missed or misattributed (`ReturnsFound`), contexts nest and are returned (`HookDiscipline`), no step applies a result early or touches a register across a call (`StepsDisciplined`), and the whole implements `CoroutineStack` |
| `exec_overlay` | 2 contexts, 2 stubs, 2 places for bodies, near calls with and without `maybe_reloc`, fairness | hooks follow their overlay when it moves, returns still find them (`OverlayHooksSafe`); a resumed hook runs, a posted result is taken (`WakeupsArrive`) |
| `host` | nesting cap 2, 2 contexts (so that they can run out), far and near calls, guest code and hooks that call and jump to hooked and unhooked functions, capture, restore and MZ load, failing debugger commands | until a hooked address is entered unseen, recursion of the driver, contexts and guest stack agree (`NestingSafe`); hooks are armed when the guest runs and no stop is dispatched twice (`DispatchDiscipline`); a snapshot has no breakpoint in it and nothing is left behind (`SnapshotFaithful`) |
| `host_overlay` | 3 stubs in 2 overlays, 2 places, stubs that cannot be armed, no tail jumps of guest code (with them over a million states), fairness | the overlay map and the breakpoints follow the pager; with a context more than the nesting cap the cap fires first (`NestingSafe`); every dispatch and page-in ends |
| `coverage` | addresses 0 to 5, up to 2 regions (any shape) and 2 data regions, plus a legacy function | range sets agree, every byte is counted once |
| `scan` | 4-byte segment, 17 instructions, 4 function lists with and without data, fairness | the walk is reachability and never enters data (`WalkExact`), details and calls are exact (`ReportExact`), termination |
| `control_flow` | every reachable graph of 5 blocks; of 4 blocks with every choice of phi blocks; every one of 4 blocks with a table of 2 or 3 cases | no block lost or doubled at any step (`LayoutExact`), the printed C goes where the graph says (`FlowPreserved`), outside cases that run on; an assert of the passes fails in three named situations only (`PanicExplained`) |
| `isa` | every block of two instructions from a menu of 175 and a third that reads, 4 register files, carry set or clear | registers, fragments and memory agree until a marker or a named exception (`StateAgrees`), tracked carry and direction are true (`FlagsHonest`), branches, `LOOP*`, `JCXZ` and `SETcc` agree (`BranchesAgree`) |
| `ssa` | 6368 programs (lines, diamonds, loops, dead blocks, calls, interrupts), 4 inputs, 5 optimiser rounds as in the code | SSA form at every stage (`WellFormed`), every stage means what the guest program means (`Preserved`), so does the C (`Printed`) |
| `abi` | 2646 programs of three functions, some recursive, some calling in a loop, 8 rounds as in the code; every exception of the properties occurs | the rounds converge, no input that matters is left out (`InputsFound`), none is made up (`InputsExact` is both), the high half of a result is reported exactly if used (`DxReadsExact`), the three kinds of callers it names apart: without any one of them TLC finds it violated |
| `batch` | every image of 4 bytes over 6 instructions under 32 configurations; 7 images under 17 sets of options and 10 selections; 29 mistaken configurations under 10 command lines; 1536 images of 7 bytes with flag instructions and 864 with every kind of transfer, under 4 shapes of function with and without data or a jump table | what validation passes decodes to exactly its bytes (`PreflightSound`), the blocks of what decodes follow the code (`BlocksExact`), carry and direction are known at a block's start only if they are on every way there, and where no code is dead no less often (`FlagsEntryExact`), the ledger adds up (`LedgerBalances`), exit 0 means complete and without complaint, and only a code file that cannot be written takes a decompile run down (`ExitHonest`) |
| `dos` | stack of 6 words that wraps, 4 handles of which 1 a device, 1 file of 2 units, a hookable interrupt whose handler makes served calls and is interrupted again, timers of 5 and 7 µs per count over 27 µs | tracker complete (`TrackerExact`), a timer keeps time up to its overflow (`TimerExact`), interrupts invisible (`InterruptsInvisible`), `HandleTable` implemented |

Deadlock is checked in the exec, host, coverage, scan and batch runs (a program
that is done stutters there). It is off in `control_flow`, `isa`, `ssa`, `abi`:
these programs finish; and in `dos`: the machine may panic.

Why the bounds are enough. Two contexts give one nested call, the third one gives
a context between the innermost and the outermost, and the one without a near
magic address reaches the edge of the window; three frames are a hook, its callee
and a hook called by the callee. The driver's budgets are reached in
each instance, its contexts run out in `host` and its nesting cap is reached in
`host_overlay`, so both sides of each comparison are taken. Two places for two
overlays force an eviction. Two ranges and a third one inserted show every way
of touching: before, at either edge, inside, across both. Four bytes allow a
loop, two overlapping instructions, a branch into the middle of one, a
`push cs` followed by a call, and each of them at the end of a region, of data
and of the segment. Seven bytes put a start in the middle of its region, a branch
around a repeated string operation and a loop into one function. Five blocks are a loop with a conditional inside and an exit
after it, two nested loops, an if in an arm of an if, and every irreducible
graph of that size. A flag or a fragment is written by one instruction,
disturbed by a second and read by a third: hence three per block; at 2 bits per
byte every shift count below, at and above the width, and every sign, carry and
overflow combination occurs. Two functions are enough for a declaration to be
handed on, the third one shows that it travels, and a function that calls
itself makes the rounds meet their own result. Four handles with one device fill
up in three opens; six words of stack hold one interrupt frame, what its
handler pushes, and wrap within a second.

Fairness. `HydraExec`: weak fairness of the handover steps of the host's thread
and of each hook's thread: the OS schedules every runnable thread; nothing is
assumed of the guest or of what hooks do. `HostDriver`: weak fairness of the
host's steps that change its activations: each debugger command is answered or
times out. `FuncScan`: weak fairness of the only thread. The other modules are
straight-line programs whose last state is the question; they state no
liveness.

## 5. Proofs

Theorems hold for every value of the constants that the assumptions of the
modules admit; `PROJECT.json` lists them.

### Assumptions

* `HydraExec`: `ExecAssumption` (sizes are natural numbers, `RomSeg` is not
  `MagicSeg`, near ids fit the contexts, addresses are addresses),
  `LayoutAssumption` (an overlay's code is at the same offsets wherever it is
  placed, hooks and stubs are not in the overlay area, a stub is neither a hook
  nor a function a hook calls, no guest code lies in the far magic window) and
  `CallstackAssumption` (the callstack model has room for the calls the guest's
  stack has, code is above the load segment, call sites are not at hooks).
* `HostDriver`: sizes are natural numbers, names of functions, hooks and stubs
  are disjoint, hooks call what is callable.
* `SoundPorts` and `DosMachine`: periods and counter widths are positive, the
  stack has room for one interrupt frame, the standard handles fit the table.
* `Coverage`: `SpanAssumption`, `TextAssumption`, `FuncAssumption`: segments and
  offsets are natural numbers. Nothing is asked of the order, the overlap or the
  direction of regions.
* `Preflight` and `Batch`: `ImageAssumption` (the image has a byte), and
  `ScenarioAssumption`: configurations, images and command lines have their types.
  Nothing is asked of what a configuration says, of the image's instructions or of the
  flags and selections that come together.
* `FuncScan`: `ScanAssumption` (the segment is not empty, instructions have a
  length, calls a target) and `ConfigAssumption`. Of a configuration the latter
  asks what validation does (data and regions within one segment, one function per
  start) and one thing nothing validates: the entry of a function is not the
  start of another that has regions. `analysis_func_lookup` asks for entries
  first, would take the one for the other and walk it without its regions.

TLC evaluates all of them in the runs. Two theorems have a hypothesis beyond:
`SnapshotFaithfulAlways` and `DispatchDisciplineAlways` have `OvlHooks = {}`: no
hook is placed inside an overlay. With such hooks both properties fail, in the
ways section 7 tells of `overlay_classify` and of hooks that decline in a first
run; TLC checks both in `host`, which has no overlay hooks.

`NestingSafe` itself is conditional. The driver compares the guest's address with
its breakpoints only after an instruction, so a hooked function can be entered without
a dispatch in two ways: its return address is a hook's (the hook called it, or
called something that jumped to it), or a hook jumped to it. `HostNesting`
remembers either in `unseen` and promises nothing afterwards; without the condition TLC
violates each part but the last. Nothing else is excluded: calls and
jumps of guest code to hooked functions, hooks that call or jump to
unhooked ones, hooks that decline, overlays.

### Execution layer

`TypeCorrect`, `HandoverCorrect`, `OneRunnerAlways`, `ResultIsPostedAlways`,
`HandoverSafeAlways` (`HydraExecProofs`). The inductive invariant is `TypeOK`,
`HandoverInv` and `FrameInv`. `HandoverInv` says at which stage the
handover of the current context is, for each program counter of the host's
thread, and that all other contexts are parked. It is needed because
`OneRunner` says nothing of a thread that has posted and not yet released the
mutex: without the stages, a step of the host could find it anywhere.
`FrameInv` is needed for the type of the stack pointer when a hook's return
pops a frame. The proof goes action by action: guest steps leave the handover
alone (`GuestOutside`), and every other step touches one context
(`HandoverLocal`).

`ReturnsFoundAlways`, `HookDisciplineAlways`, `OverlayHooksSafeAlways`,
`StepsDisciplinedAlways`, `CoroutinesImplemented` (`HydraReturnsProofs`), from
`ExecCorrect`, which adds four parts to that invariant:

* `NestInv`, why a return address can be a context number. Contexts are taken
  lowest first, so it is not obvious that the lowest free one is above all that
  are in use. The suspended contexts are an initial segment `0 .. n-1`
  (`SuspendedInOrder`), and the magic frames on the guest's stack carry them in
  strictly growing order (`FramesInOrder`); a return therefore always gives back
  the last. Neither half is inductive without the other.
* `CodeInv`, where each frame returns to. A near return keeps CS, so whether it
  lands in code depends on frames further out, and the pager may have moved the
  overlay meanwhile. `ReturnSegments` says that there is a segment below each
  frame with which all of them fit; a push or a pop changes one element of that
  sequence, a move of an overlay none of those that matter (`maybe_reloc`).
* `CallstackInv`: between two steps of the host no event is pending in the
  callstack model, and it has room while the calls are within `MaxCalls`; hence
  its assertions never fire. The operators of `HydraCallstack` are evaluated on
  a record with symbolic stack, event by event.
* `FaultInv`: which limit it was when the process has ended.

The refinement maps the running coroutine to `cur` during a handover, and the stack
of suspended ones to the contexts of the magic frames, in their order, without
a hook that has just called until the host has taken its call. `CoroutinesImplemented` shows that
initial states map to initial states, and that each of the steps
between a dispatch and its result is a stutter but for the one that calls,
returns, starts or ends.

### Host driver

`TypeCorrect`, `SnapshotFaithfulAlways`, `DispatchDisciplineAlways`,
`OverlayMapFreshAlways` (`HostDriverProofs`), from `DriverSound`. `DriverInv` holds
whatever guest, hooks and overlay manager do and however commands fail:

* `ChainInv`, the shape of the driver's C stack: what calls what and where the
  caller waits (`Link`), and that depths grow, strictly above a trace (`Below`).
  An error or a capture unwinds everything; `Chain` says what that leaves.
* `AddrInv` and `PagerInv`: where the guest and its return addresses can be; a
  stub's address is on the stack only while its interrupt is served.
* `BpInv`: the driver's table is within the debugger's, the difference is
  breakpoints at overlay stubs, and every hook is armed once installation is over.
  It has a clause for each way of ending, since a failing command may leave the
  two apart in the middle of a loop over the table.
* `SameBytes`: the stubs of one overlay are patched together, which is why
  reading one of them suffices.

`DispatchDisciplineAlways` needs `DeclinedInv` besides: a stop is marked as
declined only when nothing is dispatched.

`NestingSafeAlways`: as long as nothing was entered unseen, `NestingSafe` says that *some*
order-preserving pairing of waiting traces with magic return addresses exists, that the
contexts in use are those of the magic addresses, that no magic address and
no tracked entry is executed, and that the nesting cap fires before contexts run
out. `NestInv` makes it inductive. `CallsAt`: each context waits once, between
the calls of two hooks there is guest code, and who stands at a hooked entry
was called. Without it, a trace could meet a hook before its first step, and a
declining hook would leave a tracked address to be executed (`Stepped`). `MagicInv`:
the guest is at a magic address exactly while a dispatch goes round its loop.
The step lemmas transport the pairing along pushes and pops of either stack
(`WaitsKept` and its companions), so that each action only says which it does. The last
part (`DepthBeforeContexts`) is the pigeonhole principle: contexts in use
are as many as traces, traces have different depths, and depths are at most
`MaxDepth`.

### Ranges and regions

`InsertSound`, `GapsExact`, `EffectiveRegionsExact`, `CodeRegionsExact`,
`CodeRegionsSeparate` (`RangeSetProofs`). Each says of an operation, for any input, which addresses its
result has: `insert` adds exactly the new range to a vector that is ascending and
never touches, and keeps it so; `gaps_within` gives exactly what no range has;
`effective_regions` gives exactly what the regions have, ascending and apart, in
whatever order, overlap or direction they come; `code_regions` exactly what they
have outside declared data, and no two of them have an address in common.

On a well-formed vector both predicates of the binary searches hold on a prefix
(`PartitionPoint`, by the least index that fails), so `lo` and `hi` delimit
exactly the ranges that meet the new one (`Touching`), and the splice is checked
index by index (`SplicedSound`).

The others are loops, folds in the model. What a fold returns is not had by
induction over the sequence but from the definition of the fold in the community
modules, a choice of a function on sets of indices: `FoldExists` builds that
function by counting up to the length (`CountUp`, least counterexample), `FoldTurns`
gives the value after each turn. Per loop there is a `...Turns` lemma, which names
what one turn does, and an invariant: `GapsSoFar` (the gaps so far are those below the
cursor), `Ordered` (insertion sort, standing for `slice::sort`), `MergedSound` (the
merged regions are apart, start where some region starts, and have what the
regions taken have). `SizeExact` says that the lengths of ranges
that are apart add up to the number of addresses in them.

### Coverage

`RangesAlwaysAgree`, `AlwaysAccounted` (`CoverageProofs`). The inductive invariant
is `SoFar` and `RangesSound`. `RangesSound` (known is the union of code and data)
differs from `RangesAgree` in speaking of all addresses, since an
insertion is described for all of them. `CodeSoFar` says that what `code` has
inside the span, together with what `todo` still holds, is the code of the
functions taken so far; a step from `todo` to `code` changes neither side, and the
next function adds what `CodeOfExact` says. Clipping loses nothing of the span
(`Clipped`). At the end code and data are disjoint, so the three counts add up
(`EveryByteOnce`), and `bytes_in`, which subtracts gaps from the length of the
span, counts what is covered (`BytesIn`).

### Function scan

`WalkExactAlways`, `ReportExactAlways` (`FuncScanProofs`). A program is chosen as
it is decoded, so both hold for every program, every overlap of
instructions and every order the queues can give. The inductive invariant of a walk is
`WalkInv`:

* `DoneInv`, why nothing is missed. Each way into an address (a queue entry, or
  an edge from an instruction that was read, after a `push cs` or not) has been walked or
  will be: the address has been read and its call, if it is one, noted for that
  way, or it is where the walk stands, or it is queued. That only the address
  counts for instructions and also the way for calls is what makes overlapping
  paths into a call right.
* `ReachInv`, why nothing is too much: any set that has the start and is
  closed under the edges of what was read has all that was read or is pending.
  The exception in it, pending addresses that are not `Allowed`, is needed: the walk queues
  some and fails there.
* `SeenInv`: the bytes read are code. `InstrFits` derives it from the bound the decoder gets
  (`decode_end`): up to it there is no start of data and no end of the region.
  `StraightOn` is where `effective_regions` matters: a block goes on into the
  next byte of the same region only, and no region begins where another ends
  (`EndsOpen`, from `EffectiveRegionsExact`).
* `ArrivedInv`, `KindsInv`, `CallsInv`, `LargestInv`, `ReturnsInv`: what is noted
  comes from what was read, so that `WalkReported` can conclude `Exact` when the
  queue is empty. A finished report stays exact, since later walks add
  instructions and change none (`ReportedKept`).

`GraphInv` does the same for the outer queue: the discovered functions are those
queued, the one being walked and those with a result, and any set that has the
configured functions and what its members call has all of them.

### Batch driver

`ValidationSound`, `PreflightSoundAlways`, `LedgerAlwaysBalances`,
`ExitAlwaysHonest` (`BatchProofs`). `ValidationSound` is about the validator alone: a function whose report has no error
has an end, and all its regions lie in the image, so that neither
`Spec::from_func` nor `infer_spec` refuses it. The inductive invariant of a
run is `IInv`, a conjunct per phase:

* `Prechecked`: without a failure of the preflight every selected function is
  sound. It carries the verdict to `SelectCode`, whose `Spec::from_func` is not
  inside the catch; that the number of global failures is positive exactly when the
  preflight failed needs that a report is finite (`ReportFinite`).
* `Balanced`: what was attempted and what is left to do add up to the number of
  functions asked for, and that is what was configured, although
  `configure_report_segments` books them under the segment selected and `infer_specs`
  books its failures under the segment of the region that fails. Hence the sums over
  all segments (`TotalMore`, `TotalSplits`); `--analyze` books under one segment and
  adds up row by row (`Summed`: after k functions a row has as many attempts as the
  first k have functions in its segment).
* `TextInOrder`: as long as nothing failed, the text has the first functions asked
  for and the others are left, in order.

Lookups by segment, `infer_specs` and the bookings are folds; their `...Turns` lemmas
name one turn each, as for the regions above. A sum is a fold over a finite set, which
`SumStep` takes apart by one element that is chosen, and `SubsetInduction` puts together.

`PreflightSoundAlways` adds what validation and decoding make of the same bytes. They
do not read the same ranges: `validate_code` decodes each piece of code from
its start, `decode_regions` decodes the piece with the function's start in two
halves, the later one first. `LinearSteps` unrolls a decode that does not fail: after
every address the instructions found fill exactly the bytes before the next
one (`DecodedTo`), hence all of the range (`LinearExact`). `RunsAgree` runs two
decodes side by side: once the second waits for the same instruction it adds the same ones,
as long as none passes its end. Hence a decode is that of the bytes before any
of its instructions followed by that of the bytes from there (`SplitDecode`), and
what validation saw of a piece, its last instruction and its branch targets,
holds of both halves (`SplitSound`). The assumption `Aligned` enters here and nowhere else.
The pieces are apart (`CodeRegionsSeparate`), so are the chunks
(`ChunksApart`), and their instructions together have every byte once (`JoinedTiles`).

### DOS machine

`TimersAlwaysExact`, `InterruptsAlwaysInvisible`, `TrackerAlwaysExact`,
`HandleTableImplemented`, `MachineSound` (`DosMachineProofs`).

* `PortsInv`: a timer's counter and the remainder it has not counted yet are
  functions of the port clock and the last start, running or not
  (`KeepsTime`). A masked or stopped timer must be covered, since it is read later.
  The arithmetic (`CountsOn`, `CarriedDivision`) is about quotients modulo a width.
* `StackInv`: the stack pointer is minus the number of live words modulo the size of the
  stack; a frame that is `whole` has its three words where they were pushed, and fewer
  words than the stack has were pushed over them. Frames are three words apart at least, so a push
  disturbs none but those it comes round to, which stop being whole.
* `TrackerExact` is inductive as it stands once the memory has its type.
* `HandleTableImplemented` goes service by service; the
  entries are the abstract table, AX is the abstract result.

### Only model-checked

Liveness (`WakeupsArrive`, `DispatchesEnd`, `ScanEnds`), out of the prover's reach.
`BlocksExact` and `FlagsEntryExact` of the batch run, which are about all paths
through the instructions decoded. The modules of the decompiler (`ControlFlow` to
`AbiInference`) walk trees and chains of operands with recursive operators and
compare executions: what a recursive definition computes for every input is proved
by induction over data, which is out of the prover's reach, so they stay with TLC.

## 6. Not modelled

`components` in `PROJECT.json` has every part with its status.

* For good: pure formatting and I/O (confgen, the annotation printer, process
  control, printing), table-driven decoding (`asm/decode.rs`), bsl (text in,
  tree out), vendored code (moo), test lanes (parity, the single-step test
  policy of emu86).
* Planned: raw-code slots, call, return and jump tables and interrupt handlers
  of the callstack model (in the operators, but empty in the instances), the
  trace sink, the debugger client's text protocol, snapshot files, the native
  host.
* Of the decompiler: the `args` column of `--infer-abi` (a scan of raw instructions
  around calls), call arguments by heuristics, struct members, pointer
  annotations and frame layout, INS and OUTS, decimal adjust.
* Of the block graph: overlays, where every far jump is unmodelled, and malformed
  jump tables, which panic.
* Of the batch driver: executables with an overlay table, the trace mode.

## 7. Observations

Behaviour met while modelling that differs from a comment or a document, or that a
maintainer would want to know. The models reproduce it or exclude it as said in
section 3; no run depends on it.

Exec layer and host driver

* `pthread_cond_wait` is called once and without a predicate in `run_wait`
  (`exec.c:154`) and in both call seams (`machine.c:41,70`). POSIX allows it to
  return unsignalled; the hook then continues before its callee has returned,
  which `hydra_machine.h:72-73` rules out.
* A hook that makes more than one call leaves entries in the callstack model,
  which aborts the process when it is full (`callstack.c:84`) although the
  guest's stack is shallow.
* A hook on a function whose first instruction is a call or a return fails the
  assert of `callstack.c:368`, since the event of that instruction is pending.
* A guest jump to `ffff:0000` while context 0 waits is taken for its return.
* A traced guest function that jumps to a hooked one: the hook returns straight
  to the magic address, and the trace single-steps before it compares again
  (`host_driver.c:390`; `TESTING.md:151` and `HOST_DESIGN.md:254` say hooks fire
  there).
* A hook that declines in the first native run of an overlay body is dispatched
  again and again until the step budget errors (`host_driver.c:778`;
  `OVERLAY_DESIGN.md:45-46`).
* `trace_to_return` steps once before it looks for a hook, so a hook that
  calls a hooked function directly, or jumps to one, runs the original's first
  instruction. These are the cases `NestingSafe` excludes by `unseen`.
* `overlay_classify` (`host_driver.c:590`) forgets the breakpoint of an
  evicted overlay without deleting it from the debugger, and a capture taken
  later contains it.

Function scan

* A direct call past the segment's end, or below its first byte, takes the scan
  down (`analyze.rs:137,217-221`, `binary.rs:78`) instead of yielding one error.
* The return kind of a function is that of the first exit in the order blocks
  are *taken*; the comments at `func_details.rs:35-38` and `:252` call that
  ascending block order. With `2: jcc 4`, `3: retf`, `4: jmp 1`, `1: ret`
  the block at 3 is taken before the one at 1.
* An indirect call in code that two blocks share is counted twice in
  `indirect_calls`.

Structuring

* `infer_if` may take the entry of the body it works on into an arm; the
  scheduler then finds no entry and panics.
* In graphs with a jump table above a cycle a case may exit to an element that is
  collapsed while other cases remain, and the scheduler panics ("tried to
  schedule an unavailable block"): blocks `1: table(2, 4)`, `2: jcc 4 else 3`, `3: jcc 3 else 4`.
* A jump table on a cycle that is not the loop's entry may be captured by its own
  case, and `insert_switch` panics when it removes the header
  (`control_flow.rs:284,195`). With `1: jmp 3`, `2: table(3, 2)`, `3: jmp 2` the loop at 3
  hides the one at 2. These three are what `PanicExplained` allows.
* The generator prints no `break` (`gen.rs:439-458`): a case whose body reached its
  end would run on into the next one, and the last one into the marker that the
  default is unreachable. It happens where a case leads to a loop,
  which was collapsed before and cannot be taken along: `1: table(2, 2)`, `2: jmp 3`, `3: jmp 3`. `FlowPreserved` excludes such blocks
  (`RunsOn`).

Emulator and lowering

* Byte ADD, INC and ADC followed by je or jne (`opt.rs:848`), and signed compares
  of bytes: the C compares zero-extended bytes as `int16_t`. The sign condition
  shifts by 15 for bytes, too.
* DEC and INC followed by jb, ja, jbe, jae read the operands of a subtraction,
  as if CF had been written. SBB followed by jb or jl compares the intermediate.
  NEG and the multiplications leave the flags value of the instruction before.
* SAHF is resolved only right after `mov ah, x`.
* Byte DIV and IDIV put the upper byte of the remainder into AH
  (`ir_build.rs:2035-2037`; the comment at 1991-2004 calls the remainder exact); XCHG
  with memory computes the address from the swapped register; negative 8-bit
  immediates of PUSH and IMUL are not sign-extended in the IR; shift counts of
  32 and more are not masked in the C. No marker announces any of these
  (`Excepted` in `IsaAgreement`).

Block graph and flag analyses

* Code before the start that falls back into it becomes a predecessor of the
  entry block if nothing branches to the start (`ir_build.rs:593`). That block is
  sealed when it is made, reads registers as entry values and takes DF to be
  clear, and `analyze_carry` relies on its having no predecessor
  (`ir_build.rs:3389`): with `std` on that way around, a string operation at the
  start keeps its upward model (the exception in `FlagsEntryExact`).
* A branch into the middle of an instruction of its own function gets an empty block
  and no warning: `target_in_range` asks for the region only (the exception in
  `BlocksExact`).
* Instructions behind a return stay in its block and may end it with a jump, so
  that a block has a predecessor control never comes from; the same goes for a
  block nothing reaches. Both analyses then know less than they could.
* The carry is unknown at the head of a loop that leaves it alone (the least
  solution), the direction is not (the greatest).

Optimiser and printed C

* Common subexpressions are merged across an INT (`opt.rs:658`), whose handler
  may change every register and the data segment.
* The order of the exit write-back is decided before stack slots are lifted
  (`ir_build.rs:1831`): with `push bx; pop cx; dec bx` CX gets the new BX. A swap of
  registers by moves is a cycle, and its fallback order loses a value.
* `mem_symbol_to_ref` lifts stack slots across a block with a call; with
  `mov bx, ax`, a call and a use of BX, the C reads AX after the call.
* Phis are assigned one after another, so a swap in a loop and a phi that reads
  another of its block see the new value; a load with one use is printed after
  a store that stood behind it (both are the exceptions in `Printed`).
* `forward_store_to_load` ignores aliasing (a FIXME says so) and widths;
  `phi_common_subexpr` repeats loads after stores; symbol coalescing shrinks a
  symbol on a nested access and panics on an overlap of three bytes;
  `block_last` in `fin.rs` does not skip trailing Nops.

ABI inference

* The scan for reads of DX after a call compares a pool number with a position
  (`caller_reads_dx_after_call`); when the call's block has a phi made after the
  call, which stands in front of it, the scan stops at the call itself
  (`LatePhi`).
* DX handed on to a callee that declares it is missed: the write of the register
  ends the scan before its operand is looked at (`HandsDxOn`). DX saved in BX and
  used only after the next call is not followed. `mov bx, dx` before a call and
  a use after it count as a read of the result (`TakesDx`).
* An input that is only handed on to a callee is not followed, although
  `abi.rs:9-11` describes it. Running out of rounds is a warning only.

Batch driver

* Validation decodes a region from its start, `decode_regions` splits it at the
  function's start; that this is an instruction boundary is not checked (the
  exception `Aligned` in `PreflightSound`).
* `--emit-code` together with an `--emit-*` flag of an earlier stage leaves an
  empty file and exit code 0. `--emit-ast` with `--report` counts as translated.
* `--infer-abi` builds functions outside the catch that `app_infer.rs:31-33`
  describes, and the code file is written outside the catch of the batch loop:
  a path that cannot be written ends the process with exit code 101 after a clean
  report (`write_to_path`; both are exceptions in `ExitHonest`).
* A far call to a near function in code that is not reachable passes validation
  and panics in lowering, where it is contained.

DOS services

* Seek method 1 counts from the end and 2 from the position; DOS has it the other
  way round. Read and ioctl leave CF as it was. A missing file, a full table and a
  closed handle panic; close takes any handle, the standard ones included.
* A program that saves and restores a default vector has set it.
* The 257th palette colour panics. The AdLib counter goes on from 0 after an
  overflow, where the comment at `adlib.rs:87` has it reloaded; `TimerExact` says
  nothing of the counter after the overflow. File reads bypass the write
  tracker. The mouse handler is recorded and never called.
