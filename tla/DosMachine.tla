----------------------------- MODULE DosMachine -----------------------------
(***************************************************************************)
(* The emulated machine as a DOS program sees it: software interrupts and  *)
(* their return (interrupt.rs), the vector services and the file services  *)
(* of INT 21h (dos.rs, dos_filesystem.rs), the stack and the write tracker *)
(* of memory (machine.rs, mem.rs), and the I/O ports (SoundPorts).  The    *)
(* guest is any program made of the instruction classes in uses; it keeps  *)
(* the one discipline a handler must keep, to pop what it pushed before it *)
(* returns.                                                                *)
(***************************************************************************)
EXTENDS SoundPorts, Integers, Sequences, FiniteSets

CONSTANTS
  StackWords,         \* words of the stack segment: SP wraps
  MaxLive,            \* bound on the words pushed and not popped
  FILE_HANDLES_MAX,   \* slots of the handle table
  STD_HANDLES,        \* the slots of the standard devices
  Files, Len_(_),     \* the files under the root directory, and their lengths
  Hookable,           \* interrupt numbers the guest may set a vector for
  Handlers,           \* addresses of the guest's handlers
  Seeks,              \* seek offsets
  Programs            \* the sets of instruction classes to explore

ASSUME MachineAssumption ==
  /\ StackWords \in Nat /\ StackWords >= 3 /\ MaxLive \in Nat
  /\ FILE_HANDLES_MAX \in Nat /\ STD_HANDLES \in 0..FILE_HANDLES_MAX
  /\ {"closed", "device"} \intersect Files = {} /\ \A f \in Files : Len_(f) \in Nat
  /\ Seeks \subseteq Int

VARIABLES
  uses,       \* what the guest's instructions are
  m,          \* cs, ip, flags, sp, the memory cells and the write tracker
  vectors,    \* interrupt_vectors: an address, or "default"
  handles,    \* the handle table
  ax,         \* the result of the last file service
  status,     \* "running", "panic", or "lost": executing what is not code
  frames,     \* history: the interrupts that have not returned
  live,       \* history: the words on the stack
  snap, past  \* history: memory when tracking began, the cells written around it

dosVars == <<m, vectors, handles, ax, status, frames, live, snap, past>>
vars == <<uses, dosVars, portVars>>

BUFFER == StackWords          \* the cell a file is read into
Cells == 0..BUFFER

\* A word remembers what it was pushed as.
Ip(n) == <<"ip", n>>
Cs(c) == <<"cs", c>>
Flags(f) == <<"flags", f>>
Data(d) == <<"data", d>>
Off == <<>>     \* no write tracking
NoEntry == [file |-> "closed", pos |-> 0]
Device == [file |-> "device", pos |-> 0]
Slots == 0..FILE_HANDLES_MAX - 1

Flag(c, i, b) == [CF |-> c, IFL |-> i, one |-> b]

Init ==
  /\ uses \in Programs
  /\ m = [cs |-> Cs("main"), ip |-> Ip(0), f |-> Flag(FALSE, TRUE, FALSE), sp |-> 0,
          mem |-> [a \in Cells |-> Data(0)], tracked |-> Off, tracking |-> FALSE]
  /\ vectors = [n \in Hookable |-> "default"]
  /\ handles = [h \in Slots |-> IF h < STD_HANDLES THEN Device ELSE NoEntry]
  /\ ax = 0 /\ status = "running" /\ frames = <<>> /\ live = 0
  /\ snap = m.mem /\ past = {}
  /\ PortsInit

-----------------------------------------------------------------------------
(* Memory and the stack. *)

\* The tracker keeps what a cell held before its first write.
Noted(x, a) == [k \in DOMAIN x.tracked \union {a} |-> IF k = a THEN x.mem[a] ELSE x.tracked[k]]
write_abs_latest(x, a, v) ==
  [x EXCEPT !.mem[a] = v,
            !.tracked = IF x.tracking THEN Noted(x, a) ELSE @]
write_abs(x, a, v) ==
  [x EXCEPT !.mem[a] = v,
            !.tracked = IF x.tracking /\ a \notin DOMAIN @ THEN Noted(x, a) ELSE @]

stack_push(x, v) ==
  LET sp == (x.sp + StackWords - 1) % StackWords
  IN write_abs([x EXCEPT !.sp = sp], sp, v)
Popped(x) == x.mem[x.sp]
Drop(x) == [x EXCEPT !.sp = (@ + 1) % StackWords]

\* IP is past the instruction before the instruction executes.
Fetched == [m EXCEPT !.ip = Ip((@[2] + 1) % 2)]

-----------------------------------------------------------------------------
(* Interrupts. *)

interrupt_save(x) ==
  LET flags == stack_push(x, Flags([x.f EXCEPT !.one = TRUE]))
      cs == stack_push([flags EXCEPT !.f.IFL = FALSE], x.cs)
  IN stack_push(cs, x.ip)

interrupt_restore_flags_kept(x) ==
  LET y == Drop(x)  z == Drop(y)
  IN [Drop(z) EXCEPT !.ip = Popped(x), !.cs = Popped(y)]
interrupt_restore(x) ==
  LET y == Drop(x)  z == Drop(y)
  IN [Drop(z) EXCEPT !.ip = Popped(x), !.cs = Popped(y), !.f = Popped(z)[2]]

\* A frame whose words the stack has wrapped around onto is not whole.
Reached(n) ==
  [i \in DOMAIN frames |-> [frames[i] EXCEPT !.whole = @ /\ n < frames[i].base - 2 + StackWords]]

\* INT n where the guest set the vector: its handler runs on the saved state.
Interrupt(n) ==
  /\ vectors[n] # "default" /\ live + 3 <= MaxLive
  /\ m' = [interrupt_save(Fetched) EXCEPT !.cs = Cs(vectors[n]), !.ip = Ip(0)]
  /\ frames' = Append(Reached(live + 3),
                 [cs |-> m.cs, ip |-> Fetched.ip, f |-> m.f, sp |-> m.sp,
                  base |-> live + 3, whole |-> TRUE])
  /\ live' = live + 3
  /\ status' = IF vectors[n] \in Handlers THEN "running" ELSE "lost"
  /\ UNCHANGED <<vectors, handles, ax, snap, past>>

\* INT n where it did not: the state is saved and restored around nothing,
\* and the service runs on the caller's registers and flags.
Served == interrupt_restore(interrupt_save(Fetched))
Service(n) ==
  /\ n \in Hookable => vectors[n] = "default"
  /\ live + 3 <= MaxLive
  /\ frames' = Reached(live + 3)
  /\ UNCHANGED live

\* IRET.  From a frame that is not whole the guest returns to wherever the
\* words that replaced it point.
Iret ==
  /\ frames # <<>> /\ frames[Len(frames)].base = live
  /\ frames' = SubSeq(frames, 1, Len(frames) - 1)
  /\ live' = live - 3
  /\ IF frames[Len(frames)].whole
     THEN m' = interrupt_restore(Fetched) /\ UNCHANGED status
     ELSE status' = "lost" /\ UNCHANGED m
  /\ UNCHANGED <<vectors, handles, ax, snap, past>>

-----------------------------------------------------------------------------
(* The other instructions of the guest. *)

Push ==
  /\ live < MaxLive
  /\ m' = stack_push(Fetched, Data(1))
  /\ frames' = Reached(live + 1) /\ live' = live + 1
  /\ UNCHANGED <<vectors, handles, ax, status, snap, past>>
Pop ==
  /\ live > (IF frames = <<>> THEN 0 ELSE frames[Len(frames)].base)
  /\ m' = Drop(Fetched) /\ live' = live - 1
  /\ UNCHANGED <<vectors, handles, ax, status, frames, snap, past>>
SetFlag ==
  /\ m' \in {[Fetched EXCEPT !.f.CF = TRUE], [Fetched EXCEPT !.f.IFL = ~@]}
  /\ UNCHANGED <<vectors, handles, ax, status, frames, live, snap, past>>

\* The test runner arms the tracker when it has set up the machine.
begin_write_tracking ==
  /\ ~m.tracking /\ m.mem = snap
  /\ m' = [m EXCEPT !.tracking = TRUE, !.tracked = Off]
  /\ snap' = m.mem /\ past' = {}
  /\ UNCHANGED <<vectors, handles, ax, status, frames, live>>

-----------------------------------------------------------------------------
(* INT 21h. *)

\* 25h: the address may be one 35h returned, the default vector's included.
dos_set_interrupt_vector == \E n \in Hookable, a \in Handlers \union {"bios"} :
  /\ Service("dos") /\ m' = Served
  /\ vectors' = [vectors EXCEPT ![n] = a]
  /\ UNCHANGED <<handles, ax, status, snap, past>>

ServicePanics(n) ==
  /\ n \in Hookable => vectors[n] = "default"
  /\ status' = "panic"
  /\ UNCHANGED <<m, vectors, handles, ax, frames, live, snap, past>>
DosPanic == ServicePanics("dos")

\* A service that answers in registers only, and one that clears CF as well.
Answered(n) == Service(n) /\ m' = Served /\ UNCHANGED <<vectors, handles, ax, status, snap, past>>
Succeeded(n) ==
  /\ Service(n) /\ m' = [Served EXCEPT !.f.CF = FALSE]
  /\ UNCHANGED <<vectors, handles, ax, status, snap, past>>

\* 2ah, 2ch and 30h; 35h; 4ah.
dos_get_system == Answered("dos")
dos_get_interrupt_vector == Answered("dos")
dos_mem_resize == Succeeded("dos")

find_unused_handle_by_count ==
  {Cardinality({h \in Slots : handles[h] # NoEntry})} \intersect Slots
find_unused_handle ==
  {h \in Slots : handles[h] = NoEntry /\ \A k \in 0..h - 1 : handles[k] # NoEntry}

create_handle(h, f) == [handles EXCEPT ![h] = [file |-> f, pos |-> 0]]
remove_handle(h) == [handles EXCEPT ![h] = NoEntry]

\* 3dh: a path outside drive D, a missing file and a full table panic.
dos_open_file ==
  \/ DosPanic
  \/ \E f \in Files, h \in find_unused_handle :
       /\ Service("dos")
       /\ handles' = create_handle(h, f)
       /\ ax' = h /\ m' = [Served EXCEPT !.f.CF = FALSE]
       /\ UNCHANGED <<vectors, status, snap, past>>

\* 3eh: an index in range is removed whether it is open or not.
dos_close_file == \E h \in Slots :
  /\ Service("dos")
  /\ handles' = remove_handle(h)
  /\ m' = [Served EXCEPT !.f.CF = FALSE]
  /\ UNCHANGED <<vectors, ax, status, snap, past>>

\* A handle that is out of range, closed or a device panics.
Opened == {h \in Slots : handles[h] \notin {NoEntry, Device}}

\* 3fh: the bytes go to memory past the tracker, and CF is left alone.
dos_read_file ==
  \/ Opened # Slots /\ DosPanic
  \/ \E h \in Opened, n \in 1..2 :
       LET left == Len_(handles[h].file) - handles[h].pos
           len == IF left < 0 THEN 0 ELSE IF n < left THEN n ELSE left
       IN /\ Service("dos")
          /\ handles' = [handles EXCEPT ![h].pos = @ + len]
          /\ ax' = len
          /\ m' = IF len = 0 THEN Served ELSE [Served EXCEPT !.mem[BUFFER] = Data(handles[h].pos + 1)]
          /\ past' = IF len = 0 THEN past ELSE past \union {BUFFER}
          /\ UNCHANGED <<vectors, status, snap>>

\* 42h: method 1 counts from the end of the file and 2 from the position.
SeekTo(h, method, off) ==
  CASE method = 0 -> off
    [] method = 1 -> Len_(handles[h].file) + off
    [] method = 2 -> handles[h].pos + off
dos_seek_file == \E h \in Opened, method \in 0..2, off \in Seeks :
  LET p == SeekTo(h, method, off)
  IN IF p < 0 THEN DosPanic
     ELSE /\ Service("dos")
          /\ handles' = [handles EXCEPT ![h].pos = p]
          /\ ax' = p /\ m' = [Served EXCEPT !.f.CF = FALSE]
          /\ UNCHANGED <<vectors, status, snap, past>>

\* 43h, 44h, and the services of INT 1ah, 10h and 33h.
dos_get_or_set_file_attrs == Succeeded("dos") \/ DosPanic
dos_ioctl == ({h \in Slots : handles[h] # NoEntry} # {} /\ Answered("dos")) \/ DosPanic
bios_time_of_day == Answered("time") \/ ServicePanics("time")
video_interrupt_0x10 == Answered("video") \/ ServicePanics("video")
mouse_interrupt_0x33 == Answered("mouse") \/ ServicePanics("mouse")

\* 40h, 4ch, any other function, and the interrupts with no default handler.
Unserved == DosPanic

-----------------------------------------------------------------------------
Cpu == \/ \E n \in Hookable : Interrupt(n)
       \/ Iret \/ Push \/ Pop \/ SetFlag
       \/ dos_set_interrupt_vector \/ dos_get_interrupt_vector \/ dos_mem_resize
       \/ begin_write_tracking
FileCalls == \/ dos_open_file \/ dos_close_file \/ dos_read_file \/ dos_seek_file
             \/ dos_get_or_set_file_attrs \/ dos_ioctl \/ Unserved
OtherCalls == \/ dos_get_system \/ bios_time_of_day \/ video_interrupt_0x10
              \/ mouse_interrupt_0x33
Next ==
  /\ UNCHANGED uses
  /\ \/ status = "running" /\ "cpu" \in uses /\ Cpu /\ UNCHANGED portVars
     \/ status = "running" /\ "files" \in uses /\ (FileCalls \/ OtherCalls) /\ UNCHANGED portVars
     \/ status = "running" /\ "ports" \in uses /\ PortsNext /\ UNCHANGED dosVars

Spec == Init /\ [][Next]_vars

-----------------------------------------------------------------------------
\* An interrupt is invisible to the code it interrupts.  IRET resumes the
\* instruction after the INT with the stack pointer and the flags of the
\* INT (bit 1 set), however the handlers nested and whatever they pushed, as
\* long as the stack did not wrap onto the frame.  A served INT continues at the
\* next instruction with the stack and IF as they were: only CF, the answer
\* of the service, may differ.
Resumed ==
  LET top == frames[Len(frames)]
  IN top.whole => /\ m'.cs = top.cs /\ m'.ip = top.ip /\ m'.sp = top.sp
                  /\ m'.f = [top.f EXCEPT !.one = TRUE]
Continued ==
  /\ m'.cs = m.cs /\ m'.ip = Fetched.ip /\ m'.sp = m.sp /\ m'.f.IFL = m.f.IFL
  /\ \A i \in DOMAIN frames' : frames'[i].whole =>
       /\ m'.mem[(frames'[i].sp + StackWords - 2) % StackWords] = frames'[i].cs
       /\ m'.mem[(frames'[i].sp + 2 * StackWords - 3) % StackWords] = frames'[i].ip
ServedCall == \/ dos_set_interrupt_vector \/ dos_get_interrupt_vector \/ dos_mem_resize
              \/ FileCalls \/ OtherCalls
InterruptsInvisible ==
  [][ /\ Len(frames') < Len(frames) => Resumed
      /\ (ServedCall /\ status' = "running") => Continued ]_dosVars

\* The write tracker tells every change since it was armed: a cell that
\* differs from what it held then, other than by a file read, is in the
\* tracker with the value it held then, however often it was written since.
TrackerExact == m.tracking =>
  /\ \A a \in DOMAIN m.tracked : m.tracked[a] = snap[a]
  /\ \A a \in Cells \ past : m.mem[a] # snap[a] => a \in DOMAIN m.tracked

\* The handle table keeps the promise of DOS file handles (HandleTable): no
\* open takes over a handle that is held, no service moves the position of
\* another handle.
Files_ == INSTANCE HandleTable WITH
  Handles <- Slots, Devices <- 0..STD_HANDLES - 1, Len <- Len_,
  Closed <- NoEntry, table <- handles, got <- ax
ImplementsHandleTable == Files_!Spec
=============================================================================
