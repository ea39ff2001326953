----------------------------- MODULE SoundPorts -----------------------------
(***************************************************************************)
(* The I/O ports of the emulator (emu86/io.rs): the two timers of the      *)
(* AdLib card (adlib.rs) and the VGA palette registers (video.rs).  Every  *)
(* port access first lets TICK microseconds pass on the timers.            *)
(***************************************************************************)
EXTENDS Naturals

CONSTANTS
  TICK,          \* microseconds a port access stands for
  Timers,        \* the timers of the card
  Period(_),     \* microseconds per count of a timer
  COUNTS,        \* values of a counter: it overflows to 0
  ENTRIES,       \* colours of the palette
  Reloads,       \* the reload values the guest uses
  Configs,       \* the bytes it writes to the control register
  MaxTime        \* bound on the elapsed microseconds

ASSUME PortsAssumption ==
  /\ TICK \in Nat \ {0} /\ COUNTS \in Nat \ {0} /\ ENTRIES \in Nat \ {0}
  /\ \A t \in Timers : Period(t) \in Nat \ {0}
  /\ Reloads \subseteq 0..COUNTS - 1

VARIABLES
  timer,         \* the Timer of each
  reg_addr,      \* the register the next data write goes to
  palette_write_index,
  ports,         \* "ok", or "panic"
  now, since     \* history: the elapsed time; when and from what each timer was started

portVars == <<timer, reg_addr, palette_write_index, ports, now, since>>

TimerNew == [accum |-> 0, counter |-> 0, reload |-> 0,
             masked |-> FALSE, running |-> FALSE, expired |-> FALSE]
Idle == [at |-> 0, from |-> 0, clean |-> FALSE]

PortsInit ==
  /\ timer = [t \in Timers |-> TimerNew]
  /\ reg_addr = 0 /\ palette_write_index = 0 /\ ports = "ok"
  /\ now = 0 /\ since = [t \in Timers |-> Idle]

-----------------------------------------------------------------------------
\* The counts that elapse, and whether they take the counter through 0.
tick_us(t) ==
  LET x == timer[t]
      n == (x.accum + TICK) \div Period(t)
      y == [x EXCEPT !.accum = (@ + TICK) % Period(t)]
  IN IF ~x.running THEN y
     ELSE [y EXCEPT !.counter = (@ + n) % COUNTS,
                    !.expired = @ \/ (~x.masked /\ x.counter + n >= COUNTS)]

\* A mask set while the timer runs ends the stretch a reader can reason about.
StartedBy(t, c, x) ==
  IF c.reset THEN [since[t] EXCEPT !.clean = FALSE]
  ELSE IF t \in c.start /\ ~x.running
       THEN [at |-> now + TICK, from |-> x.reload, clean |-> ~x.expired /\ t \notin c.mask]
  ELSE [since[t] EXCEPT !.clean = @ /\ t \notin c.mask]

timer_configure_restarts(c, x, t) ==
  IF c.reset THEN [x EXCEPT !.expired = FALSE]
  ELSE [x EXCEPT !.masked = t \in c.mask, !.running = t \in c.start,
                 !.counter = IF t \in c.start THEN x.reload ELSE @]
timer_configure(c, x, t) ==
  IF c.reset THEN [x EXCEPT !.expired = FALSE]
  ELSE [x EXCEPT !.masked = t \in c.mask, !.running = t \in c.start,
                 !.counter = IF t \in c.start /\ ~x.running THEN x.reload ELSE @]

Tick == [t \in Timers |-> tick_us(t)]
PortAccess == ports = "ok" /\ now + TICK <= MaxTime /\ now' = now + TICK

\* Port 0x388: the register number; the numbers above 4 go to the synthesizer.
write_addr == \E a \in {2, 3, 4, 5} :
  /\ PortAccess /\ reg_addr' = a /\ timer' = Tick
  /\ UNCHANGED <<palette_write_index, ports, since>>

\* Port 0x389: a reload value, the control register, or a synthesizer register.
write_register ==
  /\ PortAccess
  /\ UNCHANGED <<reg_addr, palette_write_index, ports>>
  /\ \/ /\ reg_addr - 1 \in Timers
        /\ \E v \in Reloads : timer' = [Tick EXCEPT ![reg_addr - 1].reload = v]
        /\ UNCHANGED since
     \/ /\ reg_addr = 4
        /\ \E c \in Configs :
             LET after == Tick
             IN /\ timer' = [t \in Timers |-> timer_configure(c, after[t], t)]
                /\ since' = [t \in Timers |-> StartedBy(t, c, after[t])]
     \/ /\ reg_addr \notin {2, 3, 4}
        /\ timer' = Tick /\ UNCHANGED since

\* Ports 0x388 and 0x3da: the timers' status and the input status; 0x20, 0x40
\* and 0x43 accept a byte and drop it.
PortPolled ==
  PortAccess /\ timer' = Tick /\ UNCHANGED <<reg_addr, palette_write_index, ports, since>>

video_palette_set_write_index ==
  /\ PortAccess /\ timer' = Tick
  /\ \E e \in 0..ENTRIES - 1 : palette_write_index' = e * 3
  /\ UNCHANGED <<reg_addr, ports, since>>
\* The index runs on past the last colour, and the write there panics.
video_palette_write ==
  /\ PortAccess /\ timer' = Tick
  /\ IF palette_write_index < ENTRIES * 3
     THEN palette_write_index' = palette_write_index + 1 /\ UNCHANGED ports
     ELSE ports' = "panic" /\ UNCHANGED palette_write_index
  /\ UNCHANGED <<reg_addr, since>>

PortsNext == \/ write_addr \/ write_register \/ PortPolled
             \/ video_palette_set_write_index \/ video_palette_write

-----------------------------------------------------------------------------
Counted(t) == now \div Period(t) - since[t].at \div Period(t)

\* A timer keeps time against the port clock, not against the accesses that
\* happen to be made: from its start to its overflow its counter is the reload
\* value it was started with plus the whole periods of the clock since, whatever
\* else was written in between (a start of a running timer, a new reload value,
\* the other timer).  A timer started clean and never masked or reset has
\* expired exactly when the counts from its reload value to the overflow have
\* passed.  Nothing is said of the counter after the overflow: the comment on
\* the field reload has it loaded again there, tick_us goes on from 0.
TimerExact == \A t \in Timers : timer[t].running =>
  /\ Counted(t) < COUNTS - since[t].from =>
       timer[t].counter = since[t].from + Counted(t)
  /\ since[t].clean =>
       (timer[t].expired <=> Counted(t) >= COUNTS - since[t].from)
=============================================================================
