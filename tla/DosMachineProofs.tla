-------------------------- MODULE DosMachineProofs --------------------------
(***************************************************************************)
(* What the emulated machine promises a DOS program, for every stack size, *)
(* handle table, set of handlers and timer: an interrupt is invisible to   *)
(* the code it interrupts, the write tracker tells every change, the       *)
(* timers keep time, and the file services implement HandleTable.          *)
(***************************************************************************)
EXTENDS DosMachine, Integers, SequenceTheorems, TLAPS

-----------------------------------------------------------------------------
(* The ports: an inductive invariant of the port accesses alone. *)

\* Division by a positive divisor.
LEMMA DivisionFacts ==
  ASSUME NEW n \in Int, NEW d \in Nat \ {0}
  PROVE  /\ n \div d \in Int /\ n % d \in 0..d - 1
         /\ n = d * (n \div d) + (n % d)
OBVIOUS

\* Quotient and remainder are the only ones.
LEMMA DivisionUnique ==
  ASSUME NEW n \in Int, NEW d \in Nat \ {0}, NEW q \in Int, NEW r \in 0..d - 1,
         n = d * q + r
  PROVE  n \div d = q /\ n % d = r
<1> DEFINE p == n \div d
           e == q - p
<1>1. p \in Int /\ n % d \in 0..d - 1 /\ n = d * p + (n % d)
  BY DivisionFacts
<1>2. e \in Int /\ d * e = (n % d) - r
  BY <1>1
<1>3. ASSUME e >= 1 PROVE FALSE
  <2> HIDE DEF e
  <2>1. d * e >= d
    BY <1>2, <1>3
  <2> QED BY <2>1, <1>1, <1>2
<1>4. ASSUME e <= -1 PROVE FALSE
  <2> HIDE DEF e
  <2>1. d * e <= -d
    BY <1>2, <1>4
  <2> QED BY <2>1, <1>1, <1>2
<1>5. e = 0
  BY <1>2, <1>3, <1>4
<1> QED BY <1>1, <1>2, <1>5

\* What a remainder carries into a later division is all of the dividend.
LEMMA CarriedDivision ==
  ASSUME NEW a \in Int, NEW b \in Int, NEW d \in Nat \ {0}
  PROVE  /\ (a + b) \div d = (a \div d) + (((a % d) + b) \div d)
         /\ (a + b) % d = ((a % d) + b) % d
<1> DEFINE q == a \div d
           r == (a % d) + b
           k == r \div d
           w == r % d
<1>1. q \in Int /\ r \in Int /\ a + b = d * q + r
  BY DivisionFacts
<1>2. k \in Int /\ w \in 0..d - 1 /\ r = d * k + w
  <2> HIDE DEF r
  <2> QED BY <1>1, DivisionFacts
<1>3. q + k \in Int /\ a + b = d * (q + k) + w
  <2> HIDE DEF q, r, k, w
  <2>1. d * (q + k) = d * q + d * k
    BY <1>1, <1>2
  <2> QED BY <1>1, <1>2, <2>1
<1>4. (a + b) \div d = q + k /\ (a + b) % d = w
  <2> HIDE DEF q, k, w
  <2> QED BY <1>2, <1>3, DivisionUnique
<1> QED BY <1>4

LEMMA SmallRemainder ==
  ASSUME NEW d \in Nat \ {0}, NEW n \in 0..d - 1
  PROVE  n % d = n
<1>1. n = d * 0 + n
  OBVIOUS
<1> QED BY <1>1, DivisionUnique

-----------------------------------------------------------------------------
TimerType == [accum : Nat, counter : 0..COUNTS - 1, reload : 0..COUNTS - 1,
              masked : BOOLEAN, running : BOOLEAN, expired : BOOLEAN]
StretchType == [at : Nat, from : 0..COUNTS - 1, clean : BOOLEAN]

\* A timer x keeps time n over the stretch s: beside what TimerExact says, the
\* part of a count it has not counted yet is the clock's, running or not, its
\* counter is from + Passed modulo COUNTS past an overflow too, and nothing has
\* masked it since it was started clean.
Passed(s, n, t) == (n \div Period(t)) - (s.at \div Period(t))
KeepsTime(x, s, n, t) ==
  /\ x \in TimerType /\ s \in StretchType /\ s.at <= n
  /\ x.accum = n % Period(t)
  /\ x.running => x.counter = (s.from + Passed(s, n, t)) % COUNTS
  /\ x.running /\ s.clean =>
       /\ ~x.masked
       /\ x.expired <=> Passed(s, n, t) >= COUNTS - s.from

PortsTypeOK ==
  /\ timer \in [Timers -> TimerType] /\ since \in [Timers -> StretchType]
  /\ reg_addr \in Nat /\ palette_write_index \in 0..ENTRIES * 3
  /\ ports \in {"ok", "panic"} /\ now \in Nat
PortsInv ==
  /\ PortsTypeOK
  /\ \A t \in Timers : KeepsTime(timer[t], since[t], now, t)

-----------------------------------------------------------------------------
\* One tick of a running timer: with the counts the clock passes, the counter
\* moves on modulo COUNTS and passes 0 when its distance from the reload value
\* reaches COUNTS.
LEMMA CountsOn ==
  ASSUME COUNTS \in Nat \ {0}, NEW from \in 0..COUNTS - 1, NEW c \in Nat, NEW n \in Nat
  PROVE  /\ (((from + c) % COUNTS) + n) % COUNTS = (from + (c + n)) % COUNTS
         /\ ((from + c) % COUNTS) + n >= COUNTS \/ c >= COUNTS - from
              <=> c + n >= COUNTS - from
<1>1. (((from + c) % COUNTS) + n) % COUNTS = (from + (c + n)) % COUNTS
  <2>1. from + c \in Int /\ n \in Int /\ (from + c) + n = from + (c + n)
    OBVIOUS
  <2>2. ((from + c) + n) % COUNTS = (((from + c) % COUNTS) + n) % COUNTS
    BY <2>1, CarriedDivision, Zenon
  <2> QED BY <2>1, <2>2
<1>2. CASE from + c < COUNTS
  <2>1. (from + c) % COUNTS = from + c
    BY <1>2, SmallRemainder
  <2> QED BY <1>1, <2>1
<1>3. CASE from + c >= COUNTS
  BY <1>1, <1>3
<1> QED BY <1>2, <1>3

LEMMA ClockForward ==
  ASSUME NEW P \in Nat \ {0}, NEW a \in Nat, NEW b \in Nat
  PROVE  (a + b) \div P >= a \div P /\ a \div P \in Nat
<1>1. a \div P \in Int /\ (a % P) \in 0..P - 1 /\ a = P * (a \div P) + (a % P)
  BY DivisionFacts
<1>2. ((a % P) + b) \div P \in Nat
  <2> DEFINE r == (a % P) + b
             k == r \div P
  <2>1. r \in Nat
    BY <1>1
  <2>2. k \in Int /\ (r % P) \in 0..P - 1 /\ r = P * k + (r % P)
    <3> HIDE DEF r
    <3> QED BY <2>1, DivisionFacts
  <2>3. ASSUME k <= -1 PROVE FALSE
    <3> HIDE DEF k, r
    <3>1. P * k <= -P
      BY <2>2, <2>3
    <3> QED BY <3>1, <2>1, <2>2
  <2> QED BY <2>2, <2>3
<1>3. ASSUME a \div P <= -1 PROVE FALSE
  <2> DEFINE q == a \div P
  <2> HIDE DEF q
  <2>1. q \in Int /\ q <= -1 /\ a = P * q + (a % P)
    BY <1>1, <1>3 DEF q
  <2>2. P * q <= -P
    BY <2>1
  <2> QED BY <1>1, <2>1, <2>2
<1>4. (a + b) \div P = (a \div P) + (((a % P) + b) \div P)
  <2>1. a \in Int /\ b \in Int
    OBVIOUS
  <2> QED BY <2>1, CarriedDivision, Zenon
<1> QED BY <1>1, <1>2, <1>3, <1>4

\* A later time: what passed of the stretch is a count, and grows.
LEMMA PassedOn ==
  ASSUME PortsAssumption, NEW t \in Timers, NEW s \in StretchType,
         NEW n \in Nat, s.at <= n, NEW b \in Nat
  PROVE  /\ Passed(s, n, t) \in Nat
         /\ (((n % Period(t)) + b) \div Period(t)) \in Nat
         /\ Passed(s, n + b, t) = Passed(s, n, t) + (((n % Period(t)) + b) \div Period(t))
         /\ (n + b) % Period(t) = ((n % Period(t)) + b) % Period(t)
<1> DEFINE P == Period(t)
<1>1. P \in Nat \ {0}
  BY DEF PortsAssumption
<1> HIDE DEF P
<1>2. s.at \in Nat /\ n - s.at \in Nat
  BY DEF StretchType
<1>3. n = s.at + (n - s.at)
  BY <1>2
<1>4. n \div P >= s.at \div P /\ s.at \div P \in Nat
  BY <1>1, <1>2, <1>3, ClockForward, Zenon
<1>5. n \div P \in Int /\ n % P \in 0..P - 1
  BY <1>1, DivisionFacts
<1>6. (n % P) + b \in Nat
  BY <1>1, <1>5
<1>7. (((n % P) + b) \div P) \in Nat
  <2>1. (0 + ((n % P) + b)) \div P >= 0 \div P /\ 0 \div P \in Nat
    BY <1>1, <1>6, ClockForward
  <2>2. 0 + ((n % P) + b) = (n % P) + b /\ (((n % P) + b) \div P) \in Int
    BY <1>1, <1>6, DivisionFacts
  <2> QED BY <2>1, <2>2
<1>8. /\ (n + b) \div P = (n \div P) + (((n % P) + b) \div P)
      /\ (n + b) % P = ((n % P) + b) % P
  <2>1. n \in Int /\ b \in Int
    OBVIOUS
  <2> QED BY <1>1, <2>1, CarriedDivision, Zenon
<1> QED BY <1>4, <1>5, <1>7, <1>8 DEF Passed, P

\* A tick keeps the time (Timer::tick_us, adlib.rs).
LEMMA TickKeepsTime ==
  ASSUME PortsAssumption, now \in Nat, NEW t \in Timers,
         KeepsTime(timer[t], since[t], now, t)
  PROVE  /\ KeepsTime(tick_us(t), since[t], now + TICK, t)
         /\ tick_us(t).reload = timer[t].reload
<1> DEFINE P == Period(t)
           x == timer[t]
           s == since[t]
           n == (x.accum + TICK) \div P
           c == Passed(s, now, t)
<1>1. /\ x \in TimerType /\ s \in StretchType /\ TICK \in Nat /\ s.at <= now
      /\ P \in Nat \ {0} /\ COUNTS \in Nat \ {0} /\ x.accum = now % P
  BY DEF KeepsTime, PortsAssumption
<1>2. /\ c \in Nat /\ n \in Nat
      /\ Passed(s, now + TICK, t) = c + n
      /\ (now + TICK) % P = (x.accum + TICK) % P
  <2> HIDE DEF x, s
  <2> QED BY <1>1, PassedOn
<1>3. (now + TICK) % P \in Nat
  <2>1. now + TICK \in Int
    BY <1>1
  <2> HIDE DEF P
  <2>2. (now + TICK) % P \in 0..P - 1
    BY <1>1, <2>1, DivisionFacts, Zenon
  <2> QED BY <1>1, <2>2
<1>4. /\ (x.counter + n) % COUNTS \in 0..COUNTS - 1
      /\ x.counter \in Nat
  <2>1. x.counter \in Nat /\ x.counter + n \in Int
    BY <1>1, <1>2 DEF TimerType
  <2> QED BY <1>1, <2>1, DivisionFacts
<1>5. ASSUME x.running
      PROVE  /\ (x.counter + n) % COUNTS = (s.from + (c + n)) % COUNTS
             /\ x.counter + n >= COUNTS \/ c >= COUNTS - s.from
                  <=> c + n >= COUNTS - s.from
  <2>1. x.counter = (s.from + c) % COUNTS
    BY <1>5 DEF KeepsTime
  <2>2. s.from \in 0..COUNTS - 1
    BY <1>1 DEF StretchType
  <2> QED BY <1>1, <1>2, <2>1, <2>2, CountsOn
<1> HIDE DEF c, n
<1>6. CASE ~x.running
  <2>1. tick_us(t) = [x EXCEPT !.accum = (x.accum + TICK) % P]
    BY <1>6 DEF tick_us
  <2>2. tick_us(t) \in TimerType
    BY <1>1, <1>2, <1>3, <2>1 DEF TimerType
  <2>3. s.at <= now + TICK
    BY <1>1 DEF StretchType
  <2>4. /\ tick_us(t).accum = (x.accum + TICK) % P /\ tick_us(t).reload = x.reload
        /\ tick_us(t).running = x.running
    BY <1>1, <2>1 DEF TimerType
  <2> QED BY <1>1, <1>2, <1>6, <2>2, <2>3, <2>4 DEF KeepsTime
<1>7. CASE x.running
  <2>1. tick_us(t) = [x EXCEPT !.accum = (x.accum + TICK) % P,
                               !.counter = (x.counter + n) % COUNTS,
                               !.expired = x.expired \/ (~x.masked /\ x.counter + n >= COUNTS)]
    BY <1>1, <1>7 DEF tick_us, n, TimerType
  <2>2. tick_us(t) \in TimerType
    BY <1>1, <1>2, <1>3, <1>4, <2>1 DEF TimerType
  <2>3. s.at <= now + TICK
    BY <1>1 DEF StretchType
  <2>4. x.running /\ s.clean => ~x.masked /\ (x.expired <=> c >= COUNTS - s.from)
    BY DEF KeepsTime, c
  <2>5. tick_us(t).expired <=> x.expired \/ (~x.masked /\ x.counter + n >= COUNTS)
    BY <1>1, <2>1 DEF TimerType
  <2>6. /\ tick_us(t).accum = (x.accum + TICK) % P /\ tick_us(t).reload = x.reload
        /\ tick_us(t).counter = (x.counter + n) % COUNTS
        /\ tick_us(t).masked = x.masked /\ tick_us(t).running = x.running
    BY <1>1, <2>1 DEF TimerType
  <2> QED BY <1>1, <1>2, <1>5, <1>7, <2>2, <2>3, <2>4, <2>5, <2>6 DEF KeepsTime
<1> QED BY <1>6, <1>7

\* A write to the control register keeps the time of the stretch it begins or
\* goes on with (Timer::configure and the register dispatch, adlib.rs).
LEMMA ConfigureKeepsTime ==
  ASSUME PortsAssumption, now \in Nat, NEW t \in Timers, NEW c, NEW x,
         KeepsTime(x, since[t], now + TICK, t)
  PROVE  KeepsTime(timer_configure(c, x, t), StartedBy(t, c, x), now + TICK, t)
<1> DEFINE s == since[t]
           y == timer_configure(c, x, t)
           z == StartedBy(t, c, x)
           n == now + TICK
<1>1. /\ x \in TimerType /\ s \in StretchType /\ s.at <= n /\ n \in Nat
      /\ x.accum = n % Period(t)
      /\ Period(t) \in Nat \ {0} /\ COUNTS \in Nat \ {0}
  BY DEF KeepsTime, PortsAssumption
<1>2. x.running => x.counter = (s.from + Passed(s, n, t)) % COUNTS
  BY DEF KeepsTime
<1>3. x.running /\ s.clean => ~x.masked /\ (x.expired <=> Passed(s, n, t) >= COUNTS - s.from)
  BY DEF KeepsTime
<1>4. CASE c.reset
  <2>1. y = [x EXCEPT !.expired = FALSE] /\ z = [s EXCEPT !.clean = FALSE]
    BY <1>4 DEF timer_configure, StartedBy
  <2>2. /\ y \in TimerType /\ z \in StretchType
        /\ y.accum = x.accum /\ y.counter = x.counter /\ y.running = x.running
        /\ z.at = s.at /\ z.from = s.from /\ ~z.clean
    BY <1>1, <2>1 DEF TimerType, StretchType
  <2>3. Passed(z, n, t) = Passed(s, n, t)
    BY <2>2 DEF Passed
  <2> HIDE DEF y, z, s, n
  <2>4. KeepsTime(y, z, n, t)
    BY <1>1, <1>2, <2>2, <2>3 DEF KeepsTime
  <2> QED BY <2>4 DEF y, z, n
<1> DEFINE k == t \in c.mask
<1>5. CASE ~c.reset /\ t \in c.start /\ ~x.running
  <2> DEFINE e == ~x.expired /\ ~k
  <2>1. /\ y = [x EXCEPT !.masked = k, !.running = TRUE, !.counter = x.reload]
        /\ z = [at |-> n, from |-> x.reload, clean |-> e]
    BY <1>5 DEF timer_configure, StartedBy
  <2>2. k \in BOOLEAN /\ e \in BOOLEAN /\ (e <=> ~x.expired /\ ~k)
    OBVIOUS
  <2>3. /\ y \in TimerType /\ z \in StretchType
        /\ y.accum = x.accum /\ y.counter = x.reload /\ y.running = TRUE
        /\ y.expired = x.expired /\ y.masked = k
        /\ z.at = n /\ z.from = x.reload /\ z.clean = e
    <3> HIDE DEF k, e, y, z, n, s
    <3> QED BY <1>1, <2>1, <2>2 DEF TimerType, StretchType
  <2>4. n \div Period(t) \in Int
    <3>1. n \in Int
      BY <1>1
    <3> HIDE DEF n
    <3> QED BY <1>1, <3>1, DivisionFacts
  <2>5. Passed(z, n, t) = 0
    <3> HIDE DEF z, n
    <3> QED BY <2>3, <2>4 DEF Passed
  <2>6. x.reload \in 0..COUNTS - 1 /\ x.reload % COUNTS = x.reload
    BY <1>1, SmallRemainder DEF TimerType
  <2> HIDE DEF y, z, s, n, k, e
  <2>7. KeepsTime(y, z, n, t)
    BY <1>1, <2>2, <2>3, <2>5, <2>6 DEF KeepsTime, TimerType
  <2> QED BY <2>7 DEF y, z, n
<1> DEFINE e == s.clean /\ ~k
<1>6. k \in BOOLEAN /\ e \in BOOLEAN /\ (e <=> s.clean /\ ~k)
  OBVIOUS
<1>7. CASE ~c.reset /\ t \in c.start /\ x.running
  <2>1. /\ y = [x EXCEPT !.masked = k, !.running = TRUE, !.counter = x.counter]
        /\ z = [s EXCEPT !.clean = e]
    BY <1>7 DEF timer_configure, StartedBy
  <2>2. /\ y \in TimerType /\ z \in StretchType
        /\ y.accum = x.accum /\ y.counter = x.counter /\ y.expired = x.expired
        /\ y.masked = k
        /\ z.at = s.at /\ z.from = s.from /\ z.clean = e
    <3> HIDE DEF k, e, y, z, n, s
    <3> QED BY <1>1, <1>6, <2>1 DEF TimerType, StretchType
  <2>3. Passed(z, n, t) = Passed(s, n, t)
    BY <2>2 DEF Passed
  <2> HIDE DEF y, z, s, n, k, e
  <2>4. KeepsTime(y, z, n, t)
    BY <1>1, <1>2, <1>3, <1>6, <1>7, <2>2, <2>3 DEF KeepsTime
  <2> QED BY <2>4 DEF y, z, n
<1>8. CASE ~c.reset /\ t \notin c.start
  <2>1. (t \in c.start) = FALSE
    BY <1>8
  <2>2. /\ y = [x EXCEPT !.masked = k, !.running = t \in c.start, !.counter = x.counter]
        /\ z = [s EXCEPT !.clean = e]
    BY <1>8 DEF timer_configure, StartedBy
  <2>3. y = [x EXCEPT !.masked = k, !.running = FALSE, !.counter = x.counter]
    BY <2>1, <2>2, Zenon
  <2>4. /\ y \in TimerType /\ z \in StretchType
        /\ y.accum = x.accum /\ y.running = FALSE /\ z.at = s.at
    <3> HIDE DEF k, e, y, z, n, s
    <3> QED BY <1>1, <1>6, <2>2, <2>3 DEF TimerType, StretchType
  <2> HIDE DEF y, z, s, n
  <2>5. KeepsTime(y, z, n, t)
    BY <1>1, <2>4 DEF KeepsTime
  <2> QED BY <2>5 DEF y, z, n
<1> QED BY <1>4, <1>5, <1>7, <1>8

LEMMA ReloadKeepsTime ==
  ASSUME NEW t \in Timers, NEW s, NEW n, NEW x, KeepsTime(x, s, n, t), NEW v \in 0..COUNTS - 1
  PROVE  KeepsTime([x EXCEPT !.reload = v], s, n, t)
<1> DEFINE y == [x EXCEPT !.reload = v]
<1>1. /\ y \in TimerType
      /\ y.accum = x.accum /\ y.counter = x.counter /\ y.running = x.running
      /\ y.masked = x.masked /\ y.expired = x.expired
  BY DEF KeepsTime, TimerType
<1> HIDE DEF y
<1>2. KeepsTime(y, s, n, t)
  BY <1>1 DEF KeepsTime
<1> QED BY <1>2 DEF y

-----------------------------------------------------------------------------
(* The steps. *)

\* The timers after the tick of a port access that happens now.
LEMMA AllTick ==
  ASSUME PortsAssumption, PortsInv, PortAccess
  PROVE  /\ now' = now + TICK /\ now' \in Nat
         /\ Tick \in [Timers -> TimerType]
         /\ \A t \in Timers : Tick[t] = tick_us(t) /\ KeepsTime(Tick[t], since[t], now', t)
<1>1. now' = now + TICK /\ now' \in Nat
  BY DEF PortAccess, PortsInv, PortsTypeOK, PortsAssumption
<1>2. ASSUME NEW t \in Timers
      PROVE  KeepsTime(tick_us(t), since[t], now + TICK, t) /\ tick_us(t) \in TimerType
  <2>1. KeepsTime(timer[t], since[t], now, t) /\ now \in Nat
    BY DEF PortsInv, PortsTypeOK
  <2>2. KeepsTime(tick_us(t), since[t], now + TICK, t)
    BY <2>1, TickKeepsTime
  <2> QED BY <2>2 DEF KeepsTime
<1> QED BY <1>1, <1>2 DEF Tick

LEMMA PortsStart == ASSUME PortsAssumption, PortsInit PROVE PortsInv
<1>1. \A t \in Timers : timer[t] = TimerNew /\ since[t] = Idle
  BY DEF PortsInit
<1>2. TimerNew \in TimerType /\ Idle \in StretchType
  BY DEF TimerNew, Idle, TimerType, StretchType, PortsAssumption
<1>3. PortsTypeOK
  BY <1>2 DEF PortsInit, PortsTypeOK, PortsAssumption
<1>4. ASSUME NEW t \in Timers PROVE KeepsTime(timer[t], since[t], now, t)
  <2>1. 0 % Period(t) = 0
    BY SmallRemainder DEF PortsAssumption
  <2> QED BY <1>1, <1>2, <2>1 DEF KeepsTime, PortsInit, TimerNew, Idle
<1> QED BY <1>3, <1>4 DEF PortsInv

\* Every port access keeps the invariant.
LEMMA PortsKept == ASSUME PortsAssumption, PortsInv, PortsNext PROVE PortsInv'
<1>1. PortAccess
  BY DEF PortsNext, write_addr, write_register, PortPolled,
         video_palette_set_write_index, video_palette_write
<1>2. /\ now' = now + TICK /\ now' \in Nat
      /\ Tick \in [Timers -> TimerType]
      /\ \A t \in Timers : Tick[t] = tick_us(t) /\ KeepsTime(Tick[t], since[t], now', t)
  BY <1>1, AllTick
<1>3. /\ reg_addr' \in Nat /\ palette_write_index' \in 0..ENTRIES * 3
      /\ ports' \in {"ok", "panic"}
  <2> USE DEF PortsInv, PortsTypeOK, PortsAssumption
  <2>1. CASE write_addr
    BY <2>1 DEF write_addr, PortAccess
  <2>2. CASE write_register
    BY <2>2 DEF write_register
  <2>3. CASE PortPolled
    BY <2>3 DEF PortPolled
  <2>4. CASE video_palette_set_write_index
    BY <2>4 DEF video_palette_set_write_index
  <2>5. CASE video_palette_write
    BY <2>5 DEF video_palette_write
  <2> QED BY <2>1, <2>2, <2>3, <2>4, <2>5 DEF PortsNext
<1>4. SUFFICES /\ timer' \in [Timers -> TimerType] /\ since' \in [Timers -> StretchType]
               /\ \A t \in Timers : KeepsTime(timer'[t], since'[t], now', t)
  BY <1>2, <1>3 DEF PortsInv, PortsTypeOK, KeepsTime, Passed
<1>5. CASE timer' = Tick /\ since' = since
  BY <1>2, <1>5 DEF PortsInv, PortsTypeOK
<1>6. CASE \E v \in Reloads : /\ reg_addr - 1 \in Timers /\ since' = since
                              /\ timer' = [Tick EXCEPT ![reg_addr - 1].reload = v]
  <2>1. PICK v \in Reloads : /\ reg_addr - 1 \in Timers /\ since' = since
                             /\ timer' = [Tick EXCEPT ![reg_addr - 1].reload = v]
    BY <1>6
  <2>2. v \in 0..COUNTS - 1
    BY DEF PortsAssumption
  <2>3. ASSUME NEW t \in Timers
        PROVE  KeepsTime(timer'[t], since'[t], now', t) /\ timer'[t] \in TimerType
    <3>1. CASE t = reg_addr - 1
      <4>1. timer'[t] = [Tick[t] EXCEPT !.reload = v] /\ since'[t] = since[t]
        BY <1>2, <2>1, <3>1
      <4>2. KeepsTime([Tick[t] EXCEPT !.reload = v], since[t], now', t)
        BY <1>2, <2>2, ReloadKeepsTime
      <4> QED BY <4>1, <4>2 DEF KeepsTime
    <3>2. CASE t # reg_addr - 1
      <4>1. timer'[t] = Tick[t] /\ since'[t] = since[t]
        BY <1>2, <2>1, <3>2
      <4> QED BY <1>2, <4>1 DEF KeepsTime
    <3> QED BY <3>1, <3>2
  <2>4. timer' \in [Timers -> TimerType]
    BY <1>2, <2>1, <2>3
  <2> QED BY <2>1, <2>3, <2>4 DEF PortsInv, PortsTypeOK
<1>7. CASE \E c \in Configs :
             /\ timer' = [t \in Timers |-> timer_configure(c, Tick[t], t)]
             /\ since' = [t \in Timers |-> StartedBy(t, c, Tick[t])]
  <2>1. PICK c \in Configs :
          /\ timer' = [t \in Timers |-> timer_configure(c, Tick[t], t)]
          /\ since' = [t \in Timers |-> StartedBy(t, c, Tick[t])]
    BY <1>7
  <2>2. ASSUME NEW t \in Timers
        PROVE  KeepsTime(timer_configure(c, Tick[t], t), StartedBy(t, c, Tick[t]), now', t)
    <3>1. KeepsTime(Tick[t], since[t], now + TICK, t) /\ now \in Nat
      BY <1>2 DEF PortsInv, PortsTypeOK
    <3>2. KeepsTime(timer_configure(c, Tick[t], t), StartedBy(t, c, Tick[t]), now + TICK, t)
      BY <3>1, ConfigureKeepsTime
    <3> QED BY <1>2, <3>2
  <2>3. \A t \in Timers : /\ timer_configure(c, Tick[t], t) \in TimerType
                          /\ StartedBy(t, c, Tick[t]) \in StretchType
    BY <2>2 DEF KeepsTime
  <2> QED BY <2>1, <2>2, <2>3
<1>8. \/ timer' = Tick /\ since' = since
      \/ \E v \in Reloads : /\ reg_addr - 1 \in Timers /\ since' = since
                            /\ timer' = [Tick EXCEPT ![reg_addr - 1].reload = v]
      \/ \E c \in Configs :
             /\ timer' = [t \in Timers |-> timer_configure(c, Tick[t], t)]
             /\ since' = [t \in Timers |-> StartedBy(t, c, Tick[t])]
  <2>1. CASE write_addr
    BY <2>1 DEF write_addr
  <2>2. CASE write_register
    BY <2>2 DEF write_register
  <2>3. CASE PortPolled
    BY <2>3 DEF PortPolled
  <2>4. CASE video_palette_set_write_index
    BY <2>4 DEF video_palette_set_write_index
  <2>5. CASE video_palette_write
    BY <2>5 DEF video_palette_write
  <2> QED BY <2>1, <2>2, <2>3, <2>4, <2>5 DEF PortsNext
<1> QED BY <1>5, <1>6, <1>7, <1>8

LEMMA PortsIdle == ASSUME PortsInv, UNCHANGED portVars PROVE PortsInv'
BY DEF PortsInv, PortsTypeOK, portVars, KeepsTime, Passed

\* What the invariant is for.
LEMMA TimersExact == ASSUME PortsInv PROVE TimerExact
<1> SUFFICES ASSUME NEW t \in Timers, timer[t].running
             PROVE  /\ Counted(t) < COUNTS - since[t].from =>
                         timer[t].counter = since[t].from + Counted(t)
                    /\ since[t].clean =>
                         (timer[t].expired <=> Counted(t) >= COUNTS - since[t].from)
  BY DEF TimerExact
<1>1. KeepsTime(timer[t], since[t], now, t) /\ Counted(t) = Passed(since[t], now, t)
  BY DEF PortsInv, Counted, Passed
<1>2. /\ since[t] \in StretchType /\ since[t].from \in 0..COUNTS - 1
      /\ since[t].at <= now /\ now \in Nat /\ COUNTS \in Nat \ {0}
  BY <1>1, PortsAssumption DEF KeepsTime, StretchType, PortsInv, PortsTypeOK
<1>3. Counted(t) \in Nat
  BY <1>1, <1>2, PassedOn, PortsAssumption
<1>4. ASSUME Counted(t) < COUNTS - since[t].from
      PROVE  timer[t].counter = since[t].from + Counted(t)
  <2>1. since[t].from + Counted(t) \in 0..COUNTS - 1
    BY <1>2, <1>3, <1>4
  <2>2. (since[t].from + Counted(t)) % COUNTS = since[t].from + Counted(t)
    BY <1>2, <2>1, SmallRemainder
  <2> QED BY <1>1, <2>2 DEF KeepsTime
<1> QED BY <1>1, <1>4 DEF KeepsTime

-----------------------------------------------------------------------------
(* Types. *)

Code == {"main"} \union Handlers \union {"bios", "default"}
FlagType == [CF : BOOLEAN, IFL : BOOLEAN, one : BOOLEAN]
IpType == {Ip(n) : n \in {0, 1}}
CsType == {Cs(c) : c \in Code}
SpType == 0..StackWords - 1

\* A cell holds any word, and the tracker any cells.
MemoryOK(mem) == mem = [a \in Cells |-> mem[a]]
MachineOK(x) ==
  /\ x = [cs |-> x.cs, ip |-> x.ip, f |-> x.f, sp |-> x.sp, mem |-> x.mem,
          tracked |-> x.tracked, tracking |-> x.tracking]
  /\ x.cs \in CsType /\ x.ip \in IpType /\ x.f \in FlagType /\ x.sp \in SpType
  /\ MemoryOK(x.mem) /\ DOMAIN x.tracked \subseteq Cells
  /\ x.tracking \in BOOLEAN

FrameType == [cs : CsType, ip : IpType, f : FlagType, sp : SpType, base : Nat, whole : BOOLEAN]
FileType == [file : Files, pos : Nat]
EntryType == FileType \union {NoEntry, Device}

DosTypeOK ==
  /\ MachineOK(m)
  /\ vectors \in [Hookable -> Handlers \union {"bios", "default"}]
  /\ handles \in [Slots -> EntryType] /\ ax \in Nat
  /\ status \in {"running", "panic", "lost"}
  /\ frames \in Seq(FrameType) /\ live \in Nat
  /\ MemoryOK(snap) /\ past \subseteq {BUFFER}

-----------------------------------------------------------------------------
(* The stack. *)

\* The stack pointer when n words are on the stack.
SpAt(n) == (-n) % StackWords

\* A frame lies where its three words were pushed, and the stack under a whole
\* one has not come round to them: they hold what the interrupt saved.
Holds(fr, mem) ==
  /\ mem[SpAt(fr.base - 2)] = Flags([fr.f EXCEPT !.one = TRUE])
  /\ mem[SpAt(fr.base - 1)] = fr.cs
  /\ mem[SpAt(fr.base)] = fr.ip
FrameHolds(fr, n, mem) ==
  /\ fr.base >= 3 /\ fr.base <= n /\ fr.sp = SpAt(fr.base - 3)
  /\ fr.whole => n < fr.base - 2 + StackWords /\ Holds(fr, mem)
StackHolds(fs, n, mem) ==
  /\ \A i \in 1..Len(fs) : FrameHolds(fs[i], n, mem)
  /\ \A i, j \in 1..Len(fs) : i < j => fs[i].base + 3 <= fs[j].base
StackInv == m.sp = SpAt(live) /\ StackHolds(frames, live, m.mem)

\* The guest can run on until it is sent where no code is.
DosInv == DosTypeOK /\ (status # "lost" => StackInv) /\ TrackerExact

-----------------------------------------------------------------------------
(* The stack wraps. *)

LEMMA Periodic ==
  ASSUME NEW W \in Nat \ {0}, NEW a \in Int
  PROVE  (a + W) % W = a % W
<1> DEFINE q == a \div W
           r == a % W
<1>1. q \in Int /\ r \in 0..W - 1 /\ a = W * q + r
  BY DivisionFacts
<1> HIDE DEF q, r
<1>2. W * (q + 1) = W * q + W
  BY <1>1
<1>3. a + W = W * (q + 1) + r /\ q + 1 \in Int /\ a + W \in Int
  BY <1>1, <1>2
<1>4. (a + W) % W = r
  BY <1>1, <1>3, DivisionUnique
<1> QED BY <1>4 DEF r

LEMMA SpMoves ==
  ASSUME NEW n \in Int, NEW k \in Int
  PROVE  /\ SpAt(n) \in SpType
         /\ (SpAt(n) + k) % StackWords = SpAt(n - k)
         /\ SpAt(n) = SpAt(n + StackWords)
<1>1. StackWords \in Nat \ {0}
  BY MachineAssumption
<1>2. -n \in Int /\ -n - StackWords \in Int /\ (-n) + k = -(n - k) /\ (-n - StackWords) + StackWords = -n
      /\ -n - StackWords = -(n + StackWords)
  BY <1>1
<1>3. ((-n) + k) % StackWords = (((-n) % StackWords) + k) % StackWords
  BY <1>1, <1>2, CarriedDivision, Zenon
<1>4. (-n) % StackWords \in 0..StackWords - 1
  BY <1>1, <1>2, DivisionFacts, Zenon
<1>5. ((-n - StackWords) + StackWords) % StackWords = (-n - StackWords) % StackWords
  BY <1>1, <1>2, Periodic, Zenon
<1> QED BY <1>2, <1>3, <1>4, <1>5 DEF SpAt, SpType

\* Where the pushes, the pops and a frame's words are.
LEMMA SpSteps ==
  ASSUME NEW n \in Nat
  PROVE  /\ (SpAt(n) + StackWords - 1) % StackWords = SpAt(n + 1)
         /\ (SpAt(n) + StackWords - 2) % StackWords = SpAt(n + 2)
         /\ (SpAt(n) + 2 * StackWords - 3) % StackWords = SpAt(n + 3)
         /\ (SpAt(n) + 1) % StackWords = SpAt(n - 1)
         /\ SpAt(n) \in SpType
<1>1. StackWords \in Nat \ {0} /\ n \in Int /\ 1 \in Int
  BY MachineAssumption
<1>2. /\ StackWords - 1 \in Int /\ StackWords - 2 \in Int /\ 2 * StackWords - 3 \in Int
      /\ n + 1 - StackWords \in Int /\ n + 2 - StackWords \in Int
      /\ n + 3 - StackWords \in Int /\ n + 3 - 2 * StackWords \in Int
  BY <1>1
<1>3. SpAt(n) \in SpType /\ SpAt(n) \in Int
  BY <1>1, SpMoves DEF SpType
<1>4. (SpAt(n) + (StackWords - 1)) % StackWords = SpAt(n - (StackWords - 1))
  BY <1>1, <1>2, SpMoves, Zenon
<1>5. (SpAt(n) + (StackWords - 2)) % StackWords = SpAt(n - (StackWords - 2))
  BY <1>1, <1>2, SpMoves, Zenon
<1>6. (SpAt(n) + (2 * StackWords - 3)) % StackWords = SpAt(n - (2 * StackWords - 3))
  BY <1>1, <1>2, SpMoves, Zenon
<1>7. (SpAt(n) + 1) % StackWords = SpAt(n - 1)
  BY <1>1, SpMoves, Zenon
<1>8. /\ SpAt(n + 1 - StackWords) = SpAt((n + 1 - StackWords) + StackWords)
      /\ SpAt(n + 2 - StackWords) = SpAt((n + 2 - StackWords) + StackWords)
      /\ SpAt(n + 3 - StackWords) = SpAt((n + 3 - StackWords) + StackWords)
      /\ SpAt(n + 3 - 2 * StackWords) = SpAt((n + 3 - 2 * StackWords) + StackWords)
  BY <1>1, <1>2, SpMoves, Zenon
<1>9. /\ n - (StackWords - 1) = n + 1 - StackWords
      /\ n - (StackWords - 2) = n + 2 - StackWords
      /\ n - (2 * StackWords - 3) = n + 3 - 2 * StackWords
      /\ (n + 1 - StackWords) + StackWords = n + 1
      /\ (n + 2 - StackWords) + StackWords = n + 2
      /\ (n + 3 - StackWords) + StackWords = n + 3
      /\ (n + 3 - 2 * StackWords) + StackWords = n + 3 - StackWords
      /\ SpAt(n) + (StackWords - 1) = SpAt(n) + StackWords - 1
      /\ SpAt(n) + (StackWords - 2) = SpAt(n) + StackWords - 2
      /\ SpAt(n) + (2 * StackWords - 3) = SpAt(n) + 2 * StackWords - 3
  BY <1>1, <1>3
<1>10. (SpAt(n) + StackWords - 1) % StackWords = SpAt(n + 1)
  BY <1>4, <1>8, <1>9, Zenon
<1>11. (SpAt(n) + StackWords - 2) % StackWords = SpAt(n + 2)
  BY <1>5, <1>8, <1>9, Zenon
<1>12. (SpAt(n) + 2 * StackWords - 3) % StackWords = SpAt(n + 3)
  BY <1>6, <1>8, <1>9, Zenon
<1> QED BY <1>3, <1>7, <1>10, <1>11, <1>12

\* Words fewer than StackWords apart lie in different cells.
LEMMA SpDistinct ==
  ASSUME NEW j \in Int, NEW k \in Int, j < k, k < j + StackWords
  PROVE  SpAt(j) # SpAt(k)
<1> DEFINE W == StackWords
           p == (-j) \div W
           q == (-k) \div W
<1>1. W \in Nat \ {0}
  BY MachineAssumption
<1>2. /\ p \in Int /\ SpAt(j) \in 0..W - 1 /\ -j = W * p + SpAt(j)
      /\ q \in Int /\ SpAt(k) \in 0..W - 1 /\ -k = W * q + SpAt(k)
  <2>1. -j \in Int /\ -k \in Int
    OBVIOUS
  <2> QED BY <1>1, <2>1, DivisionFacts, Zenon DEF SpAt
<1> HIDE DEF p, q
<1>3. SUFFICES ASSUME SpAt(j) = SpAt(k) PROVE FALSE
  OBVIOUS
<1> DEFINE e == p - q
<1>4. e \in Int /\ W * e = k - j
  <2>1. W * e = W * p - W * q
    BY <1>1, <1>2
  <2> QED BY <1>1, <1>2, <1>3, <2>1
<1> HIDE DEF e
<1>5. ASSUME e <= 0 PROVE FALSE
  <2>1. W * e <= 0
    BY <1>1, <1>4, <1>5
  <2> QED BY <1>4, <2>1
<1>6. ASSUME e >= 1 PROVE FALSE
  <2>1. W * e >= W
    BY <1>1, <1>4, <1>6
  <2> QED BY <1>1, <1>4, <2>1
<1> QED BY <1>4, <1>5, <1>6

-----------------------------------------------------------------------------
(* The operations of the machine. *)

\* The tracker of x tells the changes from s, but for the cells of p.
Tells(x, s, p) == x.tracking =>
  /\ \A a \in DOMAIN x.tracked : x.tracked[a] = s[a]
  /\ \A a \in Cells \ p : x.mem[a] # s[a] => a \in DOMAIN x.tracked

LEMMA WriteFacts ==
  ASSUME NEW x, MachineOK(x), NEW a \in Cells, NEW v
  PROVE  /\ MachineOK(write_abs(x, a, v))
         /\ write_abs(x, a, v).mem = [x.mem EXCEPT ![a] = v]
         /\ write_abs(x, a, v).cs = x.cs /\ write_abs(x, a, v).ip = x.ip
         /\ write_abs(x, a, v).f = x.f /\ write_abs(x, a, v).sp = x.sp
         /\ write_abs(x, a, v).tracking = x.tracking
         /\ \A s, p : Tells(x, s, p) /\ a \notin p => Tells(write_abs(x, a, v), s, p)
<1> DEFINE y == write_abs(x, a, v)
           tr == IF x.tracking /\ a \notin DOMAIN x.tracked THEN Noted(x, a) ELSE x.tracked
           me == [x.mem EXCEPT ![a] = v]
<1>1. y = [x EXCEPT !.mem = me, !.tracked = tr]
  BY DEF write_abs
<1> HIDE DEF tr, me
<1>2. y = [cs |-> x.cs, ip |-> x.ip, f |-> x.f, sp |-> x.sp, mem |-> me,
           tracked |-> tr, tracking |-> x.tracking]
  BY <1>1 DEF MachineOK
<1> HIDE DEF y
<1>3. /\ y.cs = x.cs /\ y.ip = x.ip /\ y.f = x.f /\ y.sp = x.sp /\ y.mem = me
      /\ y.tracked = tr /\ y.tracking = x.tracking
  BY <1>2
<1>4. /\ MemoryOK(me) /\ me[a] = v /\ \A b \in Cells \ {a} : me[b] = x.mem[b]
      /\ DOMAIN me = Cells
  BY DEF me, MachineOK, MemoryOK
<1>5. /\ x.tracking => DOMAIN tr = DOMAIN x.tracked \union {a}
      /\ ~x.tracking => tr = x.tracked
      /\ \A b \in DOMAIN x.tracked : tr[b] = x.tracked[b]
      /\ x.tracking /\ a \notin DOMAIN x.tracked => tr[a] = x.mem[a]
  BY DEF tr, Noted
<1>6. DOMAIN tr \subseteq Cells
  BY <1>5 DEF MachineOK
<1>7. MachineOK(y)
  BY <1>2, <1>3, <1>4, <1>6 DEF MachineOK
<1>8. ASSUME NEW s, NEW p, Tells(x, s, p), a \notin p PROVE Tells(y, s, p)
  BY <1>3, <1>4, <1>5, <1>8 DEF Tells
<1> QED BY <1>3, <1>7, <1>8 DEF y, me

LEMMA StackCells == /\ \A n \in Int : SpAt(n) \in Cells /\ SpAt(n) # BUFFER
                    /\ BUFFER \in Cells /\ \A c \in SpType : c \in Cells
<1>1. StackWords \in Nat /\ StackWords >= 3
  BY MachineAssumption
<1>2. \A n \in Int : SpAt(n) \in SpType
  BY SpMoves
<1> QED BY <1>1, <1>2 DEF Cells, SpType, BUFFER

LEMMA PushFacts ==
  ASSUME NEW x, MachineOK(x), NEW n \in Nat, x.sp = SpAt(n), NEW v
  PROVE  /\ MachineOK(stack_push(x, v))
         /\ stack_push(x, v).sp = SpAt(n + 1)
         /\ stack_push(x, v).mem = [x.mem EXCEPT ![SpAt(n + 1)] = v]
         /\ stack_push(x, v).cs = x.cs /\ stack_push(x, v).ip = x.ip
         /\ stack_push(x, v).f = x.f /\ stack_push(x, v).tracking = x.tracking
         /\ \A s, p : Tells(x, s, p) /\ p \subseteq {BUFFER} => Tells(stack_push(x, v), s, p)
<1> DEFINE sp == SpAt(n + 1)
           z == [x EXCEPT !.sp = sp]
<1>1. (x.sp + StackWords - 1) % StackWords = sp
  BY SpSteps
<1>2. stack_push(x, v) = write_abs(z, sp, v)
  BY <1>1 DEF stack_push
<1>3. sp \in SpType /\ sp \in Cells /\ sp # BUFFER
  <2>1. n + 1 \in Nat
    OBVIOUS
  <2> QED BY <2>1, SpSteps, StackCells
<1> HIDE DEF sp
<1>4. z = [cs |-> x.cs, ip |-> x.ip, f |-> x.f, sp |-> sp, mem |-> x.mem,
           tracked |-> x.tracked, tracking |-> x.tracking]
  BY DEF MachineOK
<1> HIDE DEF z
<1>5. /\ z.cs = x.cs /\ z.ip = x.ip /\ z.f = x.f /\ z.sp = sp /\ z.mem = x.mem
      /\ z.tracked = x.tracked /\ z.tracking = x.tracking
  BY <1>4
<1>6. MachineOK(z)
  BY <1>3, <1>4, <1>5 DEF MachineOK
<1>7. \A s, p : Tells(x, s, p) => Tells(z, s, p)
  BY <1>5 DEF Tells
<1>8. /\ MachineOK(write_abs(z, sp, v))
      /\ write_abs(z, sp, v).mem = [z.mem EXCEPT ![sp] = v]
      /\ write_abs(z, sp, v).cs = z.cs /\ write_abs(z, sp, v).ip = z.ip
      /\ write_abs(z, sp, v).f = z.f /\ write_abs(z, sp, v).sp = z.sp
      /\ write_abs(z, sp, v).tracking = z.tracking
      /\ \A s, p : Tells(z, s, p) /\ sp \notin p => Tells(write_abs(z, sp, v), s, p)
  BY <1>3, <1>6, WriteFacts
<1> QED BY <1>2, <1>3, <1>5, <1>7, <1>8 DEF sp

LEMMA DropFacts ==
  ASSUME NEW x, MachineOK(x), NEW n \in Nat, x.sp = SpAt(n)
  PROVE  /\ Drop(x) = [x EXCEPT !.sp = SpAt(n - 1)]
         /\ SpAt(n - 1) \in SpType
<1>1. (x.sp + 1) % StackWords = SpAt(n - 1)
  BY SpSteps
<1>2. SpAt(n - 1) \in SpType
  <2>1. n - 1 \in Int /\ 0 \in Int
    OBVIOUS
  <2> QED BY <2>1, SpMoves
<1> QED BY <1>1, <1>2 DEF Drop

\* What an interrupt leaves on the stack, n words deep.
LEMMA SaveFacts ==
  ASSUME NEW x, MachineOK(x), NEW n \in Nat, x.sp = SpAt(n)
  PROVE  LET y == interrupt_save(x)
         IN /\ MachineOK(y) /\ y.sp = SpAt(n + 3)
            /\ y.cs = x.cs /\ y.ip = x.ip /\ y.f = [x.f EXCEPT !.IFL = FALSE]
            /\ y.tracking = x.tracking
            /\ y.mem[SpAt(n + 1)] = Flags([x.f EXCEPT !.one = TRUE])
            /\ y.mem[SpAt(n + 2)] = x.cs
            /\ y.mem[SpAt(n + 3)] = x.ip
            /\ \A c \in Cells \ {SpAt(n + 1), SpAt(n + 2), SpAt(n + 3)} : y.mem[c] = x.mem[c]
            /\ \A s, p : Tells(x, s, p) /\ p \subseteq {BUFFER} => Tells(y, s, p)
<1> DEFINE w == Flags([x.f EXCEPT !.one = TRUE])
           a == stack_push(x, w)
           b == [a EXCEPT !.f.IFL = FALSE]
           c == stack_push(b, x.cs)
           d == stack_push(c, x.ip)
<1>1. interrupt_save(x) = d
  BY DEF interrupt_save
<1>2. n + 1 \in Nat /\ n + 2 \in Nat /\ (n + 1) + 1 = n + 2 /\ (n + 2) + 1 = n + 3
  OBVIOUS
<1> HIDE DEF w
<1>3. /\ MachineOK(a) /\ a.sp = SpAt(n + 1) /\ a.mem = [x.mem EXCEPT ![SpAt(n + 1)] = w]
      /\ a.cs = x.cs /\ a.ip = x.ip /\ a.f = x.f /\ a.tracking = x.tracking
      /\ \A s, p : Tells(x, s, p) /\ p \subseteq {BUFFER} => Tells(a, s, p)
  BY PushFacts
<1> HIDE DEF a
<1>4. b = [cs |-> a.cs, ip |-> a.ip, f |-> [a.f EXCEPT !.IFL = FALSE], sp |-> a.sp,
           mem |-> a.mem, tracked |-> a.tracked, tracking |-> a.tracking]
  <2>1. a = [cs |-> a.cs, ip |-> a.ip, f |-> a.f, sp |-> a.sp, mem |-> a.mem,
             tracked |-> a.tracked, tracking |-> a.tracking]
    BY <1>3 DEF MachineOK
  <2>2. b = [a EXCEPT !.f = [a.f EXCEPT !.IFL = FALSE]]
    OBVIOUS
  <2> HIDE DEF b
  <2> QED BY <2>1, <2>2
<1> HIDE DEF b
<1>5. /\ b.cs = a.cs /\ b.ip = a.ip /\ b.f = [a.f EXCEPT !.IFL = FALSE] /\ b.sp = a.sp
      /\ b.mem = a.mem /\ b.tracked = a.tracked /\ b.tracking = a.tracking
  BY <1>4
<1>6. MachineOK(b) /\ \A s, p : Tells(a, s, p) => Tells(b, s, p)
  <2>1. [a.f EXCEPT !.IFL = FALSE] \in FlagType
    BY <1>3 DEF MachineOK, FlagType
  <2> QED BY <1>3, <1>4, <1>5, <2>1 DEF MachineOK, Tells
<1>7. /\ MachineOK(c) /\ c.sp = SpAt((n + 1) + 1) /\ c.mem = [b.mem EXCEPT ![SpAt((n + 1) + 1)] = x.cs]
      /\ c.cs = b.cs /\ c.ip = b.ip /\ c.f = b.f /\ c.tracking = b.tracking
      /\ \A s, p : Tells(b, s, p) /\ p \subseteq {BUFFER} => Tells(c, s, p)
  <2>1. b.sp = SpAt(n + 1)
    BY <1>3, <1>5
  <2> QED BY <1>2, <1>6, <2>1, PushFacts
<1> HIDE DEF c
<1>8. /\ MachineOK(d) /\ d.sp = SpAt((n + 2) + 1) /\ d.mem = [c.mem EXCEPT ![SpAt((n + 2) + 1)] = x.ip]
      /\ d.cs = c.cs /\ d.ip = c.ip /\ d.f = c.f /\ d.tracking = c.tracking
      /\ \A s, p : Tells(c, s, p) /\ p \subseteq {BUFFER} => Tells(d, s, p)
  <2>1. c.sp = SpAt(n + 2)
    BY <1>2, <1>7
  <2> QED BY <1>2, <1>7, <2>1, PushFacts
<1> HIDE DEF d
<1>9. /\ SpAt(n + 1) \in Cells /\ SpAt(n + 2) \in Cells /\ SpAt(n + 3) \in Cells
      /\ SpAt(n + 1) # SpAt(n + 2) /\ SpAt(n + 1) # SpAt(n + 3) /\ SpAt(n + 2) # SpAt(n + 3)
  <2>1. /\ n + 1 \in Int /\ n + 2 \in Int /\ n + 3 \in Int
        /\ n + 1 < n + 2 /\ n + 2 < n + 3 /\ n + 1 < n + 3
        /\ n + 2 < (n + 1) + StackWords /\ n + 3 < (n + 1) + StackWords
        /\ n + 3 < (n + 2) + StackWords
    BY MachineAssumption
  <2> QED BY <2>1, SpDistinct, StackCells
<1>10. /\ d.mem = [[[x.mem EXCEPT ![SpAt(n + 1)] = w] EXCEPT ![SpAt(n + 2)] = x.cs]
                    EXCEPT ![SpAt(n + 3)] = x.ip]
  BY <1>2, <1>3, <1>5, <1>7, <1>8
<1>11. DOMAIN x.mem = Cells
  BY DEF MachineOK, MemoryOK
<1>12. /\ d.mem[SpAt(n + 1)] = w /\ d.mem[SpAt(n + 2)] = x.cs /\ d.mem[SpAt(n + 3)] = x.ip
       /\ \A e \in Cells \ {SpAt(n + 1), SpAt(n + 2), SpAt(n + 3)} : d.mem[e] = x.mem[e]
  BY <1>9, <1>10, <1>11
<1> QED BY <1>1, <1>2, <1>3, <1>5, <1>6, <1>7, <1>8, <1>12 DEF w

LEMMA FetchedFacts ==
  ASSUME MachineOK(m)
  PROVE  /\ MachineOK(Fetched)
         /\ Fetched.cs = m.cs /\ Fetched.ip \in IpType /\ Fetched.f = m.f
         /\ Fetched.sp = m.sp /\ Fetched.mem = m.mem
         /\ Fetched.tracked = m.tracked /\ Fetched.tracking = m.tracking
         /\ \A s, p : Tells(m, s, p) => Tells(Fetched, s, p)
<1> DEFINE ip == Ip((m.ip[2] + 1) % 2)
           y == Fetched
<1>1. ip \in IpType
  <2>1. PICK n \in {0, 1} : m.ip = Ip(n)
    BY DEF MachineOK, IpType
  <2>2. m.ip[2] = n
    BY <2>1 DEF Ip
  <2>3. (m.ip[2] + 1) % 2 \in {0, 1}
    BY <2>2
  <2> QED BY <2>3 DEF IpType
<1>2. y = [m EXCEPT !.ip = ip]
  BY DEF Fetched
<1> HIDE DEF ip, y
<1>3. y = [cs |-> m.cs, ip |-> ip, f |-> m.f, sp |-> m.sp, mem |-> m.mem,
           tracked |-> m.tracked, tracking |-> m.tracking]
  BY <1>2 DEF MachineOK
<1>4. /\ y.cs = m.cs /\ y.ip = ip /\ y.f = m.f /\ y.sp = m.sp /\ y.mem = m.mem
      /\ y.tracked = m.tracked /\ y.tracking = m.tracking
  BY <1>3
<1>5. MachineOK(y)
  BY <1>1, <1>3, <1>4 DEF MachineOK
<1>6. \A s, p : Tells(m, s, p) => Tells(y, s, p)
  BY <1>4 DEF Tells
<1> QED BY <1>1, <1>4, <1>5, <1>6 DEF y

\* What IRET takes off a stack of n words.
LEMMA RestoreFacts ==
  ASSUME NEW x, MachineOK(x), NEW n \in Nat, n >= 3, x.sp = SpAt(n),
         x.mem[SpAt(n)] \in IpType, x.mem[SpAt(n - 1)] \in CsType,
         NEW f \in FlagType, x.mem[SpAt(n - 2)] = Flags(f)
  PROVE  LET y == interrupt_restore(x)
         IN /\ MachineOK(y) /\ y.sp = SpAt(n - 3)
            /\ y.ip = x.mem[SpAt(n)] /\ y.cs = x.mem[SpAt(n - 1)] /\ y.f = f
            /\ y.mem = x.mem /\ y.tracked = x.tracked /\ y.tracking = x.tracking
            /\ \A s, p : Tells(x, s, p) => Tells(y, s, p)
<1> DEFINE a == Drop(x)
           b == Drop(a)
           c == Drop(b)
           y == interrupt_restore(x)
<1>1. y = [c EXCEPT !.ip = Popped(x), !.cs = Popped(a), !.f = Popped(b)[2]]
  BY DEF interrupt_restore
<1>2. n - 1 \in Nat /\ n - 2 \in Nat /\ (n - 1) - 1 = n - 2 /\ (n - 2) - 1 = n - 3
  OBVIOUS
<1>3. a = [x EXCEPT !.sp = SpAt(n - 1)] /\ SpAt(n - 1) \in SpType
  BY DropFacts
<1> HIDE DEF a, y
<1>4. /\ a = [cs |-> x.cs, ip |-> x.ip, f |-> x.f, sp |-> SpAt(n - 1), mem |-> x.mem,
              tracked |-> x.tracked, tracking |-> x.tracking]
      /\ MachineOK(a)
  BY <1>3 DEF MachineOK
<1>5. b = [a EXCEPT !.sp = SpAt((n - 1) - 1)] /\ SpAt((n - 1) - 1) \in SpType
  BY <1>2, <1>4, DropFacts
<1> HIDE DEF b
<1>6. /\ b = [cs |-> x.cs, ip |-> x.ip, f |-> x.f, sp |-> SpAt(n - 2), mem |-> x.mem,
              tracked |-> x.tracked, tracking |-> x.tracking]
      /\ MachineOK(b)
  BY <1>2, <1>4, <1>5 DEF MachineOK
<1>7. c = [b EXCEPT !.sp = SpAt((n - 2) - 1)] /\ SpAt((n - 2) - 1) \in SpType
  BY <1>2, <1>6, DropFacts
<1> HIDE DEF c
<1>8. /\ c = [cs |-> x.cs, ip |-> x.ip, f |-> x.f, sp |-> SpAt(n - 3), mem |-> x.mem,
              tracked |-> x.tracked, tracking |-> x.tracking]
      /\ SpAt(n - 3) \in SpType
  BY <1>2, <1>6, <1>7
<1>9. /\ Popped(x) = x.mem[SpAt(n)] /\ Popped(a) = x.mem[SpAt(n - 1)]
      /\ Popped(b)[2] = f
  BY <1>4, <1>6 DEF Popped, Flags
<1>10. y = [cs |-> x.mem[SpAt(n - 1)], ip |-> x.mem[SpAt(n)], f |-> f, sp |-> SpAt(n - 3),
            mem |-> x.mem, tracked |-> x.tracked, tracking |-> x.tracking]
  BY <1>1, <1>8, <1>9
<1>11. /\ y.cs = x.mem[SpAt(n - 1)] /\ y.ip = x.mem[SpAt(n)] /\ y.f = f /\ y.sp = SpAt(n - 3)
       /\ y.mem = x.mem /\ y.tracked = x.tracked /\ y.tracking = x.tracking
  BY <1>10
<1>12. MachineOK(y)
  BY <1>8, <1>10, <1>11 DEF MachineOK
<1>13. \A s, p : Tells(x, s, p) => Tells(y, s, p)
  BY <1>11 DEF Tells
<1> QED BY <1>11, <1>12, <1>13 DEF y

\* A served interrupt gives the machine back, but for bit 1 of the flags and
\* the three cells above the stack.
LEMMA ServedFacts ==
  ASSUME MachineOK(m), NEW n \in Nat, m.sp = SpAt(n)
  PROVE  /\ MachineOK(Served)
         /\ Served.cs = m.cs /\ Served.ip = Fetched.ip /\ Served.sp = m.sp
         /\ Served.f = [m.f EXCEPT !.one = TRUE]
         /\ Served.tracking = m.tracking
         /\ \A c \in Cells \ {SpAt(n + 1), SpAt(n + 2), SpAt(n + 3)} : Served.mem[c] = m.mem[c]
         /\ \A s, p : Tells(m, s, p) /\ p \subseteq {BUFFER} => Tells(Served, s, p)
<1> DEFINE x == Fetched
           y == interrupt_save(x)
           f == [m.f EXCEPT !.one = TRUE]
<1>1. /\ MachineOK(x) /\ x.cs = m.cs /\ x.ip \in IpType /\ x.f = m.f /\ x.sp = m.sp
      /\ x.mem = m.mem /\ x.tracking = m.tracking
      /\ \A s, p : Tells(m, s, p) => Tells(x, s, p)
  BY FetchedFacts
<1> HIDE DEF x
<1>2. /\ MachineOK(y) /\ y.sp = SpAt(n + 3) /\ y.tracking = x.tracking
      /\ y.mem[SpAt(n + 1)] = Flags([x.f EXCEPT !.one = TRUE])
      /\ y.mem[SpAt(n + 2)] = x.cs
      /\ y.mem[SpAt(n + 3)] = x.ip
      /\ \A c \in Cells \ {SpAt(n + 1), SpAt(n + 2), SpAt(n + 3)} : y.mem[c] = x.mem[c]
      /\ \A s, p : Tells(x, s, p) /\ p \subseteq {BUFFER} => Tells(y, s, p)
  BY <1>1, SaveFacts
<1> HIDE DEF y
<1>3. /\ n + 3 \in Nat /\ n + 3 >= 3 /\ (n + 3) - 1 = n + 2 /\ (n + 3) - 2 = n + 1
      /\ (n + 3) - 3 = n
  OBVIOUS
<1>4. f \in FlagType /\ x.cs \in CsType
  BY <1>1 DEF MachineOK, FlagType
<1> HIDE DEF f
<1>5. LET z == interrupt_restore(y)
      IN /\ MachineOK(z) /\ z.sp = SpAt((n + 3) - 3)
         /\ z.ip = y.mem[SpAt(n + 3)] /\ z.cs = y.mem[SpAt((n + 3) - 1)] /\ z.f = f
         /\ z.mem = y.mem /\ z.tracked = y.tracked /\ z.tracking = y.tracking
         /\ \A s, p : Tells(y, s, p) => Tells(z, s, p)
  <2>1. /\ y.mem[SpAt(n + 3)] \in IpType /\ y.mem[SpAt((n + 3) - 1)] \in CsType
        /\ y.mem[SpAt((n + 3) - 2)] = Flags(f)
    BY <1>1, <1>2, <1>3, <1>4 DEF f
  <2> QED BY <1>2, <1>3, <1>4, <2>1, RestoreFacts
<1>6. Served = interrupt_restore(y)
  BY DEF Served, x, y
<1> QED BY <1>1, <1>2, <1>3, <1>5, <1>6 DEF f, x

-----------------------------------------------------------------------------
(* The frames on the stack. *)

\* Pushing the words n + 1 to n + k does not reach a frame that stays whole.
LEMMA WordsKept ==
  ASSUME NEW fr \in FrameType, NEW n \in Nat, NEW k \in Nat, NEW mem, NEW mem2,
         fr.base >= 3, fr.base <= n, n + k < fr.base - 2 + StackWords, Holds(fr, mem),
         \A c \in Cells : (\A j \in n + 1..n + k : c # SpAt(j)) /\ c # BUFFER => mem2[c] = mem[c]
  PROVE  Holds(fr, mem2)
<1>1. /\ fr.base \in Nat /\ StackWords \in Nat
      /\ fr.base - 2 \in Int /\ fr.base - 1 \in Int /\ fr.base \in Int
  BY MachineAssumption DEF FrameType
<1>2. ASSUME NEW b \in Int, fr.base - 2 <= b, b <= fr.base PROVE mem2[SpAt(b)] = mem[SpAt(b)]
  <2>1. ASSUME NEW j \in n + 1..n + k PROVE SpAt(b) # SpAt(j)
    <3>1. j \in Int /\ b < j /\ j < b + StackWords
      BY <1>1, <1>2
    <3> QED BY <3>1, SpDistinct
  <2>2. SpAt(b) \in Cells /\ SpAt(b) # BUFFER
    BY StackCells
  <2> QED BY <2>1, <2>2
<1>3. /\ mem2[SpAt(fr.base - 2)] = mem[SpAt(fr.base - 2)]
      /\ mem2[SpAt(fr.base - 1)] = mem[SpAt(fr.base - 1)]
      /\ mem2[SpAt(fr.base)] = mem[SpAt(fr.base)]
  BY <1>1, <1>2
<1> QED BY <1>3 DEF Holds

LEMMA ReachedFacts ==
  ASSUME frames \in Seq(FrameType), NEW n \in Nat
  PROVE  /\ Reached(n) \in Seq(FrameType) /\ Len(Reached(n)) = Len(frames)
         /\ \A i \in 1..Len(frames) :
              /\ Reached(n)[i].base = frames[i].base /\ Reached(n)[i].sp = frames[i].sp
              /\ Reached(n)[i].cs = frames[i].cs /\ Reached(n)[i].ip = frames[i].ip
              /\ Reached(n)[i].f = frames[i].f
              /\ Reached(n)[i].whole <=> frames[i].whole /\ n < frames[i].base - 2 + StackWords
<1>1. DOMAIN frames = 1..Len(frames) /\ Len(frames) \in Nat
  OBVIOUS
<1>2. ASSUME NEW i \in 1..Len(frames)
      PROVE  /\ Reached(n)[i] \in FrameType
             /\ Reached(n)[i].base = frames[i].base /\ Reached(n)[i].sp = frames[i].sp
             /\ Reached(n)[i].cs = frames[i].cs /\ Reached(n)[i].ip = frames[i].ip
             /\ Reached(n)[i].f = frames[i].f
             /\ Reached(n)[i].whole <=> frames[i].whole /\ n < frames[i].base - 2 + StackWords
  <2> DEFINE w == frames[i].whole /\ n < frames[i].base - 2 + StackWords
  <2>1. Reached(n)[i] = [frames[i] EXCEPT !.whole = w]
    BY <1>1 DEF Reached
  <2>2. frames[i] \in FrameType /\ w \in BOOLEAN
    OBVIOUS
  <2>3. Reached(n)[i].whole = w
    <3> HIDE DEF w
    <3> QED BY <2>1, <2>2 DEF FrameType
  <2>4. /\ Reached(n)[i] \in FrameType
        /\ Reached(n)[i].base = frames[i].base /\ Reached(n)[i].sp = frames[i].sp
        /\ Reached(n)[i].cs = frames[i].cs /\ Reached(n)[i].ip = frames[i].ip
        /\ Reached(n)[i].f = frames[i].f
    <3> HIDE DEF w
    <3> QED BY <2>1, <2>2 DEF FrameType
  <2> QED BY <2>3, <2>4
<1>3. DOMAIN Reached(n) = 1..Len(frames)
  BY <1>1 DEF Reached
<1>4. Reached(n) = [i \in 1..Len(frames) |-> Reached(n)[i]]
  BY <1>1 DEF Reached
<1>5. Reached(n) \in Seq(FrameType) /\ Len(Reached(n)) = Len(frames)
  BY <1>1, <1>2, <1>3, <1>4
<1> QED BY <1>2, <1>5

\* The stack after the words n + 1 to n + k were pushed and those past j
\* taken off again.
LEMMA PushesKeep ==
  ASSUME frames \in Seq(FrameType), NEW n \in Nat, NEW k \in Nat, NEW j \in n..n + k,
         NEW mem, NEW mem2, StackHolds(frames, n, mem),
         \A c \in Cells : (\A i \in n + 1..n + k : c # SpAt(i)) /\ c # BUFFER => mem2[c] = mem[c]
  PROVE  StackHolds(Reached(n + k), j, mem2)
<1> DEFINE r == Reached(n + k)
<1>1. /\ r \in Seq(FrameType) /\ Len(r) = Len(frames)
      /\ \A i \in 1..Len(frames) :
           /\ r[i].base = frames[i].base /\ r[i].sp = frames[i].sp
           /\ r[i].cs = frames[i].cs /\ r[i].ip = frames[i].ip /\ r[i].f = frames[i].f
           /\ r[i].whole <=> frames[i].whole /\ n + k < frames[i].base - 2 + StackWords
  BY ReachedFacts
<1> HIDE DEF r
<1>2. StackWords \in Nat /\ Len(frames) \in Nat
  BY MachineAssumption
<1>3. ASSUME NEW i \in 1..Len(r) PROVE FrameHolds(r[i], j, mem2)
  <2>1. frames[i] \in FrameType /\ FrameHolds(frames[i], n, mem) /\ r[i] \in FrameType
    BY <1>1 DEF StackHolds
  <2>2. frames[i].base \in Nat
    BY <2>1 DEF FrameType
  <2>3. r[i].base >= 3 /\ r[i].base <= j /\ r[i].sp = SpAt(r[i].base - 3)
    BY <1>1, <2>1, <2>2 DEF FrameHolds
  <2>4. ASSUME r[i].whole PROVE j < r[i].base - 2 + StackWords /\ Holds(r[i], mem2)
    <3>1. frames[i].whole /\ n + k < frames[i].base - 2 + StackWords
      BY <1>1, <2>4
    <3>2. Holds(frames[i], mem) /\ frames[i].base >= 3 /\ frames[i].base <= n
      BY <2>1, <3>1 DEF FrameHolds
    <3>3. Holds(frames[i], mem2)
      BY <2>1, <3>1, <3>2, WordsKept
    <3>4. /\ r[i].base = frames[i].base /\ r[i].cs = frames[i].cs
          /\ r[i].ip = frames[i].ip /\ r[i].f = frames[i].f
      BY <1>1
    <3>5. Holds(r[i], mem2)
      BY <3>3, <3>4, Zenon DEF Holds
    <3>6. j < r[i].base - 2 + StackWords
      BY <1>2, <2>2, <3>1, <3>4
    <3> QED BY <3>5, <3>6
  <2> QED BY <2>3, <2>4 DEF FrameHolds
<1>4. \A i, l \in 1..Len(r) : i < l => r[i].base + 3 <= r[l].base
  BY <1>1 DEF StackHolds
<1> QED BY <1>3, <1>4 DEF StackHolds, r

\* Taking off a word above the last frame.
LEMMA PopKeeps ==
  ASSUME frames \in Seq(FrameType), NEW n \in Nat, NEW mem, StackHolds(frames, n, mem),
         n > 0, frames # <<>> => frames[Len(frames)].base < n
  PROVE  StackHolds(frames, n - 1, mem)
<1>1. ASSUME NEW i \in 1..Len(frames) PROVE FrameHolds(frames[i], n - 1, mem)
  <2>1. /\ frames # <<>> /\ Len(frames) \in 1..Len(frames)
        /\ frames[i] \in FrameType /\ frames[Len(frames)] \in FrameType
        /\ FrameHolds(frames[i], n, mem)
    BY DEF StackHolds
  <2>2. frames[i].base <= frames[Len(frames)].base
    <3>1. frames[i].base \in Nat /\ frames[Len(frames)].base \in Nat
      BY <2>1 DEF FrameType
    <3> QED BY <2>1, <3>1 DEF StackHolds
  <2> QED BY <2>1, <2>2, MachineAssumption DEF FrameHolds, FrameType
<1> QED BY <1>1 DEF StackHolds

-----------------------------------------------------------------------------
(* The steps of the guest. *)

\* What every service does to the machine: it panics, or it runs around a
\* saved and restored state and may clear CF or fill the read buffer.
Panics == /\ status' = "panic"
          /\ UNCHANGED <<m, vectors, handles, ax, frames, live, snap, past>>
Cleared == [Served EXCEPT !.f.CF = FALSE]
Filled(d) == [Served EXCEPT !.mem[BUFFER] = Data(d)]
Serves == /\ UNCHANGED <<status, live, snap>> /\ frames' = Reached(live + 3)
          /\ \/ m' \in {Served, Cleared} /\ past' = past
             \/ (\E d \in Int : m' = Filled(d)) /\ past' = past \union {BUFFER}

LEMMA OpenedFacts ==
  ASSUME DosTypeOK, NEW h \in Opened
  PROVE  /\ h \in Slots /\ handles[h] \in FileType /\ handles[h] \notin {NoEntry, Device}
         /\ handles[h].pos \in Nat /\ Len_(handles[h].file) \in Nat
<1>1. h \in Slots /\ handles[h] \in EntryType /\ handles[h] \notin {NoEntry, Device}
  BY DEF DosTypeOK, Opened
<1>2. handles[h] \in FileType
  BY <1>1 DEF EntryType
<1> QED BY <1>1, <1>2, MachineAssumption DEF FileType

LEMMA ServedCallForm == ASSUME DosTypeOK, ServedCall PROVE Panics \/ Serves
<1> USE DEF Panics, Serves, Cleared, Filled, DosPanic, ServicePanics, Service, Answered, Succeeded
<1>1. CASE dos_set_interrupt_vector
  BY <1>1 DEF dos_set_interrupt_vector
<1>2. CASE dos_get_interrupt_vector \/ dos_mem_resize
  BY <1>2 DEF dos_get_interrupt_vector, dos_mem_resize
<1>3. CASE dos_open_file
  BY <1>3 DEF dos_open_file
<1>4. CASE dos_close_file
  BY <1>4 DEF dos_close_file
<1>5. CASE dos_read_file
  <2>1. CASE Opened # Slots /\ DosPanic
    BY <2>1
  <2>2. CASE ~DosPanic
    <3>1. PICK h \in Opened, n \in 1..2 :
            LET left == Len_(handles[h].file) - handles[h].pos
                len == IF left < 0 THEN 0 ELSE IF n < left THEN n ELSE left
            IN /\ Service("dos")
               /\ m' = IF len = 0 THEN Served
                       ELSE [Served EXCEPT !.mem[BUFFER] = Data(handles[h].pos + 1)]
               /\ past' = IF len = 0 THEN past ELSE past \union {BUFFER}
               /\ UNCHANGED <<vectors, status, snap>>
      BY <1>5, <2>2 DEF dos_read_file
    <3>2. handles[h].pos + 1 \in Int
      BY OpenedFacts
    <3> QED BY <3>1, <3>2
  <2> QED BY <2>1, <2>2
<1>6. CASE dos_seek_file
  BY <1>6 DEF dos_seek_file
<1>7. CASE dos_get_or_set_file_attrs \/ dos_ioctl \/ Unserved
  BY <1>7 DEF dos_get_or_set_file_attrs, dos_ioctl, Unserved
<1>8. CASE OtherCalls
  BY <1>8 DEF OtherCalls, dos_get_system, bios_time_of_day, video_interrupt_0x10,
              mouse_interrupt_0x33
<1> QED BY <1>1, <1>2, <1>3, <1>4, <1>5, <1>6, <1>7, <1>8 DEF ServedCall, FileCalls

\* What the machine is after a service that did not panic.
LEMMA ServesFacts ==
  ASSUME MachineOK(m), NEW n \in Nat, m.sp = SpAt(n), past \subseteq {BUFFER}, Serves
  PROVE  /\ MachineOK(m') /\ m'.cs = m.cs /\ m'.ip = Fetched.ip /\ m'.sp = m.sp
         /\ m'.f.IFL = m.f.IFL /\ m'.tracking = m.tracking
         /\ past' \subseteq {BUFFER} /\ past \subseteq past'
         /\ \A c \in Cells :
              (\A i \in n + 1..n + 3 : c # SpAt(i)) /\ c # BUFFER => m'.mem[c] = m.mem[c]
         /\ Tells(m, snap, past) => Tells(m', snap, past')
<1> DEFINE x == Served
<1>1. /\ MachineOK(x)
      /\ x.cs = m.cs /\ x.ip = Fetched.ip /\ x.sp = m.sp
      /\ x.f = [m.f EXCEPT !.one = TRUE]
      /\ x.tracking = m.tracking
      /\ \A c \in Cells \ {SpAt(n + 1), SpAt(n + 2), SpAt(n + 3)} : x.mem[c] = m.mem[c]
      /\ \A s, p : Tells(m, s, p) /\ p \subseteq {BUFFER} => Tells(x, s, p)
  BY ServedFacts
<1> HIDE DEF x
<1>2. x.f \in FlagType /\ x.f.IFL = m.f.IFL
  BY <1>1 DEF MachineOK, FlagType
<1>3. n + 1 \in n + 1..n + 3 /\ n + 2 \in n + 1..n + 3 /\ n + 3 \in n + 1..n + 3
  OBVIOUS
<1>4. \A c \in Cells : (\A i \in n + 1..n + 3 : c # SpAt(i)) => x.mem[c] = m.mem[c]
  BY <1>1, <1>3
<1>5. CASE m' = x /\ past' = past
  BY <1>1, <1>2, <1>4, <1>5
<1>6. CASE m' = [x EXCEPT !.f.CF = FALSE] /\ past' = past
  <2> DEFINE f == [x.f EXCEPT !.CF = FALSE]
  <2>1. f \in FlagType /\ f.IFL = x.f.IFL
    BY <1>2 DEF FlagType
  <2>2. m' = [x EXCEPT !.f = f]
    BY <1>6
  <2> HIDE DEF f
  <2>3. m' = [cs |-> x.cs, ip |-> x.ip, f |-> f, sp |-> x.sp, mem |-> x.mem,
              tracked |-> x.tracked, tracking |-> x.tracking]
    BY <1>1, <2>2 DEF MachineOK
  <2>4. /\ m'.cs = x.cs /\ m'.ip = x.ip /\ m'.f = f /\ m'.sp = x.sp /\ m'.mem = x.mem
        /\ m'.tracked = x.tracked /\ m'.tracking = x.tracking
    BY <2>3
  <2>5. MachineOK(m')
    BY <1>1, <2>1, <2>3, <2>4 DEF MachineOK
  <2>6. Tells(m, snap, past) => Tells(m', snap, past)
    BY <1>1, <2>4 DEF Tells
  <2> QED BY <1>1, <1>2, <1>4, <1>6, <2>1, <2>4, <2>5, <2>6
<1>7. CASE \E d \in Int : m' = [x EXCEPT !.mem[BUFFER] = Data(d)] /\ past' = past \union {BUFFER}
  <2>1. PICK d \in Int : m' = [x EXCEPT !.mem[BUFFER] = Data(d)] /\ past' = past \union {BUFFER}
    BY <1>7
  <2> DEFINE me == [x.mem EXCEPT ![BUFFER] = Data(d)]
  <2>2. MemoryOK(me) /\ \A c \in Cells : c # BUFFER => me[c] = x.mem[c]
    BY <1>1, StackCells DEF MachineOK, MemoryOK
  <2>3. m' = [x EXCEPT !.mem = me]
    BY <2>1
  <2> HIDE DEF me
  <2>4. m' = [cs |-> x.cs, ip |-> x.ip, f |-> x.f, sp |-> x.sp, mem |-> me,
              tracked |-> x.tracked, tracking |-> x.tracking]
    BY <1>1, <2>3 DEF MachineOK
  <2>5. /\ m'.cs = x.cs /\ m'.ip = x.ip /\ m'.f = x.f /\ m'.sp = x.sp /\ m'.mem = me
        /\ m'.tracked = x.tracked /\ m'.tracking = x.tracking
    BY <2>4
  <2>6. MachineOK(m')
    BY <1>1, <2>2, <2>4, <2>5 DEF MachineOK
  <2>7. Tells(m, snap, past) => Tells(m', snap, past')
    BY <1>1, <2>1, <2>2, <2>5 DEF Tells
  <2> QED BY <1>1, <1>2, <1>4, <2>1, <2>2, <2>5, <2>6, <2>7
<1> QED BY <1>5, <1>6, <1>7 DEF Serves, Cleared, Filled, x

-----------------------------------------------------------------------------
(* The handle table. *)

FileStep == Files_!Next \/ UNCHANGED <<handles, ax>>
TablesOK == /\ vectors \in [Hookable -> Handlers \union {"bios", "default"}]
            /\ handles \in [Slots -> EntryType] /\ ax \in Nat

\* Moving the position of an open handle.
LEMMA MoveTyped ==
  ASSUME DosTypeOK, NEW h \in Opened, NEW p \in Nat
  PROVE  [handles EXCEPT ![h].pos = p] \in [Slots -> EntryType]
<1>1. h \in Slots /\ handles[h] \in FileType /\ handles \in [Slots -> EntryType]
  BY OpenedFacts DEF DosTypeOK
<1>2. [handles[h] EXCEPT !.pos = p] \in EntryType
  BY <1>1 DEF FileType, EntryType
<1> QED BY <1>1, <1>2

\* Each file service is a step of the abstract table on the handle it is made
\* through, and every other service leaves the table alone.
LEMMA TableStep == ASSUME DosTypeOK, ServedCall PROVE TablesOK' /\ FileStep
<1>1. TablesOK
  BY DEF DosTypeOK, TablesOK
<1>2. CASE UNCHANGED <<vectors, handles, ax>>
  BY <1>1, <1>2 DEF TablesOK, FileStep
<1>3. CASE dos_set_interrupt_vector
  BY <1>1, <1>3 DEF dos_set_interrupt_vector, TablesOK, FileStep
<1>4. CASE dos_open_file /\ ~DosPanic
  <2>1. PICK f \in Files, h \in find_unused_handle :
          handles' = create_handle(h, f) /\ ax' = h /\ UNCHANGED vectors
    BY <1>4 DEF dos_open_file
  <2>2. h \in Slots /\ handles[h] = NoEntry /\ h \in Nat
    BY MachineAssumption DEF find_unused_handle, Slots
  <2>3. handles' = [handles EXCEPT ![h] = [file |-> f, pos |-> 0]]
    BY <2>1 DEF create_handle
  <2>4. TablesOK'
    BY <1>1, <2>1, <2>2, <2>3 DEF TablesOK, EntryType, FileType
  <2>5. Files_!Open
    BY <2>1, <2>2, <2>3 DEF Files_!Open, Files_!Entry
  <2> QED BY <2>4, <2>5 DEF FileStep, Files_!Next
<1>5. CASE dos_close_file
  <2>1. PICK h \in Slots : handles' = remove_handle(h) /\ UNCHANGED <<vectors, ax>>
    BY <1>5 DEF dos_close_file
  <2>2. handles' = [handles EXCEPT ![h] = NoEntry]
    BY <2>1 DEF remove_handle
  <2>3. TablesOK'
    BY <1>1, <2>1, <2>2 DEF TablesOK, EntryType
  <2>4. Files_!Close
    BY <2>1, <2>2 DEF Files_!Close
  <2> QED BY <2>3, <2>4 DEF FileStep, Files_!Next
<1>6. CASE dos_read_file /\ ~DosPanic
  <2>1. PICK h \in Opened, n \in 1..2 :
          LET left == Len_(handles[h].file) - handles[h].pos
              len == IF left < 0 THEN 0 ELSE IF n < left THEN n ELSE left
          IN handles' = [handles EXCEPT ![h].pos = @ + len] /\ ax' = len /\ UNCHANGED vectors
    BY <1>6 DEF dos_read_file
  <2> DEFINE left == Len_(handles[h].file) - handles[h].pos
             len == IF left < 0 THEN 0 ELSE IF n < left THEN n ELSE left
  <2>2. /\ h \in Slots /\ handles[h] \in FileType /\ handles[h] \notin {NoEntry, Device}
        /\ handles[h].pos \in Nat /\ Len_(handles[h].file) \in Nat
    BY OpenedFacts
  <2>3. /\ len \in Nat /\ handles[h].pos + len \in Nat
        /\ len \in 0..(IF handles[h].pos >= Len_(handles[h].file) THEN 0
                       ELSE Len_(handles[h].file) - handles[h].pos)
    BY <2>2
  <2> HIDE DEF len
  <2>4. handles' = [handles EXCEPT ![h].pos = handles[h].pos + len] /\ ax' = len /\ UNCHANGED vectors
    BY <2>1 DEF len
  <2>5. TablesOK'
    BY <1>1, <2>3, <2>4, MoveTyped DEF TablesOK
  <2>6. Files_!Read
    BY <2>2, <2>3, <2>4 DEF Files_!Read, Files_!IsFile, Files_!Left
  <2> QED BY <2>5, <2>6 DEF FileStep, Files_!Next
<1>7. CASE dos_seek_file /\ ~DosPanic
  <2>1. PICK h \in Opened, method \in 0..2, off \in Seeks :
          /\ ~(SeekTo(h, method, off) < 0)
          /\ handles' = [handles EXCEPT ![h].pos = SeekTo(h, method, off)]
          /\ ax' = SeekTo(h, method, off) /\ UNCHANGED vectors
    BY <1>7 DEF dos_seek_file
  <2>2. /\ h \in Slots /\ handles[h] \notin {NoEntry, Device}
        /\ handles[h].pos \in Nat /\ Len_(handles[h].file) \in Nat /\ off \in Int
    BY OpenedFacts, MachineAssumption
  <2>3. SeekTo(h, method, off) \in Nat
    <3>1. SeekTo(h, method, off) \in Int
      BY <2>2 DEF SeekTo
    <3> QED BY <2>1, <3>1
  <2>4. TablesOK'
    BY <1>1, <2>1, <2>3, MoveTyped DEF TablesOK
  <2>5. Files_!Seek
    BY <2>1, <2>2, <2>3 DEF Files_!Seek, Files_!IsFile
  <2> QED BY <2>4, <2>5 DEF FileStep, Files_!Next
<1> USE DEF DosPanic, ServicePanics, Service, Answered, Succeeded
<1>8. CASE DosPanic
  BY <1>2, <1>8
<1>9. CASE \/ dos_get_interrupt_vector \/ dos_mem_resize \/ dos_get_or_set_file_attrs
           \/ dos_ioctl \/ Unserved \/ OtherCalls
  BY <1>2, <1>9 DEF dos_get_interrupt_vector, dos_mem_resize, dos_get_or_set_file_attrs,
       dos_ioctl, Unserved, OtherCalls, dos_get_system, bios_time_of_day,
       video_interrupt_0x10, mouse_interrupt_0x33
<1> QED BY <1>3, <1>4, <1>5, <1>6, <1>7, <1>8, <1>9 DEF ServedCall, FileCalls

-----------------------------------------------------------------------------
(* The invariant is inductive. *)

LEMMA ServicesKeep ==
  ASSUME DosInv, status = "running", ServedCall
  PROVE  DosInv' /\ (status' = "running" => Continued)
<1>1. DosTypeOK /\ StackInv /\ Tells(m, snap, past)
  BY DEF DosInv, Tells, TrackerExact
<1>2. TablesOK'
  BY <1>1, TableStep
<1>3. CASE Panics
  <2>1. DosTypeOK'
    BY <1>1, <1>2, <1>3 DEF Panics, DosTypeOK, TablesOK
  <2>2. StackInv'
    BY <1>1, <1>3 DEF Panics, StackInv
  <2>3. TrackerExact'
    BY <1>3 DEF DosInv, Panics, TrackerExact
  <2> QED BY <1>3, <2>1, <2>2, <2>3 DEF DosInv, Panics
<1>4. CASE Serves
  <2>1. /\ MachineOK(m) /\ live \in Nat /\ m.sp = SpAt(live) /\ past \subseteq {BUFFER}
        /\ frames \in Seq(FrameType) /\ live + 3 \in Nat
    BY <1>1 DEF DosTypeOK, StackInv
  <2>2. /\ MachineOK(m') /\ m'.cs = m.cs /\ m'.ip = Fetched.ip /\ m'.sp = m.sp
        /\ m'.f.IFL = m.f.IFL /\ m'.tracking = m.tracking
        /\ past' \subseteq {BUFFER} /\ past \subseteq past'
        /\ \A c \in Cells :
              (\A i \in live + 1..live + 3 : c # SpAt(i)) /\ c # BUFFER => m'.mem[c] = m.mem[c]
        /\ Tells(m, snap, past) => Tells(m', snap, past')
    BY <1>4, <2>1, ServesFacts
  <2>3. Reached(live + 3) \in Seq(FrameType)
    BY <2>1, ReachedFacts
  <2>4. DosTypeOK'
    BY <1>1, <1>2, <1>4, <2>2, <2>3 DEF DosTypeOK, TablesOK, Serves
  <2>5. StackHolds(Reached(live + 3), live, m'.mem)
    <3>1. live \in live..live + 3 /\ StackHolds(frames, live, m.mem)
      BY <1>1, <2>1 DEF StackInv
    <3> QED BY <2>1, <2>2, <3>1, PushesKeep
  <2>6. StackInv'
    BY <1>4, <2>1, <2>2, <2>5 DEF StackInv, Serves
  <2>7. TrackerExact'
    BY <1>1, <1>4, <2>2 DEF TrackerExact, Tells, Serves
  <2>8. Continued
    <3>1. SUFFICES ASSUME NEW i \in DOMAIN frames', frames'[i].whole
                   PROVE  /\ m'.mem[(frames'[i].sp + StackWords - 2) % StackWords] = frames'[i].cs
                          /\ m'.mem[(frames'[i].sp + 2 * StackWords - 3) % StackWords] = frames'[i].ip
      BY <2>2 DEF Continued
    <3> DEFINE fr == frames'[i]
    <3>2. fr \in FrameType /\ i \in 1..Len(frames')
      BY <2>4 DEF DosTypeOK
    <3>3. FrameHolds(fr, live', m'.mem)
      BY <2>6, <3>2 DEF StackInv, StackHolds
    <3>4. fr.base \in Nat /\ fr.base >= 3 /\ fr.sp = SpAt(fr.base - 3) /\ Holds(fr, m'.mem)
      BY <3>1, <3>2, <3>3 DEF FrameHolds, FrameType
    <3>5. fr.base - 3 \in Nat /\ (fr.base - 3) + 2 = fr.base - 1 /\ (fr.base - 3) + 3 = fr.base
      BY <3>4
    <3>6. /\ (fr.sp + StackWords - 2) % StackWords = SpAt((fr.base - 3) + 2)
          /\ (fr.sp + 2 * StackWords - 3) % StackWords = SpAt((fr.base - 3) + 3)
      BY <3>4, <3>5, SpSteps
    <3> HIDE DEF fr
    <3>7. /\ m'.mem[(fr.sp + StackWords - 2) % StackWords] = fr.cs
          /\ m'.mem[(fr.sp + 2 * StackWords - 3) % StackWords] = fr.ip
      BY <3>4, <3>5, <3>6, Zenon DEF Holds
    <3> QED BY <3>7 DEF fr
  <2> QED BY <2>4, <2>6, <2>7, <2>8 DEF DosInv
<1> QED BY <1>1, <1>3, <1>4, ServedCallForm

\* What a guest instruction must leave for the invariant to hold on.
LEMMA KeptBy ==
  ASSUME DosInv, status = "running",
         status' \in {"running", "lost"}, UNCHANGED <<vectors, handles, ax, snap, past>>,
         MachineOK(m'), frames' \in Seq(FrameType), live' \in Nat,
         Tells(m, snap, past) => Tells(m', snap, past),
         status' # "lost" => m'.sp = SpAt(live') /\ StackHolds(frames', live', m'.mem)
  PROVE  DosInv'
<1>1. DosTypeOK'
  BY DEF DosInv, DosTypeOK
<1>2. TrackerExact'
  BY DEF DosInv, TrackerExact, Tells
<1> QED BY <1>1, <1>2 DEF DosInv, StackInv

LEMMA InterruptKeeps ==
  ASSUME DosInv, status = "running", NEW n \in Hookable, Interrupt(n)
  PROVE  DosInv'
<1> DEFINE x == Fetched
           y == interrupt_save(x)
           fr == [cs |-> m.cs, ip |-> x.ip, f |-> m.f, sp |-> m.sp,
                  base |-> live + 3, whole |-> TRUE]
           r == Reached(live + 3)
<1>1. /\ MachineOK(m) /\ m.sp = SpAt(live) /\ live \in Nat /\ live + 3 \in Nat
      /\ frames \in Seq(FrameType) /\ StackHolds(frames, live, m.mem) /\ past \subseteq {BUFFER}
      /\ vectors[n] \in Handlers \union {"bios", "default"}
  BY DEF DosInv, DosTypeOK, StackInv
<1>2. /\ MachineOK(x) /\ x.cs = m.cs /\ x.ip \in IpType /\ x.f = m.f /\ x.sp = m.sp
      /\ x.mem = m.mem
      /\ \A s, p : Tells(m, s, p) => Tells(x, s, p)
  BY <1>1, FetchedFacts
<1>3. /\ m' = [y EXCEPT !.cs = Cs(vectors[n]), !.ip = Ip(0)]
      /\ frames' = Append(r, fr) /\ live' = live + 3
      /\ status' \in {"running", "lost"} /\ UNCHANGED <<vectors, handles, ax, snap, past>>
  BY DEF Interrupt
<1> HIDE DEF x
<1>4. /\ MachineOK(y) /\ y.sp = SpAt(live + 3)
      /\ y.cs = x.cs /\ y.ip = x.ip /\ y.f = [x.f EXCEPT !.IFL = FALSE]
      /\ y.tracking = x.tracking
      /\ y.mem[SpAt(live + 1)] = Flags([x.f EXCEPT !.one = TRUE])
      /\ y.mem[SpAt(live + 2)] = x.cs
      /\ y.mem[SpAt(live + 3)] = x.ip
      /\ \A c \in Cells \ {SpAt(live + 1), SpAt(live + 2), SpAt(live + 3)} : y.mem[c] = x.mem[c]
      /\ \A s, p : Tells(x, s, p) /\ p \subseteq {BUFFER} => Tells(y, s, p)
  BY <1>1, <1>2, SaveFacts
<1> HIDE DEF y
<1>5. Cs(vectors[n]) \in CsType /\ Ip(0) \in IpType
  BY <1>1 DEF CsType, IpType, Code
<1>6. m' = [cs |-> Cs(vectors[n]), ip |-> Ip(0), f |-> y.f, sp |-> y.sp, mem |-> y.mem,
            tracked |-> y.tracked, tracking |-> y.tracking]
  BY <1>3, <1>4 DEF MachineOK
<1>7. /\ m'.cs = Cs(vectors[n]) /\ m'.ip = Ip(0) /\ m'.f = y.f /\ m'.sp = y.sp
      /\ m'.mem = y.mem /\ m'.tracked = y.tracked /\ m'.tracking = y.tracking
  BY <1>6
<1>8. MachineOK(m') /\ (Tells(m, snap, past) => Tells(m', snap, past))
  <2>1. MachineOK(m')
    BY <1>4, <1>5, <1>6, <1>7 DEF MachineOK
  <2>2. Tells(y, snap, past) => Tells(m', snap, past)
    BY <1>7 DEF Tells
  <2> QED BY <1>1, <1>2, <1>4, <2>1, <2>2
<1>9. /\ fr \in FrameType /\ fr.base = live + 3 /\ fr.sp = m.sp /\ fr.cs = m.cs
      /\ fr.ip = x.ip /\ fr.f = m.f
  BY <1>1, <1>2 DEF MachineOK, FrameType
<1> HIDE DEF fr
<1>10. /\ r \in Seq(FrameType) /\ Len(r) = Len(frames) /\ Len(frames) \in Nat
       /\ \A i \in 1..Len(frames) : r[i].base = frames[i].base
  BY <1>1, ReachedFacts
<1>11. StackHolds(r, live + 3, y.mem)
  <2>1. live + 3 \in live..live + 3
    BY <1>1
  <2>2. \A c \in Cells : (\A i \in live + 1..live + 3 : c # SpAt(i)) /\ c # BUFFER => y.mem[c] = m.mem[c]
    <3>1. live + 1 \in live + 1..live + 3 /\ live + 2 \in live + 1..live + 3 /\ live + 3 \in live + 1..live + 3
      BY <1>1
    <3> QED BY <1>2, <1>4, <3>1
  <2> QED BY <1>1, <2>1, <2>2, PushesKeep
<1> HIDE DEF r
<1>12. FrameHolds(fr, live + 3, y.mem)
  <2>1. /\ (live + 3) - 3 = live /\ (live + 3) - 2 = live + 1 /\ (live + 3) - 1 = live + 2
        /\ live + 3 >= 3 /\ live + 3 <= live + 3 /\ live + 3 < (live + 3) - 2 + StackWords
    BY <1>1, MachineAssumption
  <2>2. Holds(fr, y.mem)
    BY <1>2, <1>4, <1>9, <2>1, Zenon DEF Holds
  <2> QED BY <1>1, <1>9, <2>1, <2>2 DEF FrameHolds
<1>13. frames' \in Seq(FrameType) /\ StackHolds(frames', live + 3, y.mem)
  <2>1. /\ frames' \in Seq(FrameType) /\ Len(frames') = Len(frames) + 1
        /\ \A i \in 1..Len(frames) : frames'[i] = r[i]
        /\ frames'[Len(frames) + 1] = fr
    BY <1>3, <1>9, <1>10
  <2>2. \A i \in 1..Len(frames') : FrameHolds(frames'[i], live + 3, y.mem)
    BY <1>10, <1>11, <1>12, <2>1 DEF StackHolds
  <2>3. ASSUME NEW i \in 1..Len(frames'), NEW j \in 1..Len(frames'), i < j
        PROVE  frames'[i].base + 3 <= frames'[j].base
    <3>1. CASE j <= Len(frames)
      BY <1>10, <1>11, <2>1, <2>3, <3>1 DEF StackHolds
    <3>2. CASE j = Len(frames) + 1
      <4>1. i \in 1..Len(frames) /\ frames[i] \in FrameType
        BY <1>1, <1>10, <2>1, <2>3, <3>2
      <4>2. frames[i].base <= live /\ frames[i].base \in Nat
        BY <1>1, <4>1 DEF StackHolds, FrameHolds, FrameType
      <4> QED BY <1>1, <1>9, <1>10, <2>1, <3>2, <4>1, <4>2
    <3> QED BY <1>10, <2>1, <3>1, <3>2
  <2> QED BY <2>1, <2>2, <2>3 DEF StackHolds
<1>14. live' \in Nat /\ m'.sp = SpAt(live') /\ StackHolds(frames', live', m'.mem)
  BY <1>1, <1>3, <1>4, <1>7, <1>13
<1> QED BY <1>3, <1>8, <1>13, <1>14, KeptBy

LEMMA IretKeeps == ASSUME DosInv, status = "running", Iret PROVE DosInv' /\ Resumed
<1> DEFINE x == Fetched
           L == Len(frames)
           top == frames[L]
           y == interrupt_restore(x)
<1>1. /\ MachineOK(m) /\ m.sp = SpAt(live) /\ live \in Nat /\ past \subseteq {BUFFER}
      /\ frames \in Seq(FrameType) /\ StackHolds(frames, live, m.mem)
  BY DEF DosInv, DosTypeOK, StackInv
<1>2. /\ frames # <<>> /\ top.base = live
      /\ frames' = SubSeq(frames, 1, L - 1) /\ live' = live - 3
      /\ UNCHANGED <<vectors, handles, ax, snap, past>>
  BY DEF Iret
<1>3. /\ L \in 1..L /\ top \in FrameType /\ FrameHolds(top, live, m.mem)
  BY <1>1, <1>2 DEF StackHolds
<1>4. live >= 3 /\ live' \in Nat /\ live - 3 \in Nat /\ top.sp = SpAt(live - 3)
  BY <1>1, <1>2, <1>3 DEF FrameHolds
<1>5. /\ frames' \in Seq(FrameType) /\ Len(frames') = L - 1
      /\ \A i \in 1..L - 1 : frames'[i] = frames[i]
  <2>1. L \in Nat /\ L >= 1 /\ 1 \in 1..L + 1 /\ L - 1 \in (1 - 1)..L
    BY <1>1, <1>3
  <2>2. /\ SubSeq(frames, 1, L - 1) \in Seq(FrameType)
        /\ Len(SubSeq(frames, 1, L - 1)) = IF 1 <= L - 1 THEN (L - 1) - 1 + 1 ELSE 0
        /\ \A i \in 1..(L - 1) - 1 + 1 : SubSeq(frames, 1, L - 1)[i] = frames[1 + i - 1]
    BY <1>1, <2>1, SubSeqProperties
  <2>3. /\ (IF 1 <= L - 1 THEN (L - 1) - 1 + 1 ELSE 0) = L - 1
        /\ (L - 1) - 1 + 1 = L - 1 /\ \A i \in 1..L - 1 : 1 + i - 1 = i
    <3> HIDE DEF L
    <3> QED BY <2>1
  <2> HIDE DEF L
  <2> QED BY <1>2, <2>2, <2>3
<1>6. StackHolds(frames', live - 3, m.mem)
  <2>1. ASSUME NEW i \in 1..Len(frames') PROVE FrameHolds(frames'[i], live - 3, m.mem)
    <3>1. /\ i \in 1..L /\ i < L /\ frames'[i] = frames[i] /\ frames[i] \in FrameType
          /\ FrameHolds(frames[i], live, m.mem)
      BY <1>1, <1>3, <1>5 DEF StackHolds
    <3>2. frames[i].base + 3 <= top.base /\ frames[i].base \in Nat
      BY <1>1, <1>3, <3>1 DEF StackHolds, FrameType
    <3>3. frames[i].base <= live - 3
      BY <1>1, <1>2, <3>2
    <3> QED BY <1>1, <3>1, <3>2, <3>3, MachineAssumption DEF FrameHolds
  <2>2. \A i, j \in 1..Len(frames') : i < j => frames'[i].base + 3 <= frames'[j].base
    BY <1>1, <1>3, <1>5 DEF StackHolds
  <2> QED BY <2>1, <2>2 DEF StackHolds
<1>7. CASE ~top.whole
  <2>1. status' = "lost" /\ UNCHANGED m
    BY <1>7 DEF Iret
  <2>2. MachineOK(m') /\ (Tells(m, snap, past) => Tells(m', snap, past))
    BY <1>1, <2>1
  <2> HIDE DEF top, L, x, y
  <2>3. DosInv'
    BY <1>2, <1>4, <1>5, <2>1, <2>2, KeptBy
  <2> QED BY <1>7, <2>3 DEF Resumed, top, L
<1>8. CASE top.whole
  <2>1. m' = y /\ status' = "running"
    BY <1>8 DEF Iret
  <2>2. /\ MachineOK(x) /\ x.sp = m.sp /\ x.mem = m.mem
        /\ \A s, p : Tells(m, s, p) => Tells(x, s, p)
    BY <1>1, FetchedFacts
  <2> DEFINE f == [top.f EXCEPT !.one = TRUE]
  <2>3. f \in FlagType /\ top.ip \in IpType /\ top.cs \in CsType
    BY <1>3 DEF FrameType, FlagType
  <2> HIDE DEF f, x
  <2>4. /\ x.mem[SpAt(live)] = top.ip /\ x.mem[SpAt(live - 1)] = top.cs
        /\ x.mem[SpAt(live - 2)] = Flags(f)
    BY <1>2, <1>3, <1>8, <2>2 DEF FrameHolds, Holds, f
  <2> HIDE DEF top
  <2>5. /\ MachineOK(y) /\ y.sp = SpAt(live - 3)
        /\ y.ip = x.mem[SpAt(live)] /\ y.cs = x.mem[SpAt(live - 1)] /\ y.f = f
        /\ y.mem = x.mem /\ y.tracked = x.tracked /\ y.tracking = x.tracking
        /\ \A s, p : Tells(x, s, p) => Tells(y, s, p)
    BY <1>1, <1>4, <2>2, <2>3, <2>4, RestoreFacts
  <2>6. /\ MachineOK(m') /\ (Tells(m, snap, past) => Tells(m', snap, past))
        /\ m'.sp = SpAt(live') /\ StackHolds(frames', live', m'.mem)
    BY <1>2, <1>6, <2>1, <2>2, <2>5
  <2>7. DosInv'
    BY <1>2, <1>4, <1>5, <2>1, <2>6, KeptBy
  <2>8. m'.cs = top.cs /\ m'.ip = top.ip /\ m'.sp = top.sp /\ m'.f = f
    BY <1>4, <2>1, <2>4, <2>5
  <2> QED BY <2>7, <2>8 DEF Resumed, top, L, f
<1> QED BY <1>7, <1>8

LEMMA PushKeeps == ASSUME DosInv, status = "running", Push PROVE DosInv'
<1> DEFINE x == Fetched
           y == stack_push(x, Data(1))
<1>1. /\ MachineOK(m) /\ m.sp = SpAt(live) /\ live \in Nat /\ live + 1 \in Nat
      /\ past \subseteq {BUFFER}
      /\ frames \in Seq(FrameType) /\ StackHolds(frames, live, m.mem)
  BY DEF DosInv, DosTypeOK, StackInv
<1>2. /\ MachineOK(x) /\ x.sp = m.sp /\ x.mem = m.mem
      /\ \A s, p : Tells(m, s, p) => Tells(x, s, p)
  BY <1>1, FetchedFacts
<1>3. /\ m' = y /\ frames' = Reached(live + 1) /\ live' = live + 1
      /\ UNCHANGED <<vectors, handles, ax, status, snap, past>>
  BY DEF Push
<1> HIDE DEF x
<1>4. /\ MachineOK(y) /\ y.sp = SpAt(live + 1) /\ y.mem = [x.mem EXCEPT ![SpAt(live + 1)] = Data(1)]
      /\ \A s, p : Tells(x, s, p) /\ p \subseteq {BUFFER} => Tells(y, s, p)
  BY <1>1, <1>2, PushFacts
<1> HIDE DEF y
<1>5. Reached(live + 1) \in Seq(FrameType)
  BY <1>1, ReachedFacts
<1>6. StackHolds(Reached(live + 1), live + 1, y.mem)
  <2>1. live + 1 \in live..live + 1 /\ live + 1 \in live + 1..live + 1
    BY <1>1
  <2>2. \A c \in Cells : (\A i \in live + 1..live + 1 : c # SpAt(i)) /\ c # BUFFER => y.mem[c] = m.mem[c]
    BY <1>2, <1>4, <2>1
  <2> QED BY <1>1, <2>1, <2>2, PushesKeep
<1>7. /\ MachineOK(m') /\ (Tells(m, snap, past) => Tells(m', snap, past))
      /\ m'.sp = SpAt(live') /\ StackHolds(frames', live', m'.mem)
      /\ frames' \in Seq(FrameType) /\ live' \in Nat /\ status' \in {"running", "lost"}
  BY <1>1, <1>2, <1>3, <1>4, <1>5, <1>6
<1> QED BY <1>3, <1>7, KeptBy

LEMMA PopKeepsAll == ASSUME DosInv, status = "running", Pop PROVE DosInv'
<1> DEFINE x == Fetched
           y == Drop(x)
<1>1. /\ MachineOK(m) /\ m.sp = SpAt(live) /\ live \in Nat
      /\ frames \in Seq(FrameType) /\ StackHolds(frames, live, m.mem)
  BY DEF DosInv, DosTypeOK, StackInv
<1>2. /\ MachineOK(x) /\ x.sp = m.sp /\ x.mem = m.mem
      /\ \A s, p : Tells(m, s, p) => Tells(x, s, p)
  BY <1>1, FetchedFacts
<1>3. /\ m' = y /\ live' = live - 1
      /\ UNCHANGED <<vectors, handles, ax, status, frames, snap, past>>
      /\ live > (IF frames = <<>> THEN 0 ELSE frames[Len(frames)].base)
  BY DEF Pop
<1> HIDE DEF x
<1>4. y = [x EXCEPT !.sp = SpAt(live - 1)] /\ SpAt(live - 1) \in SpType
  BY <1>1, <1>2, DropFacts
<1> HIDE DEF y
<1>5. y = [cs |-> x.cs, ip |-> x.ip, f |-> x.f, sp |-> SpAt(live - 1), mem |-> x.mem,
           tracked |-> x.tracked, tracking |-> x.tracking]
  BY <1>2, <1>4 DEF MachineOK
<1>6. /\ y.cs = x.cs /\ y.ip = x.ip /\ y.f = x.f /\ y.sp = SpAt(live - 1) /\ y.mem = x.mem
      /\ y.tracked = x.tracked /\ y.tracking = x.tracking
  BY <1>5
<1>7. MachineOK(y) /\ \A s, p : Tells(x, s, p) => Tells(y, s, p)
  BY <1>2, <1>4, <1>5, <1>6 DEF MachineOK, Tells
<1>8. live > 0 /\ (frames # <<>> => frames[Len(frames)].base < live)
  <2>1. CASE frames = <<>>
    BY <1>1, <1>3, <2>1
  <2>2. CASE frames # <<>>
    <3>1. frames[Len(frames)] \in FrameType
      BY <1>1, <2>2
    <3>2. frames[Len(frames)].base \in Nat
      BY <3>1 DEF FrameType
    <3> QED BY <1>1, <1>3, <2>2, <3>2
  <2> QED BY <2>1, <2>2
<1>9. StackHolds(frames, live - 1, m.mem)
  BY <1>1, <1>8, PopKeeps
<1>10. /\ MachineOK(m') /\ (Tells(m, snap, past) => Tells(m', snap, past))
       /\ m'.sp = SpAt(live') /\ StackHolds(frames', live', m'.mem)
       /\ frames' \in Seq(FrameType) /\ live' \in Nat /\ status' \in {"running", "lost"}
  BY <1>1, <1>2, <1>3, <1>6, <1>7, <1>8, <1>9
<1> QED BY <1>3, <1>10, KeptBy

LEMMA SetFlagKeeps == ASSUME DosInv, status = "running", SetFlag PROVE DosInv'
<1> DEFINE x == Fetched
<1>1. /\ MachineOK(m) /\ m.sp = SpAt(live) /\ live \in Nat
      /\ frames \in Seq(FrameType) /\ StackHolds(frames, live, m.mem)
  BY DEF DosInv, DosTypeOK, StackInv
<1>2. /\ MachineOK(x) /\ x.sp = m.sp /\ x.mem = m.mem
      /\ \A s, p : Tells(m, s, p) => Tells(x, s, p)
  BY <1>1, FetchedFacts
<1>3. /\ m' \in {[x EXCEPT !.f.CF = TRUE], [x EXCEPT !.f.IFL = ~@]}
      /\ UNCHANGED <<vectors, handles, ax, status, frames, live, snap, past>>
  BY DEF SetFlag
<1> HIDE DEF x
<1>4. PICK f \in FlagType : m' = [x EXCEPT !.f = f]
  <2> DEFINE f1 == [x.f EXCEPT !.CF = TRUE]
             f2 == [x.f EXCEPT !.IFL = ~x.f.IFL]
  <2>1. f1 \in FlagType /\ f2 \in FlagType
    BY <1>2 DEF MachineOK, FlagType
  <2>2. m' = [x EXCEPT !.f = f1] \/ m' = [x EXCEPT !.f = f2]
    BY <1>3
  <2> HIDE DEF f1, f2
  <2> QED BY <2>1, <2>2
<1>5. m' = [cs |-> x.cs, ip |-> x.ip, f |-> f, sp |-> x.sp, mem |-> x.mem,
            tracked |-> x.tracked, tracking |-> x.tracking]
  BY <1>2, <1>4 DEF MachineOK
<1>6. /\ m'.cs = x.cs /\ m'.ip = x.ip /\ m'.f = f /\ m'.sp = x.sp /\ m'.mem = x.mem
      /\ m'.tracked = x.tracked /\ m'.tracking = x.tracking
  BY <1>5
<1>7. MachineOK(m') /\ (Tells(m, snap, past) => Tells(m', snap, past))
  BY <1>2, <1>5, <1>6 DEF MachineOK, Tells
<1>8. /\ m'.sp = SpAt(live') /\ StackHolds(frames', live', m'.mem)
      /\ frames' \in Seq(FrameType) /\ live' \in Nat /\ status' \in {"running", "lost"}
  BY <1>1, <1>2, <1>3, <1>6
<1> QED BY <1>3, <1>7, <1>8, KeptBy

\* Arming the tracker: nothing is written, and nothing has changed yet.
LEMMA TrackingKeeps == ASSUME DosInv, status = "running", begin_write_tracking PROVE DosInv'
<1>1. /\ m' = [m EXCEPT !.tracking = TRUE, !.tracked = Off]
      /\ snap' = m.mem /\ past' = {}
      /\ UNCHANGED <<vectors, handles, ax, status, frames, live>>
  BY DEF begin_write_tracking
<1>2. DosTypeOK /\ MachineOK(m) /\ StackInv
  BY DEF DosInv, DosTypeOK
<1>3. m' = [cs |-> m.cs, ip |-> m.ip, f |-> m.f, sp |-> m.sp, mem |-> m.mem,
            tracked |-> Off, tracking |-> TRUE]
  BY <1>1, <1>2 DEF MachineOK
<1>4. /\ m'.cs = m.cs /\ m'.ip = m.ip /\ m'.f = m.f /\ m'.sp = m.sp /\ m'.mem = m.mem
      /\ m'.tracked = Off /\ m'.tracking = TRUE
  BY <1>3
<1>5. DOMAIN Off = {}
  BY DEF Off
<1>6. MachineOK(m') /\ MemoryOK(snap')
  BY <1>1, <1>2, <1>3, <1>4, <1>5 DEF MachineOK
<1>7. DosTypeOK'
  BY <1>1, <1>2, <1>6 DEF DosTypeOK
<1>8. StackInv'
  BY <1>1, <1>2, <1>4 DEF StackInv
<1>9. TrackerExact'
  BY <1>1, <1>4, <1>5 DEF TrackerExact
<1> QED BY <1>7, <1>8, <1>9 DEF DosInv

-----------------------------------------------------------------------------
(* The theorems. *)

LEMMA MachineStart == ASSUME Init PROVE DosInv /\ PortsInv
<1>1. /\ m = [cs |-> Cs("main"), ip |-> Ip(0), f |-> Flag(FALSE, TRUE, FALSE), sp |-> 0,
              mem |-> [a \in Cells |-> Data(0)], tracked |-> Off, tracking |-> FALSE]
      /\ vectors = [n \in Hookable |-> "default"]
      /\ handles = [h \in Slots |-> IF h < STD_HANDLES THEN Device ELSE NoEntry]
      /\ ax = 0 /\ status = "running" /\ frames = <<>> /\ live = 0
      /\ snap = m.mem /\ past = {} /\ PortsInit
  BY DEF Init
<1>2. /\ m.cs = Cs("main") /\ m.ip = Ip(0) /\ m.f = Flag(FALSE, TRUE, FALSE) /\ m.sp = 0
      /\ m.mem = [a \in Cells |-> Data(0)] /\ m.tracked = Off /\ m.tracking = FALSE
  BY <1>1
<1>3. /\ Cs("main") \in CsType /\ Ip(0) \in IpType /\ Flag(FALSE, TRUE, FALSE) \in FlagType
      /\ 0 \in SpType /\ DOMAIN Off = {} /\ MemoryOK([a \in Cells |-> Data(0)])
  BY MachineAssumption DEF CsType, IpType, Code, FlagType, Flag, SpType, Off, MemoryOK
<1>4. MachineOK(m) /\ MemoryOK(snap)
  BY <1>1, <1>2, <1>3 DEF MachineOK
<1>5. DosTypeOK
  BY <1>1, <1>4 DEF DosTypeOK, EntryType
<1>6. SpAt(0) = 0
  BY SmallRemainder, MachineAssumption DEF SpAt
<1>7. StackInv
  BY <1>1, <1>2, <1>6 DEF StackInv, StackHolds
<1>8. TrackerExact
  BY <1>2 DEF TrackerExact
<1>9. PortsInv
  BY <1>1, PortsStart, PortsAssumption
<1> QED BY <1>5, <1>7, <1>8, <1>9 DEF DosInv

LEMMA MachineKeeps == ASSUME DosInv, PortsInv, [Next]_vars PROVE DosInv' /\ PortsInv'
<1>1. CASE UNCHANGED vars
  <2>1. UNCHANGED dosVars /\ UNCHANGED portVars
    BY <1>1 DEF vars
  <2> QED BY <2>1, PortsIdle DEF dosVars, DosInv, DosTypeOK, StackInv, TrackerExact
<1>2. CASE status = "running" /\ (Cpu \/ FileCalls \/ OtherCalls) /\ UNCHANGED portVars
  <2>1. PortsInv'
    BY <1>2, PortsIdle
  <2>2. CASE \E n \in Hookable : Interrupt(n)
    BY <1>2, <2>1, <2>2, InterruptKeeps
  <2>3. CASE Iret
    BY <1>2, <2>1, <2>3, IretKeeps
  <2>4. CASE Push
    BY <1>2, <2>1, <2>4, PushKeeps
  <2>5. CASE Pop
    BY <1>2, <2>1, <2>5, PopKeepsAll
  <2>6. CASE SetFlag
    BY <1>2, <2>1, <2>6, SetFlagKeeps
  <2>7. CASE begin_write_tracking
    BY <1>2, <2>1, <2>7, TrackingKeeps
  <2>8. CASE ServedCall
    BY <1>2, <2>1, <2>8, ServicesKeep
  <2> QED BY <1>2, <2>2, <2>3, <2>4, <2>5, <2>6, <2>7, <2>8 DEF Cpu, ServedCall
<1>3. CASE PortsNext /\ UNCHANGED dosVars
  <2>1. PortsInv'
    BY <1>3, PortsKept, PortsAssumption
  <2> QED BY <1>3, <2>1 DEF dosVars, DosInv, DosTypeOK, StackInv, TrackerExact
<1> QED BY <1>1, <1>2, <1>3 DEF Next

\* The machine is always well typed, its stack pointer is where the words on
\* the stack put it and the frames of the interrupts that have not returned
\* lie on it whole, the tracker is exact and the timers keep time.
THEOREM MachineSound == Spec => [](DosInv /\ PortsInv)
<1>1. Init => DosInv /\ PortsInv
  BY MachineStart
<1>2. (DosInv /\ PortsInv) /\ [Next]_vars => (DosInv /\ PortsInv)'
  BY MachineKeeps
<1> QED BY <1>1, <1>2, PTL DEF Spec

\* The write tracker (mem.rs) holds the first old value of every cell that
\* changed since it was armed, file reads aside, for every stack and program.
THEOREM TrackerAlwaysExact == Spec => []TrackerExact
<1>1. DosInv => TrackerExact
  BY DEF DosInv
<1> QED BY <1>1, MachineSound, PTL

\* The AdLib timers (adlib.rs) keep time, for every tick, period and counter
\* width and every order of port accesses.
THEOREM TimersAlwaysExact == Spec => []TimerExact
<1>1. PortsInv => TimerExact
  BY TimersExact
<1> QED BY <1>1, MachineSound, PTL

LEMMA InvisibleStep ==
  ASSUME DosInv, PortsInv, [Next]_vars
  PROVE  [ /\ Len(frames') < Len(frames) => Resumed
           /\ (ServedCall /\ status' = "running") => Continued ]_dosVars
<1>1. SUFFICES ASSUME ~ UNCHANGED dosVars
               PROVE  /\ Len(frames') < Len(frames) => Resumed
                      /\ (ServedCall /\ status' = "running") => Continued
  OBVIOUS
<1>2. frames \in Seq(FrameType) /\ DosTypeOK /\ live \in Nat
  BY DEF DosInv, DosTypeOK
<1>3. status = "running" /\ (Cpu \/ FileCalls \/ OtherCalls)
  BY <1>1 DEF Next, vars
<1>4. ASSUME ServedCall, status' = "running" PROVE Continued
  BY <1>3, <1>4, ServicesKeep
<1>5. ASSUME Len(frames') < Len(frames) PROVE Resumed
  <2>1. Len(frames) \in Nat /\ live + 1 \in Nat /\ live + 3 \in Nat
    BY <1>2
  <2>2. Len(Reached(live + 1)) = Len(frames) /\ Len(Reached(live + 3)) = Len(frames)
        /\ Reached(live + 3) \in Seq(FrameType)
    BY <1>2, <2>1, ReachedFacts
  <2>3. CASE \E n \in Hookable : Interrupt(n)
    <3>1. PICK n \in Hookable : Interrupt(n)
      BY <2>3
    <3> DEFINE fr == [cs |-> m.cs, ip |-> Fetched.ip, f |-> m.f, sp |-> m.sp,
                      base |-> live + 3, whole |-> TRUE]
    <3>2. frames' = Append(Reached(live + 3), fr)
      BY <3>1 DEF Interrupt
    <3> HIDE DEF fr
    <3>3. Len(frames') = Len(frames) + 1
      <4> DEFINE r == Reached(live + 3)
      <4>1. r \in Seq(FrameType) /\ Len(r) = Len(frames) /\ frames' = Append(r, fr)
        BY <2>2, <3>2
      <4> HIDE DEF r
      <4>2. r \in Seq(FrameType \union {fr}) /\ fr \in FrameType \union {fr}
        BY <4>1
      <4> QED BY <4>1, <4>2
    <3> QED BY <1>5, <2>1, <3>3
  <2>4. CASE Iret
    BY <1>3, <2>4, IretKeeps
  <2>5. CASE Push
    BY <1>5, <2>1, <2>2, <2>5 DEF Push
  <2>6. CASE Pop \/ SetFlag \/ begin_write_tracking
    BY <1>5, <2>1, <2>6 DEF Pop, SetFlag, begin_write_tracking
  <2>7. CASE ServedCall
    BY <1>2, <1>5, <2>1, <2>2, <2>7, ServedCallForm DEF Panics, Serves
  <2> QED BY <1>3, <2>3, <2>4, <2>5, <2>6, <2>7 DEF Cpu, ServedCall
<1> QED BY <1>4, <1>5

\* INT and IRET (interrupt.rs), and INT around a built-in service, are
\* invisible to the code they interrupt however the handlers nest, for every
\* size of the stack.
THEOREM InterruptsAlwaysInvisible == Spec => InterruptsInvisible
<1>1. (DosInv /\ PortsInv) /\ [Next]_vars =>
        [ /\ Len(frames') < Len(frames) => Resumed
          /\ (ServedCall /\ status' = "running") => Continued ]_dosVars
  BY InvisibleStep
<1> QED BY <1>1, MachineSound, PTL DEF Spec, InterruptsInvisible

\* The file services of INT 21h (dos_filesystem.rs) implement the table of
\* handles a program relies on: an open gives a handle nobody holds, and no
\* service moves the position of another handle.
THEOREM HandleTableImplemented == Spec => ImplementsHandleTable
<1>1. Init => Files_!Init
  BY MachineAssumption DEF Init, Files_!Init, Slots
<1>2. (DosInv /\ PortsInv) /\ [Next]_vars => [Files_!Next]_<<handles, ax>>
  <2> SUFFICES ASSUME DosInv, [Next]_vars PROVE [Files_!Next]_<<handles, ax>>
    OBVIOUS
  <2>1. CASE ServedCall
    BY <2>1, TableStep DEF DosInv, FileStep
  <2>2. CASE UNCHANGED <<handles, ax>>
    BY <2>2
  <2>3. CASE (\E n \in Hookable : Interrupt(n)) \/ Iret \/ Push \/ Pop \/ SetFlag
             \/ begin_write_tracking
    BY <2>3 DEF Interrupt, Iret, Push, Pop, SetFlag, begin_write_tracking
  <2> QED BY <2>1, <2>2, <2>3 DEF Next, vars, dosVars, Cpu, ServedCall
<1> QED BY <1>1, <1>2, MachineSound, PTL DEF Spec, ImplementsHandleTable, Files_!Spec
=============================================================================
