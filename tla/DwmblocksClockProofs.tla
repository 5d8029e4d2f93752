------------------------- MODULE DwmblocksClockProofs -------------------------
(***************************************************************************)
(* Proofs about the timer, for any number of blocks and any intervals.     *)
(*                                                                         *)
(* time counts modulo the largest interval, so it says how long a block    *)
(* has waited only up to whole intervals (Waited): the tick divides all    *)
(* that is counted, hence no interval is jumped over, neither when time    *)
(* wraps nor in between.                                                   *)
(***************************************************************************)
EXTENDS DwmblocksClock, DwmblocksTimerProofs

USE ClockAssumption

\* The time at the alarm to come, where 0 stands for a full turn.
now == IF time = 0 THEN reset_value ELSE time

\* Block b has waited idle[b] seconds since time was a multiple of its interval.
Waited(b) ==
  /\ idle[b] \in 1 .. interval[b]
  /\ \E q \in Nat : now = interval[b] * q + idle[b]

\* Before the kickstart, or with an alarm to come.
ClockInv ==
  /\ interval \in [Block -> 0 .. MaxInterval]
  /\ \/ time = reset_value /\ \A b \in Block : idle[b] = 0
     \/ /\ time \in Nat /\ time < reset_value
        /\ \A b \in Block : interval[b] # 0 => Waited(b) /\ Divides(tick, time)

LEMMA Intervals ==
  ASSUME interval \in [Block -> 0 .. MaxInterval]
  PROVE  /\ \A b \in Block : interval[b] \in Nat /\ interval[b] <= MaxInterval
         /\ IsGcd(tick, Of(interval, Block)) /\ tick \in Nat
         /\ reset_value \in Positive
         /\ \A b \in Block : interval[b] <= reset_value
         /\ reset_value = 1 \/ \E b \in Block : reset_value = interval[b]
<1>1. DOMAIN interval = Block /\ \A b \in Block : interval[b] \in 0 .. MaxInterval
  OBVIOUS
<1>2. \A b \in Block : interval[b] \in Nat /\ interval[b] <= MaxInterval
  BY <1>1
<1>3. IsGcd(tick, Of(interval, Block))
  BY <1>1, <1>2, TickLemma DEF tick
<1>4. /\ reset_value \in Positive
      /\ \A b \in Block : interval[b] <= reset_value
      /\ reset_value = 1 \/ \E b \in Block : reset_value = interval[b]
  BY <1>1, <1>2, ResetLemma DEF reset_value
<1> QED BY <1>2, <1>3, <1>4 DEF IsGcd

\* If a block has an interval, the tick divides all of them and their maximum.
LEMMA Ticks ==
  ASSUME interval \in [Block -> 0 .. MaxInterval], NEW b \in Block, interval[b] # 0
  PROVE  /\ tick \in Positive
         /\ \A c \in Block : Divides(tick, interval[c])
         /\ Divides(tick, reset_value)
         /\ interval[b] \in Positive /\ tick <= interval[b]
<1>1. interval[b] \in Positive
  BY Intervals DEF Positive
<1>2. tick # 0
  <2>1. SUFFICES ASSUME tick = 0 PROVE FALSE
    OBVIOUS
  <2>2. interval[b] + 1 \in Positive
    BY <1>1 DEF Positive
  <2>3. Divides(interval[b] + 1, tick)
    BY <2>1, <2>2, DividesSelf DEF Positive
  <2>4. Divides(interval[b] + 1, interval[b])
    BY <2>2, <2>3, Intervals DEF IsGcd, Of
  <2>5. interval[b] + 1 <= interval[b]
    BY <1>1, <2>2, <2>4, DividesLess
  <2> QED BY <1>1, <2>5 DEF Positive
<1>3. tick \in Positive
  BY <1>2, Intervals DEF Positive
<1>4. \A c \in Block : Divides(tick, interval[c])
  <2>1. Divides(tick, tick)
    BY <1>3, DividesSelf DEF Positive
  <2> QED BY <1>3, <2>1, Intervals DEF IsGcd, Of
<1>5. tick <= interval[b]
  BY <1>1, <1>3, <1>4, DividesLess
<1>6. Divides(tick, reset_value)
  <2>1. CASE reset_value = 1
    <3>1. interval[b] = 1
      BY <1>1, <2>1, Intervals DEF Positive
    <3> QED BY <1>4, <2>1, <3>1
  <2>2. CASE reset_value # 1
    <3>1. PICK c \in Block : reset_value = interval[c]
      BY <2>2, Intervals
    <3> QED BY <1>4, <3>1
  <2> QED BY <2>1, <2>2
<1> QED BY <1>1, <1>3, <1>4, <1>5, <1>6

LEMMA InitClock == Init => ClockInv
  BY DEF Init, ClockInv, reset_value

\* A number below a multiple of d that d divides is below it by d.
LEMMA NextMultiple ==
  ASSUME NEW d \in Positive, NEW m \in Nat, NEW n \in Nat,
         Divides(d, m), Divides(d, n), m < n
  PROVE  m + d <= n
<1>1. PICK p \in Nat : m = d * p
  BY DEF Divides
<1>2. PICK q \in Nat : n = d * q
  BY DEF Divides
<1>3. p < q
  <2>1. ASSUME q <= p PROVE FALSE
    <3>1. d * q <= d * p
      BY <2>1 DEF Positive
    <3> QED BY <1>1, <1>2, <3>1
  <2> QED BY <2>1
<1>4. d * p + d <= d * q
  BY <1>3 DEF Positive
<1> QED BY <1>1, <1>2, <1>4

\* The next alarm is one tick later, on a clock that shows reset_value as 0.
LEMMA NowLemma ==
  ASSUME ClockInv, trigger_event, NEW b \in Block, interval[b] # 0
  PROVE  LET t == IF time = reset_value THEN 0 ELSE time
         IN  /\ time' \in Nat /\ time' < reset_value /\ Divides(tick, time')
             /\ now' = t + tick
<1> DEFINE t == IF time = reset_value THEN 0 ELSE time
<1>1. /\ tick \in Positive /\ tick \in Nat /\ reset_value \in Positive
      /\ reset_value \in Nat /\ reset_value > 0
      /\ Divides(tick, reset_value) /\ Divides(tick, tick)
  BY Ticks, Intervals, DividesSelf DEF ClockInv, Positive
<1>2. t \in Nat /\ t < reset_value /\ Divides(tick, t)
  <2>1. Divides(tick, 0)
    BY <1>1, DividesSelf
  <2> QED BY <1>1, <2>1 DEF ClockInv
<1>3. t + tick <= reset_value
  BY <1>1, <1>2, NextMultiple
<1>4. Divides(tick, t + tick)
  BY <1>1, <1>2, DividesSum
<1>5. time' = (time + tick) % reset_value
  BY DEF trigger_event, timer_arm, tick, reset_value
<1>6. time' = (t + tick) % reset_value
  <2>1. CASE time = reset_value
    <3>1. tick = reset_value * 0 + tick /\ time + tick = reset_value * 1 + tick
      BY <1>1, <2>1
    <3>2. CASE tick < reset_value
      <4>1. tick \in 0 .. (reset_value - 1)
        BY <1>1, <3>2
      <4> QED BY <1>1, <1>5, <2>1, <3>1, <4>1, ModUnique
    <3>3. CASE tick = reset_value
      <4>1. time + tick = reset_value * 2 + 0 /\ t + tick = reset_value * 1 + 0
        BY <1>1, <2>1, <3>3
      <4>2. 0 \in 0 .. (reset_value - 1)
        BY <1>1
      <4> QED BY <1>1, <1>5, <4>1, <4>2, ModUnique
    <3> QED BY <1>1, <1>3, <2>1, <3>2, <3>3
  <2>2. CASE time # reset_value
    BY <1>5, <2>2
  <2> QED BY <2>1, <2>2
<1>7. reset_value' = reset_value
  BY DEF trigger_event, reset_value
<1> HIDE DEF t
<1>8. CASE t + tick < reset_value
  <2>1. t + tick = reset_value * 0 + (t + tick) /\ t + tick \in 0 .. (reset_value - 1)
    BY <1>1, <1>2, <1>8
  <2>2. time' = t + tick
    BY <1>1, <1>6, <2>1, ModUnique
  <2>3. t + tick \in Nat /\ t + tick # 0
    BY <1>1, <1>2 DEF Positive
  <2>4. now' = t + tick
    BY <2>2, <2>3 DEF now
  <2> QED BY <1>4, <1>8, <2>2, <2>3, <2>4 DEF t
<1>9. CASE t + tick = reset_value
  <2>1. t + tick = reset_value * 1 + 0 /\ 0 \in 0 .. (reset_value - 1)
    BY <1>1, <1>9
  <2>2. time' = 0
    BY <1>1, <1>6, <2>1, ModUnique
  <2>3. now' = reset_value /\ Divides(tick, 0)
    BY <1>1, <1>7, <2>2, DividesSelf DEF now
  <2> QED BY <1>1, <1>9, <2>2, <2>3 DEF t
<1> QED BY <1>1, <1>2, <1>3, <1>8, <1>9

\* A block runs if time is a multiple of its interval, and has waited that long.
LEMMA DueLemma ==
  ASSUME ClockInv, NEW b \in Block, interval[b] # 0, time # reset_value
  PROVE  /\ b \in Due <=> Divides(interval[b], time)
         /\ b \in Due /\ time # 0 => idle[b] = interval[b]
<1> DEFINE n == interval[b]
<1>1. n \in Positive /\ n \in Nat /\ time \in Nat
  BY Ticks DEF ClockInv, Positive
<1>2. b \in Due <=> time % n = 0
  BY DEF Due, timer_must_run_block, reset_value
<1>3. b \in Due <=> Divides(n, time)
  BY <1>1, <1>2, ModZero
<1>4. ASSUME Divides(n, time), time # 0 PROVE idle[b] = n
  <2>1. Waited(b)
    BY DEF ClockInv
  <2>2. idle[b] \in Positive /\ idle[b] \in Nat /\ idle[b] <= n
    BY <1>1, <2>1 DEF Waited, Positive
  <2>3. PICK q \in Nat : time = n * q + idle[b]
    BY <1>4, <2>1 DEF Waited, now
  <2>4. Divides(n, n * q) /\ n * q \in Nat
    BY <1>1, DividesTimes, DividesSelf
  <2>5. Divides(n, idle[b])
    BY <1>1, <1>4, <2>2, <2>3, <2>4, DividesSum
  <2>6. n <= idle[b]
    BY <1>1, <2>2, <2>5, DividesLess
  <2> QED BY <1>1, <2>2, <2>6
<1> QED BY <1>3, <1>4

LEMMA WaitedStep ==
  ASSUME ClockInv, trigger_event, NEW b \in Block, interval[b] # 0
  PROVE  Waited(b)'
<1> DEFINE n == interval[b]
           t == IF time = reset_value THEN 0 ELSE time
<1>1. /\ tick \in Positive /\ tick \in Nat /\ n \in Positive /\ n \in Nat /\ tick <= n
      /\ Divides(tick, n)
  BY Ticks DEF ClockInv, Positive
<1>2. now' = t + tick
  BY NowLemma
<1>3. interval'[b] = n
  BY DEF trigger_event
<1>4. idle'[b] = tick + IF b \in Due THEN 0 ELSE idle[b]
  BY DEF trigger_event
<1> HIDE DEF n
<1>5. CASE b \in Due
  <2>1. idle'[b] = tick /\ idle'[b] \in 1 .. n
    BY <1>1, <1>4, <1>5 DEF Positive
  <2>2. t \in Nat /\ Divides(n, t)
    <3>1. CASE time = reset_value
      BY <1>1, <3>1, DividesSelf
    <3>2. CASE time # reset_value
      BY <1>5, <3>2, DueLemma DEF ClockInv, n
    <3> QED BY <3>1, <3>2
  <2>3. PICK q \in Nat : t = n * q
    BY <2>2 DEF Divides
  <2>4. now' = n * q + idle'[b]
    BY <1>2, <2>1, <2>3
  <2> QED BY <1>3, <2>1, <2>4 DEF Waited
<1>6. CASE b \notin Due
  <2>1. time # reset_value
    BY <1>6 DEF Due, timer_must_run_block, reset_value
  <2>2. t = time /\ time \in Nat /\ Divides(tick, time) /\ Waited(b) /\ ~Divides(n, time)
    BY <1>6, <2>1, DueLemma DEF ClockInv, n
  <2>3. time # 0
    BY <1>1, <2>2, DividesSelf
  <2>4. PICK q \in Nat : time = n * q + idle[b]
    BY <2>2, <2>3 DEF Waited, now, n
  <2>5. idle[b] \in 1 .. n /\ idle[b] \in Nat
    BY <1>1, <2>2 DEF Waited, n
  <2>6. Divides(tick, n * q) /\ n * q \in Nat
    <3>1. n * q \in Nat
      BY <1>1
    <3> QED BY <1>1, <3>1, DividesTimes
  <2>7. Divides(tick, idle[b])
    BY <1>1, <2>2, <2>4, <2>5, <2>6, DividesSum
  <2>8. idle[b] # n
    <3>1. ASSUME idle[b] = n PROVE Divides(n, time)
      <4>1. time = n * (q + 1) /\ q + 1 \in Nat
        BY <1>1, <2>4, <3>1
      <4> QED BY <4>1 DEF Divides
    <3> QED BY <2>2, <3>1
  <2>9. idle[b] + tick <= n
    BY <1>1, <2>5, <2>7, <2>8, NextMultiple
  <2>10. idle'[b] = idle[b] + tick /\ idle'[b] \in 1 .. n
    BY <1>1, <1>4, <1>6, <2>5, <2>9 DEF Positive
  <2>11. now' = n * q + idle'[b]
    BY <1>1, <1>2, <2>2, <2>4, <2>5, <2>6, <2>10
  <2> QED BY <1>3, <2>10, <2>11 DEF Waited
<1> QED BY <1>5, <1>6

LEMMA StepClock == ClockInv /\ [Next]_vars => ClockInv'
<1> SUFFICES ASSUME ClockInv, [Next]_vars PROVE ClockInv'
  OBVIOUS
<1>1. CASE UNCHANGED vars
  <2>1. /\ interval' = interval /\ time' = time /\ idle' = idle
    BY <1>1 DEF vars
  <2> QED BY <2>1 DEF ClockInv, Waited, now, tick, reset_value
<1>2. CASE trigger_event
  <2>1. interval' = interval /\ tick' = tick /\ reset_value' = reset_value
    BY <1>2 DEF trigger_event, tick, reset_value
  <2>2. interval' \in [Block -> 0 .. MaxInterval]
    BY <2>1 DEF ClockInv
  <2>3. \A b \in Block : interval'[b] # 0 => Waited(b)' /\ Divides(tick', time')
    BY <1>2, <2>1, NowLemma, WaitedStep
  <2>4. time' \in Nat /\ time' < reset_value'
    <3>1. time \in Nat /\ tick \in Nat /\ reset_value \in Positive
      BY Intervals DEF ClockInv, Positive
    <3>2. time' = (time + tick) % reset_value
      BY <1>2 DEF trigger_event, timer_arm, tick, reset_value
    <3>3. time + tick \in Nat
      BY <3>1
    <3>4. time' \in 0 .. (reset_value - 1)
      BY <3>1, <3>2, <3>3, DivMod
    <3> QED BY <2>1, <3>1, <3>4 DEF Positive
  <2> QED BY <2>2, <2>3, <2>4 DEF ClockInv
<1> QED BY <1>1, <1>2 DEF Next

\* The alarm is set to the greatest number of seconds that divides every
\* interval (compute_tick, gcd).
THEOREM TickAlwaysGreatest == Spec => []TickIsGreatest
<1>1. ClockInv => TickIsGreatest
  <2> SUFFICES ASSUME ClockInv PROVE TickIsGreatest
    OBVIOUS
  <2>1. interval \in [Block -> 0 .. MaxInterval]
    BY DEF ClockInv
  <2>2. CASE \A b \in Block : interval[b] = 0
    <3>1. \A d \in Positive : Divides(d, tick)
      BY <2>1, <2>2, Intervals, DividesSelf DEF IsGcd, Of, Positive
    <3>2. tick = 0
      <4>1. SUFFICES ASSUME tick # 0 PROVE FALSE
        OBVIOUS
      <4>2. tick \in Positive /\ tick + 1 \in Positive
        BY <2>1, <4>1, Intervals DEF Positive
      <4>3. tick + 1 <= tick
        BY <3>1, <4>2, DividesLess
      <4> QED BY <4>2, <4>3 DEF Positive
    <3> QED BY <2>2, <3>2 DEF TickIsGreatest
  <2>3. CASE ~(\A b \in Block : interval[b] = 0)
    <3>1. PICK b \in Block : interval[b] # 0
      BY <2>3
    <3>2. /\ tick \in Positive /\ \A c \in Block : Divides(tick, interval[c])
          /\ tick # 0
      BY <2>1, <3>1, Ticks DEF Positive
    <3>3. \A c \in Block : interval[c] % tick = 0
      BY <2>1, <3>2, Intervals, ModZero
    <3>4. ASSUME NEW d \in 1 .. MaxInterval, \A c \in Block : interval[c] % d = 0
          PROVE  d <= tick
      <4>1. d \in Positive
        BY DEF Positive
      <4>2. \A c \in Block : Divides(d, interval[c])
        BY <2>1, <3>4, <4>1, Intervals, ModZero
      <4>3. Divides(d, tick)
        BY <2>1, <4>1, <4>2, Intervals DEF IsGcd, Of
      <4> QED BY <3>2, <4>1, <4>3, DividesLess
    <3> QED BY <3>2, <3>3, <3>4 DEF TickIsGreatest
  <2> QED BY <2>2, <2>3
<1> QED BY InitClock, StepClock, <1>1, PTL DEF Spec

\* No block waits longer than its interval between two runs, although time
\* wraps at the largest one (timer_arm, timer_must_run_block).
THEOREM NeverAnyLate == Spec => []NeverLate
<1>1. ClockInv => NeverLate
  <2> SUFFICES ASSUME ClockInv, NEW b \in Block, interval[b] # 0
               PROVE  idle[b] <= interval[b]
    BY DEF NeverLate
  <2>1. interval[b] \in Nat
    BY Intervals DEF ClockInv
  <2> QED BY <2>1 DEF ClockInv, Waited
<1> QED BY InitClock, StepClock, <1>1, PTL DEF Spec

\* A block whose interval divides the largest one runs exactly when its
\* interval has passed (trigger_event).
THEOREM AlwaysOnTime == Spec => OnTime
<1> DEFINE A == \A b \in Due :
                  interval[b] # 0 /\ reset_value % interval[b] = 0 /\ time # reset_value
                    => idle[b] = interval[b]
<1>1. ClockInv /\ [Next]_vars => [A]_vars
  <2> SUFFICES ASSUME ClockInv, NEW b \in Due, interval[b] # 0,
                      reset_value % interval[b] = 0, time # reset_value
               PROVE  idle[b] = interval[b]
    OBVIOUS
  <2>1. b \in Block
    BY DEF Due
  <2>2. CASE time # 0
    BY <2>1, <2>2, DueLemma
  <2>3. CASE time = 0
    <3> DEFINE n == interval[b]
    <3>1. n \in Positive /\ n \in Nat /\ reset_value \in Positive /\ reset_value \in Nat
      BY <2>1, Ticks, Intervals DEF ClockInv, Positive
    <3>2. Waited(b)
      BY <2>1 DEF ClockInv
    <3>3. idle[b] \in Positive /\ idle[b] \in Nat /\ idle[b] <= n
      BY <3>1, <3>2 DEF Waited, Positive
    <3>4. PICK q \in Nat : reset_value = n * q + idle[b]
      BY <2>3, <3>2 DEF Waited, now
    <3>5. Divides(n, reset_value)
      BY <3>1, ModZero
    <3>6. Divides(n, n * q) /\ n * q \in Nat
      BY <3>1, DividesTimes, DividesSelf
    <3>7. Divides(n, idle[b])
      BY <3>1, <3>3, <3>4, <3>5, <3>6, DividesSum
    <3>8. n <= idle[b]
      BY <3>1, <3>3, <3>7, DividesLess
    <3> QED BY <3>1, <3>3, <3>8
  <2> QED BY <2>2, <2>3
<1> QED BY InitClock, StepClock, <1>1, PTL DEF Spec, OnTime
=============================================================================
