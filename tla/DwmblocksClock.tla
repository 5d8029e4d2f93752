--------------------------- MODULE DwmblocksClock ---------------------------
(***************************************************************************)
(* The timer alone, for every choice of intervals: trigger_event() runs    *)
(* the blocks that are due and arms the next alarm, and idle counts the    *)
(* seconds since each block ran.                                           *)
(***************************************************************************)
EXTENDS DwmblocksTimer

CONSTANTS Block, MaxInterval

ASSUME ClockAssumption == Block # {} /\ IsFiniteSet(Block) /\ MaxInterval \in Nat

VARIABLES
  interval,  \* the intervals of config.h
  time,      \* timer.time
  idle       \* seconds since the block last ran, at the alarm to come

vars == <<interval, time, idle>>

tick == compute_tick(interval)
reset_value == compute_reset_value(interval)
Due == {b \in Block : timer_must_run_block(time, interval, b)}

\* timer_new, whose initial value makes every block due.
Init ==
  /\ interval \in [Block -> 0 .. MaxInterval]
  /\ time = compute_reset_value(interval)
  /\ idle = [b \in Block |-> 0]

\* trigger_event: the kickstart, then each SIGALRM; alarm(0) never fires.
trigger_event ==
  /\ tick > 0 \/ time = reset_value
  /\ time' = timer_arm(time, interval)
  /\ idle' = [b \in Block |-> tick + IF b \in Due \/ interval[b] = 0 THEN 0
                                     ELSE idle[b]]
  /\ UNCHANGED interval

Next == trigger_event

Spec == Init /\ [][Next]_vars

-----------------------------------------------------------------------------
\* The alarm is set to the greatest number of seconds that divides every
\* interval (compute_tick, which folds gcd over the blocks).
TickIsGreatest ==
  LET divides(d) == \A b \in Block : interval[b] % d = 0
  IN  IF tick = 0 THEN \A b \in Block : interval[b] = 0
      ELSE divides(tick) /\ \A d \in 1 .. MaxInterval : divides(d) => d <= tick

\* No block waits longer than its interval, although time counts modulo the
\* largest interval, which the others need not divide.
NeverLate == \A b \in Block : interval[b] # 0 => idle[b] <= interval[b]

\* A block whose interval divides the largest one runs exactly when its
\* interval has passed, not earlier.
OnTime ==
  [][\A b \in Due :
       interval[b] # 0 /\ reset_value % interval[b] = 0 /\ time # reset_value
         => idle[b] = interval[b]]_vars
=============================================================================
