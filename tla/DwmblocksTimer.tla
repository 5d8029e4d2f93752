--------------------------- MODULE DwmblocksTimer ---------------------------
(***************************************************************************)
(* The timer of dwmblocks: which blocks are due when SIGALRM arrives.  The *)
(* intervals are seconds; they are so far below 2^32 that the sums of the  *)
(* unsigned arithmetic do not wrap.                                        *)
(***************************************************************************)
EXTENDS Naturals, FiniteSetsExt, Functions

\* The loop of gcd(), as a recursive function of the pair <<a, b>>.
gcd[ab \in Nat \X Nat] ==
  IF ab[2] > 0 THEN gcd[<<ab[2], ab[1] % ab[2]>>] ELSE ab[1]

\* Wrong variant: the smallest interval.
compute_tick_Smallest(interval) ==
  FoldFunction(LAMBDA n, t : IF n > 0 /\ (t = 0 \/ n < t) THEN n ELSE t, 0, interval)

\* Both are folds over the array of blocks; interval maps blocks to seconds.
compute_tick(interval) == FoldFunction(LAMBDA n, t : gcd[<<n, t>>], 0, interval)

compute_reset_value(interval) == Max({1} \cup Range(interval))

\* Wrong variants: the time does not wrap, or wraps one tick late.
timer_arm_NoWrap(time, interval) == time + compute_tick(interval)
timer_arm_WrapsLate(time, interval) ==
  (time + compute_tick(interval)) % (compute_reset_value(interval) + 1)

timer_arm(time, interval) ==
  (time + compute_tick(interval)) % compute_reset_value(interval)

timer_must_run_block(time, interval, b) ==
  \/ time = compute_reset_value(interval)
  \/ interval[b] # 0 /\ time % interval[b] = 0
=============================================================================
