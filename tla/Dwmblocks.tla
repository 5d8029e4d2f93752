------------------------------ MODULE Dwmblocks ------------------------------
(***************************************************************************)
(* The event loop of dwmblocks: one process that polls a signalfd and one  *)
(* pipe per block, the children it forks to run the commands of the        *)
(* blocks, the alarm, and whoever sends it signals.  A command and a       *)
(* signal may come between any two steps of the loop: poll() tells which   *)
(* descriptors are readable, the signal is read after it, and the children *)
(* are reaped after that.  Only the alarm waits until the loop has nothing *)
(* left to do (AlarmExpires).                                              *)
(***************************************************************************)
EXTENDS Integers, Sequences, DwmblocksTimer

CONSTANTS
  NBlocks,   \* the blocks of config.h are 1, 2, ..., NBlocks
  Interval,  \* their intervals
  Signal,    \* their signals; 0 for none
  Text,      \* what commands print
  Empty,     \* the text that is empty
  Senders,   \* the signals that other processes send
  MaxQueued, \* bound: queued instances of a realtime signal
  Kills,     \* commands get killed before they have printed
  Failures   \* fork() and requests to X fail

SIGINT == 2
REFRESH_SIGNAL == 10
TIMER_SIGNAL == 14
SIGTERM == 15
SIGRTMIN == 34

Block == 1 .. NBlocks

\* The signals of the signalfd.
Signals == {SIGINT, REFRESH_SIGNAL, TIMER_SIGNAL, SIGTERM}
             \cup {SIGRTMIN + Signal[b] : b \in {c \in Block : Signal[c] > 0}}

ASSUME DwmblocksAssumption ==
  /\ NBlocks \in Nat \ {0}
  /\ Interval \in [Block -> Nat] /\ Signal \in [Block -> Nat]
  /\ Empty \in Text
  /\ Senders \subseteq Signals \ {TIMER_SIGNAL}
  /\ MaxQueued \in Nat \ {0}
  /\ Kills \in BOOLEAN /\ Failures \in BOOLEAN

VARIABLES
  pc,       \* the step of event_loop(): "start", "poll", "signal", "update" or "exit"
  alive,    \* is_alive
  active,   \* what is left of watcher.active_blocks
  time,     \* timer.time
  forked,   \* the blocks whose fork_pid is not -1
  output,   \* block.output
  current,  \* status.current
  name,     \* WM_NAME of the root window
  running,  \* kernel: the number of children of each block that have not written
  exiting,  \* kernel: exit statuses of those that have
  zombies,  \* kernel: exit statuses of those that ended, not waited for yet
  pipe,     \* kernel: what has been written to each pipe
  alarm,    \* kernel: the alarm is set
  pending   \* kernel: how often each signal is pending

loop == <<pc, alive, active, time, forked, output, current, name>>
vars == <<loop, running, exiting, zombies, pipe, alarm, pending>>

tick == compute_tick(Interval)
reset_value == compute_reset_value(Interval)

\* The blocks that status_update does not skip, in the order of config.h.
Shown(out) ==
  LET full == {b \in Block : out[b] # Empty}
  IN  CHOOSE f \in [1 .. Cardinality(full) -> full] :
        \A i, j \in DOMAIN f : i < j => f[i] < f[j]

\* What it joins: their outputs.
Joined(out) == [i \in DOMAIN Shown(out) |-> out[Shown(out)[i]]]

Init ==
  /\ pc = "start" /\ alive = TRUE /\ active = {}
  /\ time = reset_value
  /\ forked = {}
  /\ output = [b \in Block |-> Empty]
  /\ current = <<>> /\ name \in {<<>>, <<"stale">>}
  /\ running = [b \in Block |-> 0]
  /\ exiting = [b \in Block |-> <<>>] /\ zombies = [b \in Block |-> <<>>]
  /\ pipe = [b \in Block |-> <<>>]
  /\ alarm = FALSE
  /\ pending = [s \in Signals |-> 0]

-----------------------------------------------------------------------------
(* The loop.                                                               *)

\* Wrong variant: blocks that have a child get another one.
execute_blocks_Again(due, ok) ==
  /\ ok
  /\ forked' = forked \cup due
  /\ running' = [b \in Block |-> running[b] + IF b \in due THEN 1 ELSE 0]

\* block_execute for the blocks in due, in order, up to the first whose
\* fork() fails; ok is the result of execute_blocks.
execute_blocks(due, ok) ==
  LET idle == due \ forked
  IN  \E started \in SUBSET idle :
        /\ IF ok THEN started = idle
           ELSE /\ Failures
                /\ \E b \in idle : started = {c \in idle : c < b}
        /\ forked' = forked \cup started
        /\ running' = [b \in Block |-> running[b] + IF b \in started THEN 1 ELSE 0]

\* Wrong variant: returns before timer_arm when no block was started.
trigger_event_Returns(ok) ==
  /\ execute_blocks({b \in Block : timer_must_run_block(time, Interval, b)}, ok)
  /\ IF ok /\ forked' # forked THEN alarm' = (tick > 0) /\ time' = timer_arm(time, Interval)
     ELSE UNCHANGED <<alarm, time>>

\* The callback of the timer: the alarm is set unless a fork() failed.
trigger_event(ok) ==
  /\ execute_blocks({b \in Block : timer_must_run_block(time, Interval, b)}, ok)
  /\ IF ok THEN alarm' = (tick > 0) /\ time' = timer_arm(time, Interval)
     ELSE UNCHANGED <<alarm, time>>

\* The initial execution; event_loop() returns if it fails.
Kickstart ==
  /\ pc = "start"
  /\ \E ok \in BOOLEAN : trigger_event(ok) /\ pc' = IF ok THEN "poll" ELSE "exit"
  /\ UNCHANGED <<alive, active, output, current, name, exiting, zombies, pipe, pending>>

\* Wrong variant: revents is not looked at.
watcher_poll_AllActive ==
  /\ pc = "poll"
  /\ (\E s \in Signals : pending[s] > 0) \/ (\E b \in Block : pipe[b] # <<>>)
  /\ active' = Block
  /\ pc' = IF \E s \in Signals : pending[s] > 0 THEN "signal" ELSE "update"
  /\ UNCHANGED <<alive, time, forked, output, current, name,
                 running, exiting, zombies, pipe, alarm, pending>>

\* watcher_poll blocks until a descriptor is readable.
watcher_poll ==
  LET readable == {b \in Block : pipe[b] # <<>>}
      got_signal == \E s \in Signals : pending[s] > 0
  IN  /\ pc = "poll"
      /\ got_signal \/ readable # {}
      /\ active' = readable
      /\ pc' = IF got_signal THEN "signal" ELSE "update"
      /\ UNCHANGED <<alive, time, forked, output, current, name,
                     running, exiting, zombies, pipe, alarm, pending>>

\* read() on the signalfd returns the pending signal of the lowest number.
signal_handler_process ==
  LET s == Min({t \in Signals : pending[t] > 0})
  IN  /\ pc = "signal" /\ pc' = "update"
      /\ pending' = [pending EXCEPT ![s] = @ - 1]
      /\ \/ /\ s = TIMER_SIGNAL
            /\ \E ok \in BOOLEAN : trigger_event(ok) /\ alive' = ok
         \/ /\ s = REFRESH_SIGNAL
            /\ \E ok \in BOOLEAN : execute_blocks(Block, ok) /\ alive' = ok
            /\ UNCHANGED <<alarm, time>>
         \/ /\ s \in {SIGINT, SIGTERM} /\ alive' = FALSE
            /\ UNCHANGED <<alarm, time, forked, running>>
         \/ /\ s > SIGRTMIN /\ alive' = TRUE
            /\ LET b == Min({c \in Block : SIGRTMIN + Signal[c] = s})
               IN  \E ok \in BOOLEAN : execute_blocks({b}, ok)
            /\ UNCHANGED <<alarm, time>>
      /\ UNCHANGED <<active, output, current, name, exiting, zombies, pipe>>

\* block_update with an early return for a child that failed: fork_pid is kept,
\* and the return is after waitpid() or before it.
UpdateVariant(reaped) ==
  /\ pc = "update" /\ active # {}
  /\ LET b == Min(active)
         failed == Head(zombies[b]) # "ok"
     IN  /\ pipe[b] # <<>> /\ zombies[b] # <<>>
         /\ active' = active \ {b}
         /\ pipe' = [pipe EXCEPT ![b] = <<>>]
         /\ zombies' = IF failed /\ ~reaped THEN zombies ELSE [zombies EXCEPT ![b] = Tail(@)]
         /\ forked' = IF failed THEN forked ELSE forked \ {b}
         /\ output' = IF failed THEN output ELSE [output EXCEPT ![b] = Head(pipe[b])]
  /\ UNCHANGED <<pc, alive, time, current, name, running, exiting, alarm, pending>>

\* Wrong variants: fork_pid stays set, and the child is not waited for either.
block_update_KeepsPid == UpdateVariant(TRUE)
block_update_NoWait == UpdateVariant(FALSE)

\* Reads the pipe and waits for the child; a child that failed changes nothing.
block_update ==
  /\ pc = "update" /\ active # {}
  /\ LET b == Min(active)
     IN  /\ pipe[b] # <<>> /\ zombies[b] # <<>>
         /\ active' = active \ {b}
         /\ pipe' = [pipe EXCEPT ![b] = <<>>]
         /\ zombies' = [zombies EXCEPT ![b] = Tail(@)]
         /\ forked' = forked \ {b}
         /\ output' = IF Head(zombies[b]) = "ok"
                      THEN [output EXCEPT ![b] = Head(pipe[b])] ELSE output
  /\ UNCHANGED <<pc, alive, time, current, name, running, exiting, alarm, pending>>

\* Wrong variants: an empty status is not written; is_alive is not looked at.
StatusVariant(Writes(_), loops) ==
  /\ pc = "update" /\ active = {}
  /\ current' = Joined(output)
  /\ name' = IF Writes(current') THEN current' ELSE name
  /\ pc' = IF alive \/ loops THEN "poll" ELSE "exit"
  /\ UNCHANGED <<alive, active, time, forked, output,
                 running, exiting, zombies, pipe, alarm, pending>>
status_update_NotEmpty == StatusVariant(LAMBDA t : t \notin {current, <<>>}, FALSE)
status_update_Forever == StatusVariant(LAMBDA t : t # current, TRUE)

\* status_update and, if the status changed, status_write.
status_update ==
  /\ pc = "update" /\ active = {}
  /\ current' = Joined(output)
  /\ \E ok \in BOOLEAN :
       /\ ok \/ (Failures /\ current' # current)
       /\ name' = IF ok /\ current' # current THEN current' ELSE name
       /\ pc' = IF ok /\ alive THEN "poll" ELSE "exit"
  /\ UNCHANGED <<alive, active, time, forked, output,
                 running, exiting, zombies, pipe, alarm, pending>>

-----------------------------------------------------------------------------
(* The children, the alarm and other processes.                            *)

\* A child that fails writes the empty text.
ChildWrites(b) ==
  /\ running[b] > 0
  /\ running' = [running EXCEPT ![b] = @ - 1]
  /\ \E ok \in BOOLEAN : \E text \in Text :
       /\ ok \/ text = Empty
       /\ pipe' = [pipe EXCEPT ![b] = Append(@, text)]
       /\ exiting' = [exiting EXCEPT ![b] = Append(@, IF ok THEN "ok" ELSE "failed")]
  /\ UNCHANGED <<loop, zombies, alarm, pending>>

ChildExits(b) ==
  /\ exiting[b] # <<>>
  /\ exiting' = [exiting EXCEPT ![b] = Tail(@)]
  /\ zombies' = [zombies EXCEPT ![b] = Append(@, Head(exiting[b]))]
  /\ UNCHANGED <<loop, running, pipe, alarm, pending>>

ChildKilled(b) ==
  /\ Kills /\ running[b] > 0
  /\ running' = [running EXCEPT ![b] = @ - 1]
  /\ zombies' = [zombies EXCEPT ![b] = Append(@, "killed")]
  /\ UNCHANGED <<loop, exiting, pipe, alarm, pending>>

\* A second is long: when it is over, the loop is back in poll() and has handled
\* the standard signals that were sent to it.
AlarmExpires ==
  /\ alarm /\ pc = "poll"
  /\ \A s \in Signals : s < SIGRTMIN => pending[s] = 0
  /\ alarm' = FALSE
  /\ pending' = [pending EXCEPT ![TIMER_SIGNAL] = 1]
  /\ UNCHANGED <<loop, running, exiting, zombies, pipe>>

\* Signals below SIGRTMIN do not queue.
Send(s) ==
  /\ pc # "exit"
  /\ pending[s] < IF s < SIGRTMIN THEN 1 ELSE MaxQueued
  /\ pending' = [pending EXCEPT ![s] = @ + 1]
  /\ UNCHANGED <<loop, running, exiting, zombies, pipe, alarm>>

Loop == Kickstart \/ watcher_poll \/ signal_handler_process \/ block_update \/ status_update

Next ==
  \/ Loop
  \/ \E b \in Block : ChildWrites(b) \/ ChildExits(b) \/ ChildKilled(b)
  \/ AlarmExpires
  \/ \E s \in Senders : Send(s)

Spec == Init /\ [][Next]_vars

\* The loop runs and commands end; the alarm fires, however often the loop is
\* kept busy.
FairSpec ==
  /\ Spec
  /\ WF_vars(Loop)
  /\ SF_vars(AlarmExpires)
  /\ \A b \in Block : WF_vars(ChildWrites(b)) /\ WF_vars(ChildExits(b))

-----------------------------------------------------------------------------
(* Correctness.                                                            *)

TypeOK ==
  /\ pc \in {"start", "poll", "signal", "update", "exit"}
  /\ alive \in BOOLEAN /\ alarm \in BOOLEAN
  /\ active \subseteq Block /\ forked \subseteq Block
  /\ time \in 0 .. reset_value
  /\ output \in [Block -> Text]
  /\ running \in [Block -> Nat]
  /\ exiting \in [Block -> Seq({"ok", "failed"})]
  /\ zombies \in [Block -> Seq({"ok", "failed", "killed"})]
  /\ pipe \in [Block -> Seq(Text)]
  /\ pending \in [Signals -> 0 .. MaxQueued]

\* "Ensure only one child process exists per block at an instance"
\* (block.c:55): a block has a child, running or not waited for, exactly when
\* its fork_pid says so, and then only one.
OneChild ==
  \A b \in Block : running[b] + Len(exiting[b]) + Len(zombies[b])
                    = IF b \in forked THEN 1 ELSE 0

\* block_update never blocks the loop: a block that is read has one message
\* in its pipe, and the child that wrote it is the one that is waited for.
UpdateHasChild ==
  \A b \in Block :
    /\ pipe[b] # <<>> => Len(pipe[b]) = 1 /\ b \in forked /\ running[b] = 0
    /\ b \in active => pipe[b] # <<>>

\* The clock never stops: while the loop is alive, the next alarm is set or
\* its signal is pending.
AlarmNeverLost ==
  pc \notin {"start", "exit"} /\ alive /\ tick > 0 => alarm \/ pending[TIMER_SIGNAL] > 0

\* What the bar shows are the outputs of the blocks, once there were any.
NameCurrent ==
  pc = "poll" /\ (current # <<>> \/ name # <<"stale">>) => name = Joined(output)

\* A termination signal ends the loop, unless refresh signals keep coming: of
\* the signals that are pending, read() returns the one of the lowest number.
TerminationEnds ==
  []<>(pending[REFRESH_SIGNAL] > 0) \/ (pending[SIGTERM] > 0 ~> pc = "exit")

\* A child that is killed before it has written leaves nothing to poll() for:
\* its block waits for it until the loop ends.
Stuck(b) == zombies[b] = <<"killed">> /\ pipe[b] = <<>>

\* A block with an interval is run again and again, whatever signals arrive,
\* unless its child was killed.
BlockRunsAgain ==
  \A b \in Block : Interval[b] # 0 => []<>(running[b] > 0 \/ pc = "exit" \/ Stuck(b))

\* A child that ended is waited for, unless it was killed or the loop ends.
ChildrenReaped ==
  \A b \in Block : zombies[b] # <<>> ~> (zombies[b] = <<>> \/ pc = "exit" \/ Stuck(b))
=============================================================================
