--------------------------- MODULE DwmblocksProofs ---------------------------
(***************************************************************************)
(* Proofs about the event loop of dwmblocks, for any number of blocks and  *)
(* whatever their intervals and signals: the children, the alarm, the name *)
(* of the root window, and the types of the state.                         *)
(***************************************************************************)
EXTENDS Dwmblocks, DwmblocksTimerProofs

Types ==
  /\ pc \in {"start", "poll", "signal", "update", "exit"}
  /\ alive \in BOOLEAN /\ alarm \in BOOLEAN
  /\ running \in [Block -> Nat]
  /\ exiting \in [Block -> Seq({"ok", "failed"})]
  /\ zombies \in [Block -> Seq({"ok", "failed", "killed"})]
  /\ pipe \in [Block -> Seq(Text)]
  /\ pending \in [Signals -> Int]

\* The loop is back in poll() only if no signal has ended it.
AliveInPoll == pc \in {"start", "poll", "signal"} => alive

Inv == Types /\ OneChild /\ UpdateHasChild /\ AliveInPoll /\ AlarmNeverLost

\* block_execute starts children only for blocks that have none.
LEMMA ExecuteLemma ==
  ASSUME NEW due, NEW ok, Types, OneChild, UpdateHasChild, execute_blocks(due, ok),
         UNCHANGED <<exiting, zombies, pipe, active>>
  PROVE  running' \in [Block -> Nat] /\ OneChild' /\ UpdateHasChild'
<1>1. PICK started \in SUBSET (due \ forked) :
         /\ forked' = forked \cup started
         /\ running' = [b \in Block |-> running[b] + IF b \in started THEN 1 ELSE 0]
  BY DEF execute_blocks
<1>2. \A b \in Block : running[b] \in Nat
  BY DEF Types
<1>3. \A b \in Block : running'[b] = running[b] + IF b \in started THEN 1 ELSE 0
  BY <1>1
<1>4. running' \in [Block -> Nat]
  BY <1>1, <1>2
<1>5. ASSUME NEW b \in Block
      PROVE  running'[b] + Len(exiting[b]) + Len(zombies[b]) = IF b \in forked' THEN 1 ELSE 0
  <2>1. exiting[b] \in Seq({"ok", "failed"}) /\ zombies[b] \in Seq({"ok", "failed", "killed"})
    BY DEF Types
  <2>2. Len(exiting[b]) \in Nat /\ Len(zombies[b]) \in Nat
    BY <2>1
  <2>3. running[b] + Len(exiting[b]) + Len(zombies[b]) = IF b \in forked THEN 1 ELSE 0
    BY DEF OneChild
  <2>4. CASE b \in started
    <3>1. b \notin forked /\ b \in forked'
      BY <1>1, <2>4
    <3>2. running'[b] = running[b] + 1
      BY <1>3, <2>4
    <3> QED BY <1>2, <2>2, <2>3, <3>1, <3>2
  <2>5. CASE b \notin started
    <3>1. b \in forked' <=> b \in forked
      BY <1>1, <2>5
    <3>2. running'[b] = running[b]
      BY <1>2, <1>3, <2>5
    <3> QED BY <2>3, <3>1, <3>2
  <2> QED BY <2>4, <2>5
<1>6. OneChild'
  BY <1>5 DEF OneChild
<1>7. ASSUME NEW b \in Block, pipe[b] # <<>>
      PROVE  running'[b] = 0 /\ b \in forked'
  <2>1. b \in forked /\ running[b] = 0
    BY <1>7 DEF UpdateHasChild
  <2> QED BY <1>1, <1>3, <2>1
<1>8. UpdateHasChild'
  BY <1>7 DEF UpdateHasChild
<1> QED BY <1>4, <1>6, <1>8

\* trigger_event sets the alarm if there are intervals.
LEMMA TriggerLemma ==
  ASSUME NEW ok \in BOOLEAN, Types, trigger_event(ok)
  PROVE  alarm' \in BOOLEAN /\ (ok /\ tick > 0 => alarm')
<1>1. CASE ok
  <2>1. alarm' = (tick > 0)
    BY <1>1, Zenon DEF trigger_event
  <2>2. (tick > 0) \in BOOLEAN
    OBVIOUS
  <2>3. alarm' \in BOOLEAN
    BY <2>1, <2>2, Zenon
  <2> QED BY <2>1, <2>3, Zenon
<1>2. CASE ~ok
  <2>1. alarm' = alarm
    BY <1>2, Zenon DEF trigger_event
  <2> QED BY <1>2, <2>1, Zenon DEF Types
<1> QED BY <1>1, <1>2

\* Reading or sending a signal changes how often it is pending, no other.
LEMMA PendingLemma ==
  ASSUME NEW p \in [Signals -> Int], NEW s
  PROVE  /\ [p EXCEPT ![s] = @ - 1] \in [Signals -> Int]
         /\ [p EXCEPT ![s] = @ + 1] \in [Signals -> Int]
         /\ [p EXCEPT ![s] = 1] \in [Signals -> Int]
<1>1. CASE s \in Signals
  <2>1. p[s] \in Int
    BY <1>1
  <2>2. p[s] - 1 \in Int /\ p[s] + 1 \in Int
    BY <2>1
  <2>3. \A v \in Int : [p EXCEPT ![s] = v] \in [Signals -> Int]
    BY <1>1
  <2>4. 1 \in Int
    OBVIOUS
  <2> QED BY <2>2, <2>3, <2>4
<1>2. CASE s \notin Signals
  <2> DEFINE q(v) == [p EXCEPT ![s] = v]
  <2>1. \A v : q(v) = p
    BY <1>2
  <2> QED BY <2>1
<1> QED BY <1>1, <1>2

LEMMA InitInv == Init => Inv
<1> SUFFICES ASSUME Init PROVE Inv
  OBVIOUS
<1>1. Types
  <2>1. /\ running \in [Block -> Nat]
        /\ exiting \in [Block -> Seq({"ok", "failed"})]
        /\ zombies \in [Block -> Seq({"ok", "failed", "killed"})]
        /\ pipe \in [Block -> Seq(Text)]
    BY DEF Init
  <2>2. pending \in [Signals -> Int]
    BY DEF Init
  <2>3. alive \in BOOLEAN /\ alarm \in BOOLEAN
    BY Zenon DEF Init
  <2>4. pc \in {"start", "poll", "signal", "update", "exit"}
    BY DEF Init
  <2> QED BY <2>1, <2>2, <2>3, <2>4 DEF Types
<1>2. OneChild
  BY DEF Init, OneChild
<1>3. UpdateHasChild
  BY DEF Init, UpdateHasChild
<1>4. AliveInPoll /\ AlarmNeverLost
  BY DEF Init, AliveInPoll, AlarmNeverLost
<1> QED BY <1>1, <1>2, <1>3, <1>4 DEF Inv

LEMMA KickstartInv == Inv /\ Kickstart => Inv'
<1> SUFFICES ASSUME Inv, Kickstart PROVE Inv'
  OBVIOUS
<1>1. PICK ok \in BOOLEAN : trigger_event(ok) /\ pc' = IF ok THEN "poll" ELSE "exit"
  BY DEF Kickstart
<1>2. UNCHANGED <<alive, active, exiting, zombies, pipe, pending>> /\ pc = "start"
  BY DEF Kickstart
<1>3. running' \in [Block -> Nat] /\ OneChild' /\ UpdateHasChild'
  BY <1>1, <1>2, ExecuteLemma DEF Inv, trigger_event
<1>4. alarm' \in BOOLEAN /\ (ok /\ tick > 0 => alarm')
  BY <1>1, TriggerLemma DEF Inv
<1>5. Types'
  BY <1>1, <1>2, <1>3, <1>4 DEF Inv, Types
<1>6. AliveInPoll' /\ AlarmNeverLost'
  BY <1>1, <1>2, <1>4 DEF Inv, AliveInPoll, AlarmNeverLost
<1> QED BY <1>3, <1>5, <1>6 DEF Inv

LEMMA WatcherPollInv == Inv /\ watcher_poll => Inv'
<1> SUFFICES ASSUME Inv, watcher_poll PROVE Inv'
  OBVIOUS
<1>1. /\ UNCHANGED <<alive, forked, running, exiting, zombies, pipe, alarm, pending>>
      /\ active' = {b \in Block : pipe[b] # <<>>}
      /\ pc = "poll" /\ pc' \in {"signal", "update"}
  BY DEF watcher_poll
<1>2. Types'
  BY <1>1 DEF Inv, Types
<1>3. OneChild'
  BY <1>1 DEF Inv, OneChild
<1>4. UpdateHasChild'
  BY <1>1 DEF Inv, UpdateHasChild
<1>5. AliveInPoll' /\ AlarmNeverLost'
  BY <1>1 DEF Inv, AliveInPoll, AlarmNeverLost
<1> QED BY <1>2, <1>3, <1>4, <1>5 DEF Inv

LEMMA SignalInv == Inv /\ signal_handler_process => Inv'
<1> SUFFICES ASSUME Inv, signal_handler_process PROVE Inv'
  OBVIOUS
<1> DEFINE s == Min({t \in Signals : pending[t] > 0})
<1>1. /\ pc = "signal" /\ pc' = "update" /\ alive
      /\ pending' = [pending EXCEPT ![s] = @ - 1]
      /\ UNCHANGED <<active, exiting, zombies, pipe>>
  BY DEF signal_handler_process, Inv, AliveInPoll
<1>2. \/ \E ok \in BOOLEAN : s = TIMER_SIGNAL /\ trigger_event(ok) /\ alive' = ok
      \/ /\ s # TIMER_SIGNAL
         /\ UNCHANGED <<alarm, time>> /\ alive' \in BOOLEAN
         /\ \/ \E due : \E ok \in BOOLEAN : execute_blocks(due, ok)
            \/ UNCHANGED <<forked, running>>
  <2>1. CASE s = TIMER_SIGNAL /\ \E ok \in BOOLEAN : trigger_event(ok) /\ alive' = ok
    BY <2>1
  <2>2. CASE /\ s = REFRESH_SIGNAL
             /\ \E ok \in BOOLEAN : execute_blocks(Block, ok) /\ alive' = ok
             /\ UNCHANGED <<alarm, time>>
    BY <2>2 DEF REFRESH_SIGNAL, TIMER_SIGNAL
  <2>3. CASE /\ s \in {SIGINT, SIGTERM} /\ alive' = FALSE
             /\ UNCHANGED <<alarm, time, forked, running>>
    <3>1. s # TIMER_SIGNAL
      BY <2>3 DEF SIGINT, SIGTERM, TIMER_SIGNAL
    <3> QED BY <2>3, <3>1, Zenon
  <2>4. CASE /\ s > SIGRTMIN /\ alive' = TRUE
             /\ LET b == Min({c \in Block : SIGRTMIN + Signal[c] = s})
                IN  \E ok \in BOOLEAN : execute_blocks({b}, ok)
             /\ UNCHANGED <<alarm, time>>
    <3>1. s # TIMER_SIGNAL
      BY <2>4 DEF SIGRTMIN, TIMER_SIGNAL
    <3> DEFINE b == Min({c \in Block : SIGRTMIN + Signal[c] = s})
    <3>2. PICK ok \in BOOLEAN : execute_blocks({b}, ok)
      BY <2>4, Zenon
    <3> QED BY <2>4, <3>1, <3>2, Zenon
  <2> QED BY <2>1, <2>2, <2>3, <2>4 DEF signal_handler_process
<1> HIDE DEF s
<1>3. pending' \in [Signals -> Int]
  BY <1>1, PendingLemma DEF Inv, Types
<1>4. CASE \E ok \in BOOLEAN : s = TIMER_SIGNAL /\ trigger_event(ok) /\ alive' = ok
  <2>1. PICK ok \in BOOLEAN : s = TIMER_SIGNAL /\ trigger_event(ok) /\ alive' = ok
    BY <1>4
  <2>2. running' \in [Block -> Nat] /\ OneChild' /\ UpdateHasChild'
    BY <1>1, <2>1, ExecuteLemma DEF Inv, trigger_event
  <2>3. alarm' \in BOOLEAN /\ (ok /\ tick > 0 => alarm')
    BY <2>1, TriggerLemma DEF Inv
  <2>4. Types'
    BY <1>1, <1>3, <2>1, <2>2, <2>3 DEF Inv, Types
  <2>5. AliveInPoll' /\ AlarmNeverLost'
    BY <1>1, <2>1, <2>3 DEF AliveInPoll, AlarmNeverLost, tick
  <2> QED BY <2>2, <2>4, <2>5 DEF Inv
<1>5. CASE /\ s # TIMER_SIGNAL
           /\ UNCHANGED <<alarm, time>> /\ alive' \in BOOLEAN
           /\ \/ \E due : \E ok \in BOOLEAN : execute_blocks(due, ok)
              \/ UNCHANGED <<forked, running>>
  <2>1. running' \in [Block -> Nat] /\ OneChild' /\ UpdateHasChild'
    <3>1. CASE \E due : \E ok \in BOOLEAN : execute_blocks(due, ok)
      BY <1>1, <3>1, ExecuteLemma DEF Inv
    <3>2. CASE UNCHANGED <<forked, running>>
      BY <1>1, <3>2 DEF Inv, Types, OneChild, UpdateHasChild
    <3> QED BY <1>5, <3>1, <3>2
  <2>2. Types'
    BY <1>1, <1>3, <1>5, <2>1 DEF Inv, Types
  <2>3. TIMER_SIGNAL \in Signals => pending'[TIMER_SIGNAL] = pending[TIMER_SIGNAL]
    BY <1>1, <1>5 DEF Inv, Types
  <2>4. TIMER_SIGNAL \in Signals
    BY DEF Signals
  <2>5. AliveInPoll' /\ AlarmNeverLost'
    BY <1>1, <1>5, <2>3, <2>4 DEF Inv, AliveInPoll, AlarmNeverLost
  <2> QED BY <2>1, <2>2, <2>5 DEF Inv
<1> QED BY <1>2, <1>4, <1>5

LEMMA BlockUpdateInv == Inv /\ block_update => Inv'
<1> SUFFICES ASSUME Inv, block_update PROVE Inv'
  OBVIOUS
<1> DEFINE b == Min(active)
<1>1. /\ pc = "update" /\ pipe[b] # <<>> /\ zombies[b] # <<>>
      /\ active' = active \ {b}
      /\ pipe' = [pipe EXCEPT ![b] = <<>>]
      /\ zombies' = [zombies EXCEPT ![b] = Tail(@)]
      /\ forked' = forked \ {b}
      /\ UNCHANGED <<pc, alive, running, exiting, alarm, pending>>
  BY DEF block_update
<1> HIDE DEF b
<1>2. Types'
  <2>1. b \in Block => Tail(zombies[b]) \in Seq({"ok", "failed", "killed"})
    BY <1>1 DEF Inv, Types
  <2>2. zombies' \in [Block -> Seq({"ok", "failed", "killed"})]
    BY <1>1, <2>1 DEF Inv, Types
  <2>3. pipe' \in [Block -> Seq(Text)]
    <3>1. pipe \in [Block -> Seq(Text)] /\ <<>> \in Seq(Text)
      BY DEF Inv, Types
    <3> QED BY <1>1, <3>1
  <2> QED BY <1>1, <2>2, <2>3 DEF Inv, Types
<1>3. ASSUME NEW c \in Block
      PROVE  running[c] + Len(exiting[c]) + Len(zombies'[c]) = IF c \in forked' THEN 1 ELSE 0
  <2>1. running[c] + Len(exiting[c]) + Len(zombies[c]) = IF c \in forked THEN 1 ELSE 0
    BY DEF Inv, OneChild
  <2>2. CASE c = b
    <3>1. c \in forked /\ c \notin forked'
      BY <1>1, <2>2 DEF Inv, UpdateHasChild
    <3>2. zombies[c] \in Seq({"ok", "failed", "killed"}) /\ zombies[c] # <<>>
      BY <1>1, <2>2 DEF Inv, Types
    <3>3. zombies'[c] = Tail(zombies[c])
      BY <1>1, <2>2 DEF Inv, Types
    <3>4. Len(zombies'[c]) = Len(zombies[c]) - 1 /\ Len(zombies[c]) \in Nat
      BY <3>2, <3>3
    <3>5. running[c] \in Nat /\ exiting[c] \in Seq({"ok", "failed"})
      BY DEF Inv, Types
    <3>6. Len(exiting[c]) \in Nat
      BY <3>5
    <3> QED BY <2>1, <3>1, <3>4, <3>5, <3>6
  <2>3. CASE c # b
    <3>1. zombies'[c] = zombies[c] /\ (c \in forked' <=> c \in forked)
      BY <1>1, <2>3 DEF Inv, Types
    <3> QED BY <2>1, <3>1
  <2> QED BY <2>2, <2>3
<1>4. OneChild'
  BY <1>1, <1>3 DEF OneChild
<1>5. ASSUME NEW c \in Block
      PROVE  /\ pipe'[c] # <<>> => Len(pipe'[c]) = 1 /\ c \in forked' /\ running[c] = 0
             /\ c \in active' => pipe'[c] # <<>>
  <2>1. CASE c = b
    BY <1>1, <2>1 DEF Inv, Types
  <2>2. CASE c # b
    <3>1. pipe'[c] = pipe[c]
      BY <1>1, <2>2 DEF Inv, Types
    <3> QED BY <1>1, <2>2, <3>1 DEF Inv, UpdateHasChild
  <2> QED BY <2>1, <2>2
<1>6. UpdateHasChild'
  BY <1>1, <1>5 DEF UpdateHasChild
<1>7. AliveInPoll' /\ AlarmNeverLost'
  BY <1>1 DEF Inv, AliveInPoll, AlarmNeverLost, tick
<1> QED BY <1>2, <1>4, <1>6, <1>7 DEF Inv

LEMMA StatusUpdateInv == Inv /\ status_update => Inv'
<1> SUFFICES ASSUME Inv, status_update PROVE Inv'
  OBVIOUS
<1>1. /\ UNCHANGED <<alive, active, forked, running, exiting, zombies, pipe, alarm, pending>>
      /\ pc = "update" /\ (pc' = "exit" \/ (pc' = "poll" /\ alive))
  BY DEF status_update
<1>2. Types'
  BY <1>1 DEF Inv, Types
<1>3. OneChild' /\ UpdateHasChild'
  BY <1>1 DEF Inv, OneChild, UpdateHasChild
<1>4. AliveInPoll' /\ AlarmNeverLost'
  BY <1>1 DEF Inv, AliveInPoll, AlarmNeverLost
<1> QED BY <1>2, <1>3, <1>4 DEF Inv

\* A step of a child of block b that leaves the loop and the signals alone.
LEMMA ChildInv ==
  ASSUME Inv, NEW b \in Block, UNCHANGED <<loop, alarm, pending>>, Types',
         \A c \in Block \ {b} : UNCHANGED <<running[c], exiting[c], zombies[c], pipe[c]>>,
         running'[b] + Len(exiting'[b]) + Len(zombies'[b])
           = running[b] + Len(exiting[b]) + Len(zombies[b]),
         pipe'[b] # <<>> => Len(pipe'[b]) = 1 /\ b \in forked /\ running'[b] = 0,
         pipe[b] # <<>> => pipe'[b] # <<>>
  PROVE  Inv'
<1>1. UNCHANGED <<pc, alive, active, forked>>
  BY DEF loop
<1>2. OneChild'
  <2>1. ASSUME NEW c \in Block
        PROVE  running'[c] + Len(exiting'[c]) + Len(zombies'[c]) = IF c \in forked' THEN 1 ELSE 0
    BY <1>1 DEF Inv, OneChild
  <2> QED BY <2>1 DEF OneChild
<1>3. UpdateHasChild'
  BY <1>1 DEF Inv, UpdateHasChild
<1>4. AliveInPoll' /\ AlarmNeverLost'
  BY <1>1 DEF Inv, AliveInPoll, AlarmNeverLost
<1> QED BY <1>2, <1>3, <1>4 DEF Inv

\* A block with a child that has not written has no other, and an empty pipe.
LEMMA RunningLemma ==
  ASSUME Inv, NEW b \in Block, running[b] > 0
  PROVE  running[b] = 1 /\ b \in forked /\ pipe[b] = <<>>
<1>1. running[b] \in Nat /\ exiting[b] \in Seq({"ok", "failed"})
      /\ zombies[b] \in Seq({"ok", "failed", "killed"})
  BY DEF Inv, Types
<1>2. Len(exiting[b]) \in Nat /\ Len(zombies[b]) \in Nat
  BY <1>1
<1>3. running[b] + Len(exiting[b]) + Len(zombies[b]) = IF b \in forked THEN 1 ELSE 0
  BY DEF Inv, OneChild
<1>4. running[b] = 1 /\ b \in forked
  BY <1>1, <1>2, <1>3
<1> QED BY <1>4 DEF Inv, UpdateHasChild

LEMMA ChildWritesInv ==
  ASSUME Inv, NEW b \in Block, ChildWrites(b)
  PROVE  Inv'
<1>1. PICK status \in {"ok", "failed"}, text \in Text :
         /\ pipe' = [pipe EXCEPT ![b] = Append(@, text)]
         /\ exiting' = [exiting EXCEPT ![b] = Append(@, status)]
  <2>1. PICK ok \in BOOLEAN, text \in Text :
          /\ pipe' = [pipe EXCEPT ![b] = Append(@, text)]
          /\ exiting' = [exiting EXCEPT ![b] = Append(@, IF ok THEN "ok" ELSE "failed")]
    BY DEF ChildWrites
  <2>2. CASE ok
    BY <2>1, <2>2
  <2>3. CASE ~ok
    BY <2>1, <2>3
  <2> QED BY <2>2, <2>3
<1>2. /\ running[b] > 0 /\ running' = [running EXCEPT ![b] = @ - 1]
      /\ UNCHANGED <<loop, zombies, alarm, pending>>
  BY DEF ChildWrites
<1>3. running[b] = 1 /\ b \in forked /\ pipe[b] = <<>>
  BY <1>2, RunningLemma
<1>4. running[b] \in Nat /\ exiting[b] \in Seq({"ok", "failed"}) /\ pipe[b] \in Seq(Text)
  BY DEF Inv, Types
<1>5. running'[b] = 0 /\ exiting'[b] = Append(exiting[b], status) /\ pipe'[b] = Append(<<>>, text)
  BY <1>1, <1>2, <1>3 DEF Inv, Types
<1>6. Len(exiting'[b]) = Len(exiting[b]) + 1 /\ Len(exiting[b]) \in Nat
  BY <1>4, <1>5
<1>7. Len(pipe'[b]) = 1 /\ pipe'[b] # <<>>
  BY <1>5
<1>8. \A c \in Block \ {b} : UNCHANGED <<running[c], exiting[c], zombies[c], pipe[c]>>
  BY <1>1, <1>2 DEF Inv, Types
<1>9. Types'
  <2>1. running' \in [Block -> Nat]
    BY <1>2, <1>3 DEF Inv, Types
  <2>2. exiting' \in [Block -> Seq({"ok", "failed"})]
    BY <1>1, <1>4 DEF Inv, Types
  <2>3. pipe' \in [Block -> Seq(Text)]
    BY <1>1, <1>4 DEF Inv, Types
  <2> QED BY <1>2, <2>1, <2>2, <2>3 DEF Inv, Types, loop
<1>10. zombies'[b] = zombies[b] /\ Len(zombies[b]) \in Nat
  <2>1. zombies[b] \in Seq({"ok", "failed", "killed"})
    BY DEF Inv, Types
  <2> QED BY <1>2, <2>1
<1>11. running'[b] + Len(exiting'[b]) + Len(zombies'[b])
         = running[b] + Len(exiting[b]) + Len(zombies[b])
  <2>1. running[b] = running'[b] + 1 /\ running'[b] \in Nat
    BY <1>3, <1>5
  <2>2. running[b] \in Nat /\ Len(exiting'[b]) \in Nat /\ Len(zombies'[b]) \in Nat
    BY <1>4, <1>6, <1>10
  <2> DEFINE r == running[b]  r1 == running'[b]
             x == Len(exiting[b])  x1 == Len(exiting'[b])
             z == Len(zombies[b])  z1 == Len(zombies'[b])
  <2>3. /\ r \in Nat /\ r1 \in Nat /\ x \in Nat /\ x1 \in Nat /\ z \in Nat /\ z1 \in Nat
        /\ r = r1 + 1 /\ x1 = x + 1 /\ z1 = z
    BY <1>6, <1>10, <2>1, <2>2
  <2> HIDE DEF r, r1, x, x1, z, z1
  <2>4. r1 + x1 + z1 = r + x + z
    BY <2>3
  <2> QED BY <2>4 DEF r, r1, x, x1, z, z1
<1> QED BY <1>2, <1>3, <1>5, <1>7, <1>8, <1>9, <1>11, ChildInv

LEMMA ChildExitsInv ==
  ASSUME Inv, NEW b \in Block, ChildExits(b)
  PROVE  Inv'
<1>1. /\ exiting[b] # <<>>
      /\ exiting' = [exiting EXCEPT ![b] = Tail(@)]
      /\ zombies' = [zombies EXCEPT ![b] = Append(@, Head(exiting[b]))]
      /\ UNCHANGED <<loop, running, pipe, alarm, pending>>
  BY DEF ChildExits
<1>2. /\ exiting[b] \in Seq({"ok", "failed"}) /\ zombies[b] \in Seq({"ok", "failed", "killed"})
      /\ running[b] \in Nat
  BY DEF Inv, Types
<1>3. Head(exiting[b]) \in {"ok", "failed", "killed"} /\ Tail(exiting[b]) \in Seq({"ok", "failed"})
  BY <1>1, <1>2
<1>4. Append(zombies[b], Head(exiting[b])) \in Seq({"ok", "failed", "killed"})
  BY <1>2, <1>3
<1>5. Types'
  <2>1. exiting' \in [Block -> Seq({"ok", "failed"})]
    BY <1>1, <1>3 DEF Inv, Types
  <2>2. zombies' \in [Block -> Seq({"ok", "failed", "killed"})]
    BY <1>1, <1>4 DEF Inv, Types
  <2> QED BY <1>1, <2>1, <2>2 DEF Inv, Types, loop
<1>6. exiting'[b] = Tail(exiting[b]) /\ zombies'[b] = Append(zombies[b], Head(exiting[b]))
  BY <1>1 DEF Inv, Types
<1>7. /\ Len(exiting[b]) = Len(exiting'[b]) + 1 /\ Len(zombies'[b]) = Len(zombies[b]) + 1
      /\ Len(exiting'[b]) \in Nat /\ Len(zombies[b]) \in Nat
  <2>1. Len(exiting[b]) = Len(exiting'[b]) + 1 /\ Len(exiting'[b]) \in Nat
    <3> DEFINE e == exiting[b]
    <3>1. e \in Seq({"ok", "failed"}) /\ e # <<>>
      BY <1>1, <1>2
    <3> HIDE DEF e
    <3>2. Len(e) = Len(Tail(e)) + 1 /\ Len(Tail(e)) \in Nat
      BY <3>1
    <3> QED BY <1>6, <3>2 DEF e
  <2>2. Len(zombies'[b]) = Len(zombies[b]) + 1 /\ Len(zombies[b]) \in Nat
    BY <1>2, <1>3, <1>6
  <2> QED BY <2>1, <2>2
<1>8. running'[b] + Len(exiting'[b]) + Len(zombies'[b])
        = running[b] + Len(exiting[b]) + Len(zombies[b])
  <2>1. running' = running /\ Len(exiting[b]) \in Nat /\ Len(zombies'[b]) \in Nat
    BY <1>1, <1>7
  <2> DEFINE r == running[b]  r1 == running'[b]
             x == Len(exiting[b])  x1 == Len(exiting'[b])
             z == Len(zombies[b])  z1 == Len(zombies'[b])
  <2>2. /\ r \in Nat /\ r1 \in Nat /\ x \in Nat /\ x1 \in Nat /\ z \in Nat /\ z1 \in Nat
        /\ r1 = r /\ x = x1 + 1 /\ z1 = z + 1
    BY <1>2, <1>7, <2>1
  <2> HIDE DEF r, r1, x, x1, z, z1
  <2>3. r1 + x1 + z1 = r + x + z
    BY <2>2
  <2> QED BY <2>3 DEF r, r1, x, x1, z, z1
<1>9. \A c \in Block \ {b} : UNCHANGED <<running[c], exiting[c], zombies[c], pipe[c]>>
  BY <1>1 DEF Inv, Types
<1>10. pipe'[b] # <<>> => Len(pipe'[b]) = 1 /\ b \in forked /\ running'[b] = 0
  BY <1>1 DEF Inv, UpdateHasChild
<1> QED BY <1>1, <1>5, <1>8, <1>9, <1>10, ChildInv

LEMMA ChildKilledInv ==
  ASSUME Inv, NEW b \in Block, ChildKilled(b)
  PROVE  Inv'
<1>1. /\ running[b] > 0 /\ running' = [running EXCEPT ![b] = @ - 1]
      /\ zombies' = [zombies EXCEPT ![b] = Append(@, "killed")]
      /\ UNCHANGED <<loop, exiting, pipe, alarm, pending>>
  BY DEF ChildKilled
<1>2. running[b] = 1 /\ b \in forked /\ pipe[b] = <<>>
  BY <1>1, RunningLemma
<1>3. zombies[b] \in Seq({"ok", "failed", "killed"}) /\ exiting[b] \in Seq({"ok", "failed"})
  BY DEF Inv, Types
<1>4. running'[b] = 0 /\ zombies'[b] = Append(zombies[b], "killed")
  BY <1>1, <1>2 DEF Inv, Types
<1>5. Len(zombies'[b]) = Len(zombies[b]) + 1 /\ Len(zombies[b]) \in Nat /\ Len(exiting[b]) \in Nat
  BY <1>3, <1>4
<1>6. Types'
  <2>1. running' \in [Block -> Nat]
    BY <1>1, <1>2 DEF Inv, Types
  <2>2. zombies' \in [Block -> Seq({"ok", "failed", "killed"})]
    BY <1>1, <1>3 DEF Inv, Types
  <2> QED BY <1>1, <2>1, <2>2 DEF Inv, Types, loop
<1>7. running'[b] + Len(exiting'[b]) + Len(zombies'[b])
        = running[b] + Len(exiting[b]) + Len(zombies[b])
  <2>1. running[b] = running'[b] + 1 /\ running'[b] \in Nat /\ exiting' = exiting
    BY <1>1, <1>2, <1>4
  <2>2. running[b] \in Nat /\ Len(zombies'[b]) \in Nat
    BY <1>2, <1>5
  <2> DEFINE r == running[b]  r1 == running'[b]
             x == Len(exiting[b])  x1 == Len(exiting'[b])
             z == Len(zombies[b])  z1 == Len(zombies'[b])
  <2>3. /\ r \in Nat /\ r1 \in Nat /\ x \in Nat /\ x1 \in Nat /\ z \in Nat /\ z1 \in Nat
        /\ r = r1 + 1 /\ x1 = x /\ z1 = z + 1
    BY <1>5, <2>1, <2>2
  <2> HIDE DEF r, r1, x, x1, z, z1
  <2>4. r1 + x1 + z1 = r + x + z
    BY <2>3
  <2> QED BY <2>4 DEF r, r1, x, x1, z, z1
<1>8. \A c \in Block \ {b} : UNCHANGED <<running[c], exiting[c], zombies[c], pipe[c]>>
  BY <1>1 DEF Inv, Types
<1>9. pipe'[b] = <<>>
  BY <1>1, <1>2
<1> QED BY <1>1, <1>2, <1>6, <1>7, <1>8, <1>9, ChildInv

LEMMA AlarmInv == Inv /\ AlarmExpires => Inv'
<1> SUFFICES ASSUME Inv, AlarmExpires PROVE Inv'
  OBVIOUS
<1>1. /\ alarm' = FALSE /\ pending' = [pending EXCEPT ![TIMER_SIGNAL] = 1]
      /\ UNCHANGED <<pc, alive, active, forked, running, exiting, zombies, pipe>>
  BY DEF AlarmExpires, loop
<1>2. Types'
  <2>1. pending' \in [Signals -> Int]
    BY <1>1, PendingLemma DEF Inv, Types
  <2>2. alarm' \in BOOLEAN
    BY <1>1
  <2> QED BY <1>1, <2>1, <2>2, Zenon DEF Inv, Types
<1>3. OneChild' /\ UpdateHasChild'
  BY <1>1 DEF Inv, OneChild, UpdateHasChild
<1>4. pending'[TIMER_SIGNAL] = 1
  BY <1>1 DEF Inv, Types, Signals
<1>5. AliveInPoll' /\ AlarmNeverLost'
  BY <1>1, <1>4 DEF Inv, AliveInPoll, AlarmNeverLost
<1> QED BY <1>2, <1>3, <1>5 DEF Inv

LEMMA SendInv ==
  ASSUME Inv, NEW s \in Senders, Send(s)
  PROVE  Inv'
<1>1. /\ pending' = [pending EXCEPT ![s] = @ + 1]
      /\ UNCHANGED <<pc, alive, active, forked, running, exiting, zombies, pipe, alarm>>
  BY DEF Send, loop
<1>2. Types'
  <2>1. pending' \in [Signals -> Int]
    BY <1>1, PendingLemma DEF Inv, Types
  <2> QED BY <1>1, <2>1, Zenon DEF Inv, Types
<1>3. OneChild' /\ UpdateHasChild'
  BY <1>1 DEF Inv, OneChild, UpdateHasChild
<1>4. s # TIMER_SIGNAL /\ TIMER_SIGNAL \in Signals
  BY DwmblocksAssumption DEF Signals
<1>5. pending'[TIMER_SIGNAL] = pending[TIMER_SIGNAL]
  BY <1>1, <1>4 DEF Inv, Types
<1>6. AliveInPoll' /\ AlarmNeverLost'
  BY <1>1, <1>5 DEF Inv, AliveInPoll, AlarmNeverLost
<1> QED BY <1>2, <1>3, <1>6 DEF Inv

LEMMA StutterInv == Inv /\ UNCHANGED vars => Inv'
BY DEF vars, loop, Inv, Types, OneChild, UpdateHasChild, AliveInPoll, AlarmNeverLost

LEMMA StepInv == Inv /\ [Next]_vars => Inv'
<1> SUFFICES ASSUME Inv, [Next]_vars PROVE Inv'
  OBVIOUS
<1>1. CASE Loop
  BY <1>1, KickstartInv, WatcherPollInv, SignalInv, BlockUpdateInv, StatusUpdateInv DEF Loop
<1>2. CASE \E b \in Block : ChildWrites(b) \/ ChildExits(b) \/ ChildKilled(b)
  BY <1>2, ChildWritesInv, ChildExitsInv, ChildKilledInv
<1>3. CASE AlarmExpires
  BY <1>3, AlarmInv
<1>4. CASE \E s \in Senders : Send(s)
  BY <1>4, SendInv
<1>5. CASE UNCHANGED vars
  BY <1>5, StutterInv
<1> QED BY <1>1, <1>2, <1>3, <1>4, <1>5 DEF Next

\* Every block has a child exactly when its fork_pid says so, and never two
\* (block.c:55), however signals, the alarm and the ends of the commands
\* interleave with the loop.
THEOREM AtMostOneChild == Spec => []OneChild
<1>1. Inv => OneChild
  BY DEF Inv
<1> QED BY InitInv, StepInv, <1>1, PTL DEF Spec

\* A block that poll() finds readable holds one message, whose child is the
\* one that block_update waits for: waitpid() waits for a child that is about
\* to exit, never for one whose command still runs.
THEOREM UpdatesFindTheirChild == Spec => []UpdateHasChild
<1>1. Inv => UpdateHasChild
  BY DEF Inv
<1> QED BY InitInv, StepInv, <1>1, PTL DEF Spec

\* While the loop is alive the clock keeps running: the alarm is set, or its
\* signal is waiting to be read (trigger_event and timer_arm).
THEOREM ClockKeepsRunning == Spec => []AlarmNeverLost
<1>1. Inv => AlarmNeverLost
  BY DEF Inv
<1> QED BY InitInv, StepInv, <1>1, PTL DEF Spec

-----------------------------------------------------------------------------
(* The status.                                                             *)

\* status.current is what the outputs give whenever the loop waits, and the
\* root window shows it unless an update failed, which ends the loop.  Before
\* the first status that is not empty, the name may be that of an earlier run.
StatusInv ==
  /\ pc \in {"start", "poll"} => current = Joined(output)
  /\ pc # "exit" => name = current \/ (current = <<>> /\ name = <<"stale">>)

\* A bar whose blocks have printed nothing is empty.
LEMMA NothingShown ==
  Joined([b \in Block |-> Empty]) = <<>>
<1> DEFINE out == [b \in Block |-> Empty]
           full == {b \in Block : out[b] # Empty}
           Ordered(f) == \A i, j \in DOMAIN f : i < j => f[i] < f[j]
<1>1. full = {}
  OBVIOUS
<1>2. Cardinality(full) = 0
  BY <1>1, FS_EmptySet
<1>3. \E f \in [1 .. Cardinality(full) -> full] : Ordered(f)
  <2> DEFINE none == [i \in 1 .. 0 |-> 0]
  <2>1. none \in [1 .. Cardinality(full) -> full]
    <3>1. 1 .. Cardinality(full) = 1 .. 0
      BY <1>2
    <3>2. none \in [1 .. 0 -> full]
      OBVIOUS
    <3> QED BY <3>1, <3>2
  <2>2. DOMAIN none = {}
    OBVIOUS
  <2>3. Ordered(none)
    BY <2>2
  <2> QED BY <2>1, <2>3
<1>4. Shown(out) \in [1 .. Cardinality(full) -> full]
  <2>1. Shown(out) = CHOOSE f \in [1 .. Cardinality(full) -> full] : Ordered(f)
    BY DEF Shown
  <2> QED BY <1>3, <2>1
<1>5. DOMAIN Shown(out) = {}
  BY <1>2, <1>4
<1> QED BY <1>5 DEF Joined

LEMMA StatusInit == Init => StatusInv
<1> SUFFICES ASSUME Init PROVE StatusInv
  OBVIOUS
<1>1. output = [b \in Block |-> Empty] /\ current = <<>> /\ name \in {<<>>, <<"stale">>}
  BY DEF Init
<1>2. current = Joined(output)
  BY <1>1, NothingShown
<1> QED BY <1>1, <1>2 DEF StatusInv

LEMMA StatusStep == StatusInv /\ [Next]_vars => StatusInv'
<1> SUFFICES ASSUME StatusInv, [Next]_vars PROVE StatusInv'
  OBVIOUS
<1>1. CASE Kickstart
  BY <1>1 DEF Kickstart, StatusInv
<1>2. CASE watcher_poll
  <2>1. pc = "poll" /\ pc' \in {"signal", "update"} /\ UNCHANGED <<output, current, name>>
    BY <1>2 DEF watcher_poll
  <2> QED BY <2>1 DEF StatusInv
<1>3. CASE signal_handler_process
  <2>1. pc = "signal" /\ pc' = "update" /\ UNCHANGED <<output, current, name>>
    BY <1>3, Zenon DEF signal_handler_process
  <2> QED BY <2>1 DEF StatusInv
<1>4. CASE block_update
  <2>1. pc = "update" /\ UNCHANGED <<pc, current, name>>
    BY <1>4, Zenon DEF block_update
  <2> QED BY <2>1 DEF StatusInv
<1>5. CASE status_update
  <2>1. PICK ok \in BOOLEAN :
          /\ ok \/ (Failures /\ current' # current)
          /\ name' = IF ok /\ current' # current THEN current' ELSE name
          /\ pc' = IF ok /\ alive THEN "poll" ELSE "exit"
    BY <1>5 DEF status_update
  <2>2. pc = "update" /\ current' = Joined(output) /\ output' = output
    BY <1>5 DEF status_update
  <2>3. CASE ok
    BY <2>1, <2>2, <2>3 DEF StatusInv
  <2>4. CASE ~ok
    BY <2>1, <2>2, <2>4 DEF StatusInv
  <2> QED BY <2>3, <2>4
<1>6. CASE \E b \in Block : ChildWrites(b) \/ ChildExits(b) \/ ChildKilled(b)
  BY <1>6 DEF ChildWrites, ChildExits, ChildKilled, loop, StatusInv
<1>7. CASE AlarmExpires \/ \E s \in Senders : Send(s)
  BY <1>7 DEF AlarmExpires, Send, loop, StatusInv
<1>8. CASE UNCHANGED vars
  BY <1>8 DEF vars, loop, StatusInv
<1> QED BY <1>1, <1>2, <1>3, <1>4, <1>5, <1>6, <1>7, <1>8 DEF Next, Loop

\* Whenever the loop waits, WM_NAME of the root window is what the outputs of
\* the blocks give, unless nothing was ever shown (status_update and
\* status_write): an update that is not written ends the loop.
THEOREM NameAlwaysCurrent == Spec => []NameCurrent
<1>1. StatusInv => NameCurrent
  BY DEF StatusInv, NameCurrent
<1> QED BY StatusInit, StatusStep, <1>1, PTL DEF Spec

-----------------------------------------------------------------------------
(* The types of the state.                                                 *)

\* What is not in Types; the loop reads a signal only if one is pending.
Ranges ==
  /\ active \subseteq Block /\ forked \subseteq Block
  /\ time \in 0 .. reset_value
  /\ output \in [Block -> Text]
  /\ pending \in [Signals -> 0 .. MaxQueued]
  /\ pc = "signal" => \E s \in Signals : pending[s] > 0

LEMMA TimerTypes ==
  /\ tick \in Nat /\ reset_value \in Nat \ {0}
  /\ \A t \in 0 .. reset_value : timer_arm(t, Interval) \in 0 .. reset_value
<1>1. IsFiniteSet(DOMAIN Interval) /\ \A b \in DOMAIN Interval : Interval[b] \in Nat
  <2>1. DOMAIN Interval = 1 .. NBlocks /\ NBlocks \in Nat
    BY DwmblocksAssumption DEF Block
  <2>2. IsFiniteSet(1 .. NBlocks)
    BY <2>1, FS_Interval
  <2> QED BY <2>1, <2>2, DwmblocksAssumption DEF Block
<1>2. tick \in Nat
  BY <1>1, TickLemma DEF tick, IsGcd
<1>3. reset_value \in Positive
  BY <1>1, ResetLemma DEF reset_value
<1>4. ASSUME NEW t \in 0 .. reset_value
      PROVE  timer_arm(t, Interval) \in 0 .. reset_value
  <2>1. timer_arm(t, Interval) = (t + tick) % reset_value
    BY DEF timer_arm, tick, reset_value
  <2>2. t + tick \in Nat /\ reset_value \in Nat
    BY <1>2, <1>3 DEF Positive
  <2>3. (t + tick) % reset_value \in 0 .. (reset_value - 1)
    BY <1>3, <2>2, DivMod
  <2> QED BY <2>1, <2>2, <2>3
<1> QED BY <1>2, <1>3, <1>4 DEF Positive

\* block_execute sets fork_pid of blocks that exist, and timer_arm keeps the time.
LEMMA TriggerRanges ==
  ASSUME NEW ok \in BOOLEAN, Ranges, trigger_event(ok)
  PROVE  forked' \subseteq Block /\ time' \in 0 .. reset_value
<1>1. execute_blocks({b \in Block : timer_must_run_block(time, Interval, b)}, ok)
  BY Zenon DEF trigger_event
<1>2. forked' \subseteq Block
  BY <1>1 DEF execute_blocks, Ranges
<1>3. time' = timer_arm(time, Interval) \/ time' = time
  BY Zenon DEF trigger_event
<1> QED BY <1>2, <1>3, TimerTypes DEF Ranges

LEMMA SignalsAreNumbers == Signals \subseteq Nat /\ TIMER_SIGNAL \in Signals
  BY DwmblocksAssumption DEF Signals, SIGINT, REFRESH_SIGNAL, TIMER_SIGNAL, SIGTERM, SIGRTMIN

LEMMA RangesInit == Init => Ranges
<1> SUFFICES ASSUME Init PROVE Ranges
  OBVIOUS
<1>1. reset_value \in 0 .. reset_value /\ 0 \in 0 .. MaxQueued
  BY TimerTypes, DwmblocksAssumption
<1>2. output \in [Block -> Text] /\ pending \in [Signals -> 0 .. MaxQueued]
  BY <1>1, DwmblocksAssumption DEF Init
<1> QED BY <1>1, <1>2 DEF Init, Ranges

\* The signal that is read was pending, and the blocks that it names exist.
LEMMA SignalRanges == Ranges /\ signal_handler_process => Ranges'
<1> SUFFICES ASSUME Ranges, signal_handler_process PROVE Ranges'
  OBVIOUS
<1> DEFINE P == {t \in Signals : pending[t] > 0}
           s == Min(P)
<1>1. s \in Signals /\ pending[s] > 0
  <2>1. P \in SUBSET Nat /\ P # {}
    BY SignalsAreNumbers DEF signal_handler_process, Ranges
  <2> HIDE DEF P
  <2>2. s \in P
    BY <2>1, Least
  <2> QED BY <2>2 DEF P
<1>2. /\ pending' = [pending EXCEPT ![s] = @ - 1] /\ pc' = "update"
      /\ UNCHANGED <<active, output>>
  BY DEF signal_handler_process
<1> HIDE DEF s
<1>3. pending' \in [Signals -> 0 .. MaxQueued]
  <2>1. pending[s] \in 0 .. MaxQueued /\ MaxQueued \in Nat
    BY <1>1, DwmblocksAssumption DEF Ranges
  <2>2. pending[s] - 1 \in 0 .. MaxQueued
    BY <1>1, <2>1
  <2> QED BY <1>2, <2>2 DEF Ranges
<1>4. ASSUME NEW due \in SUBSET Block, NEW ok \in BOOLEAN, execute_blocks(due, ok)
      PROVE  forked' \subseteq Block
  BY <1>4 DEF execute_blocks, Ranges
<1>5. forked' \subseteq Block /\ time' \in 0 .. reset_value
  <2>1. CASE \E ok \in BOOLEAN : trigger_event(ok)
    BY <2>1, TriggerRanges
  <2>2. CASE (\E ok \in BOOLEAN : execute_blocks(Block, ok)) /\ UNCHANGED <<alarm, time>>
    BY <1>4, <2>2 DEF Ranges
  <2>3. CASE UNCHANGED <<alarm, time, forked, running>>
    BY <2>3 DEF Ranges
  <2>4. CASE /\ s > SIGRTMIN
             /\ LET b == Min({c \in Block : SIGRTMIN + Signal[c] = s})
                IN  \E ok \in BOOLEAN : execute_blocks({b}, ok)
             /\ UNCHANGED <<alarm, time>>
    <3> DEFINE C == {c \in Block : SIGRTMIN + Signal[c] = s}
    <3>1. C \in SUBSET Nat /\ C # {}
      <4>1. \E c \in Block : s = SIGRTMIN + Signal[c]
        BY <1>1, <2>4 DEF Signals, SIGINT, REFRESH_SIGNAL, TIMER_SIGNAL, SIGTERM, SIGRTMIN
      <4> QED BY <4>1, DwmblocksAssumption, SMTT(30) DEF Block
    <3>2. Min(C) \in C
      <4> HIDE DEF C
      <4> QED BY <3>1, Least
    <3>3. {Min(C)} \in SUBSET Block
      BY <3>2
    <3>4. PICK ok \in BOOLEAN : execute_blocks({Min(C)}, ok)
      BY <2>4, Zenon
    <3>5. forked' \subseteq Block
      <4> HIDE DEF C
      <4> QED BY <1>4, <3>3, <3>4
    <3> QED BY <2>4, <3>5 DEF Ranges
  <2> QED BY <2>1, <2>2, <2>3, <2>4, Zenon DEF signal_handler_process, s, P
<1>6. reset_value' = reset_value
  BY DEF reset_value
<1> QED BY <1>2, <1>3, <1>5, <1>6 DEF Ranges

\* What a block is given was in its pipe.
LEMMA UpdateRanges == Inv /\ Ranges /\ block_update => Ranges'
<1> SUFFICES ASSUME Inv, Ranges, block_update PROVE Ranges'
  OBVIOUS
<1> DEFINE b == Min(active)
<1>1. /\ active # {} /\ pipe[b] # <<>>
      /\ active' = active \ {b} /\ forked' = forked \ {b}
      /\ output' = IF Head(zombies[b]) = "ok"
                   THEN [output EXCEPT ![b] = Head(pipe[b])] ELSE output
      /\ UNCHANGED <<pc, time, pending>> /\ pc = "update"
  BY DEF block_update
<1>2. b \in Block
  <2>1. active \in SUBSET Nat /\ Block \in SUBSET Nat
    BY DwmblocksAssumption DEF Ranges, Block
  <2>2. b \in active
    BY <1>1, <2>1, Least
  <2> QED BY <2>2 DEF Ranges
<1>3. Head(pipe[b]) \in Text
  <2>1. pipe[b] \in Seq(Text)
    BY <1>2 DEF Inv, Types
  <2> QED BY <1>1, <2>1
<1> HIDE DEF b
<1>4. output' \in [Block -> Text]
  BY <1>1, <1>3 DEF Ranges
<1> QED BY <1>1, <1>4 DEF Ranges, reset_value

LEMMA RangesStep == Inv /\ Ranges /\ [Next]_vars => Ranges'
<1> SUFFICES ASSUME Inv, Ranges, [Next]_vars PROVE Ranges'
  OBVIOUS
<1>1. CASE Kickstart
  <2>1. PICK ok \in BOOLEAN : trigger_event(ok) /\ pc' = IF ok THEN "poll" ELSE "exit"
    BY <1>1 DEF Kickstart
  <2>2. UNCHANGED <<active, output, pending>> /\ pc' # "signal"
    BY <1>1, <2>1 DEF Kickstart
  <2>3. reset_value' = reset_value
    BY DEF reset_value
  <2> QED BY <2>1, <2>2, <2>3, TriggerRanges DEF Ranges
<1>2. CASE watcher_poll
  BY <1>2 DEF watcher_poll, Ranges, reset_value
<1>3. CASE signal_handler_process
  BY <1>3, SignalRanges
<1>4. CASE block_update
  BY <1>4, UpdateRanges
<1>5. CASE status_update
  <2>1. UNCHANGED <<active, forked, time, output, pending>> /\ pc' # "signal"
    BY <1>5 DEF status_update
  <2> QED BY <2>1 DEF Ranges, reset_value
<1>6. CASE \E b \in Block : ChildWrites(b) \/ ChildExits(b) \/ ChildKilled(b)
  <2>1. UNCHANGED <<loop, pending>>
    BY <1>6 DEF ChildWrites, ChildExits, ChildKilled
  <2> QED BY <2>1 DEF loop, Ranges, reset_value
<1>7. CASE AlarmExpires
  <2>1. UNCHANGED loop /\ pc = "poll" /\ pending' = [pending EXCEPT ![TIMER_SIGNAL] = 1]
    BY <1>7 DEF AlarmExpires
  <2>2. 1 \in 0 .. MaxQueued
    BY DwmblocksAssumption
  <2> QED BY <2>1, <2>2 DEF loop, Ranges, reset_value
<1>8. CASE \E s \in Senders : Send(s)
  <2>1. PICK s \in Senders : Send(s)
    BY <1>8
  <2>2. /\ UNCHANGED loop /\ pending' = [pending EXCEPT ![s] = @ + 1]
        /\ pending[s] < IF s < SIGRTMIN THEN 1 ELSE MaxQueued
    BY <2>1 DEF Send
  <2>3. s \in Signals /\ pending[s] \in 0 .. MaxQueued /\ MaxQueued \in Nat \ {0}
    BY DwmblocksAssumption DEF Ranges
  <2>4. pending[s] + 1 \in 0 .. MaxQueued
    <3>1. CASE s < SIGRTMIN
      BY <2>2, <2>3, <3>1
    <3>2. CASE ~(s < SIGRTMIN)
      BY <2>2, <2>3, <3>2
    <3> QED BY <3>1, <3>2
  <2>5. pending' \in [Signals -> 0 .. MaxQueued]
    BY <2>2, <2>4 DEF Ranges
  <2>6. \A t \in Signals : pending'[t] = IF t = s THEN pending[t] + 1 ELSE pending[t]
    BY <2>2 DEF Ranges
  <2>7. pc' = "signal" => \E t \in Signals : pending'[t] > 0
    <3>1. ASSUME NEW t \in Signals, pending[t] > 0 PROVE pending'[t] > 0
      <4>1. pending[t] \in Nat
        BY DEF Ranges
      <4> QED BY <2>6, <3>1, <4>1
    <3> QED BY <2>2, <3>1 DEF loop, Ranges
  <2> QED BY <2>2, <2>5, <2>7 DEF loop, Ranges, reset_value
<1>9. CASE UNCHANGED vars
  BY <1>9 DEF vars, loop, Ranges, reset_value
<1> QED BY <1>1, <1>2, <1>3, <1>4, <1>5, <1>6, <1>7, <1>8, <1>9 DEF Next, Loop

\* Every variable keeps to its values: the time stays below the reset value
\* (timer_arm), a signal that is read was pending (signal_handler_process),
\* blocks are given only what was in their pipes (block_update).
THEOREM TypeCorrect == Spec => []TypeOK
<1>1. Inv /\ Ranges => TypeOK
  BY DEF Inv, Types, Ranges, TypeOK
<1> QED BY InitInv, StepInv, RangesInit, RangesStep, <1>1, PTL DEF Spec
=============================================================================
