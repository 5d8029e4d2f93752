\* A block that the clock runs and one that a signal runs, a signal that runs
\* both and one that ends the loop, killed commands and failing forks.
SPECIFICATION FairSpec
CONSTANTS
  none = none
  hot = hot
  NBlocks = 2
  Interval <- MCIntervals
  Signal <- MCSignals
  Text <- Texts
  Empty = none
  Senders <- SomeSignals
  MaxQueued = 1
  Kills = TRUE
  Failures = TRUE
INVARIANTS
  TypeOK
  OneChild
  UpdateHasChild
  AlarmNeverLost
  NameCurrent
PROPERTIES
  TerminationEnds
  BlockRunsAgain
  ChildrenReaped
CHECK_DEADLOCK FALSE
