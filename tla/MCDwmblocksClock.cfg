\* Three blocks with every choice of intervals up to six seconds; nothing
\* happens after the kickstart when all intervals are zero.
SPECIFICATION Spec
CONSTANTS
  Block <- Blocks
  MaxInterval = 6
INVARIANTS
  TickIsGreatest
  NeverLate
PROPERTIES
  OnTime
CHECK_DEADLOCK FALSE
