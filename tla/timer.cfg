SPECIFICATION TimerSpec
CONSTANTS
  NumDev = 3
  TimeCap = 2
INVARIANTS
  TimerTypeOK
  ExitsLast
PROPERTIES
  ImplementsSlotClock
  SleeperWakes
  TimerEnds
CHECK_DEADLOCK FALSE
