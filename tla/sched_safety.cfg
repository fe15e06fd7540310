SPECIFICATION FairSchedSpec
CONSTANTS
  p1 = p1  p2 = p2  p3 = p3  p4 = p4  p5 = p5  c1 = c1  c2 = c2
  NoProc = NoProc
  Proc <- MCProc5
  CPU <- MCCPU
  Prio <- MCPrio5
  Priority <- MCPriority5
  MaxPrio = 3
  MaxQueueSize = 2
INVARIANTS
  SchedTypeOK
  NoDoubleDispatch
  NoStalePointer
  RunningListExact
  WorkConserving
  BoundedBypass
PROPERTIES
  LostOnlyWhenFull
  EventuallyDispatched
