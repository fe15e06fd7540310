SPECIFICATION BypassSpec
CONSTANTS
  p1 = p1  p2 = p2  p3 = p3  p4 = p4  p5 = p5  c1 = c1  c2 = c2
  NoProc = NoProc
  Proc <- MCProc3
  CPU <- MCCPU
  Prio <- MCPrio3
  Priority <- MCPriorityMixed
  MaxPrio = 2
  MaxQueueSize = 3
PROPERTY RoundRobinWithinLevel
