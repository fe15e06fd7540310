SPECIFICATION SysSpec
CONSTANTS
  p1 = p1  p2 = p2  p3 = p3  p4 = p4  c1 = c1  c2 = c2  ld = ld
  NoProc = NoProc
  Loader = ld
  Proc <- MCProc
  CPU <- MCCPU
  Device <- MCDevice
  Script <- MCScript
  StartTime <- MCStart
  Size <- MCSize
  Memmap <- MCMemmap
  Prio <- MCPrio
  Priority <- MCPriority
  MaxPrio = 2
  MaxQueueSize = 3
  TimeSlot = 2
  TimeCap = 10
INVARIANTS
  OsTypeOK
  StopIsSafe
PROPERTIES
  OncePerSlot
  WholeSlice
  EveryProcessFinishes
  BusyCpuStops
  MissedOnlyByShift
CHECK_DEADLOCK FALSE
