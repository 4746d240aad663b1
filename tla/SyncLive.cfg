\* One process: progress.
SPECIFICATION LiveSpec
CONSTANTS
  p1 = p1
  p2 = p2
  s1 = s1
  s2 = s2
  m1 = m1
  Procs <- OneProc
  Sessions <- TwoSessions
  Unhashed <- OnlyS2
  ChunkSize = 1
  MaxLen = 1
  MaxRev = 2
  OldWatermarks <- StaleWatermarks
  Marks <- NoSet
  LateResults = FALSE
  AllowReset = FALSE
INVARIANTS
  SkippedRowIsCurrent
PROPERTIES
  EventuallySynced
  EventuallyIdle
  ImplementsReplica
