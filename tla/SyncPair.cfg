\* Two processes, one session.
SPECIFICATION Spec
CONSTANTS
  p1 = p1
  p2 = p2
  s1 = s1
  s2 = s2
  m1 = m1
  Procs <- TwoProcs
  Sessions <- OneSession
  Unhashed <- NoSet
  ChunkSize = 1
  MaxLen = 2
  MaxRev = 2
  OldWatermarks <- StaleWatermarks
  Marks <- NoSet
  LateResults = FALSE
  AllowReset = FALSE
SYMMETRY ProcSymmetry
INVARIANTS
  TypeOK
  WatermarkSound
  SkippedIsSynced
