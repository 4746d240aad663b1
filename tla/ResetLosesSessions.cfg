\* --reset-db and a crash before the first save.
SPECIFICATION Spec
CONSTANTS
  p1 = p1
  p2 = p2
  s1 = s1
  s2 = s2
  m1 = m1
  Procs <- OneProc
  Sessions <- OneSession
  Unhashed <- NoSet
  ChunkSize = 1
  MaxLen = 1
  MaxRev = 2
  OldWatermarks <- NoSet
  Marks <- NoSet
  LateResults = FALSE
  AllowReset = TRUE
INVARIANTS
  SkippedIsSynced
