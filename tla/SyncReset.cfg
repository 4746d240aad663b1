\* One process, two sessions in a chunk, --reset-db, late tool calls.
SPECIFICATION Spec
CONSTANTS
  p1 = p1
  p2 = p2
  s1 = s1
  s2 = s2
  m1 = m1
  Procs <- OneProc
  Sessions <- TwoSessions
  Unhashed <- NoSet
  ChunkSize = 2
  MaxLen = 1
  MaxRev = 2
  OldWatermarks <- StaleWatermarks
  Marks <- NoSet
  LateResults = TRUE
  AllowReset = TRUE
SYMMETRY SessionSymmetry
INVARIANTS
  ForcedRunSound
