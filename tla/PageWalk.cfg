\* Three sessions, start times at and after the beginning of a second, or none, one
\* row written during a walk.
SPECIFICATION LiveSpec
CONSTANTS
  Sessions = {1, 2, 3}
  MaxTime = 3
  Precision = 2
  Limits = {0, 1, 2, 9}
  MaxLimit = 2
  MaxWrites = 1
INVARIANTS
  TypeOK
  PagesDescend
  WalkComplete
PROPERTIES
  WalkEnds
