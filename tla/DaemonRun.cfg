\* Three commits against a queue of two events and two late timer callbacks.
SPECIFICATION LiveSpec
CONSTANTS
  MaxCommits = 3
  MaxEvents = 2
  MaxFiring = 2
INVARIANTS
  TypeOK
  NoLostWakeup
  ClosedIsQuiet
  StatusHonest
PROPERTIES
  CatchesUp
  ShutsDown
\* A closed daemon stops.
CHECK_DEADLOCK FALSE
