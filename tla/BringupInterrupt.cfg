\* One start, one signal.
SPECIFICATION Spec
CONSTANTS
  Starters = {s1}
  Earlier = earlier
  None = none
  Pids = {p1}
  WaitRounds = 1
  Overlap = FALSE
  OomGuards = {TRUE}
  Smokes = {TRUE}
  MaxFaults = 0
  MaxInterrupts = 1
  Stops = FALSE
CHECK_DEADLOCK FALSE
INVARIANT InterruptedStartIsCleaned
