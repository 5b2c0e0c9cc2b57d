\* Two runs of the start script, one after the other, and no stop between
\* them; a signal, three faults.
SPECIFICATION Spec
CONSTANTS
  Starters = {s1, s2}
  Earlier = earlier
  None = none
  Pids = {p1, p2}
  WaitRounds = 1
  Overlap = FALSE
  OomGuards = {TRUE, FALSE}
  Smokes = {TRUE}
  MaxFaults = 3
  MaxInterrupts = 1
  Stops = FALSE
SYMMETRY Symmetry
CHECK_DEADLOCK FALSE
PROPERTIES FailedStartLeavesNothing ServingIsDisarmed 
