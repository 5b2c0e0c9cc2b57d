\* One run of the start script and one of the stop script, in any order or
\* interleaved, under fairness; a signal, two faults.
SPECIFICATION LiveSpec
CONSTANTS
  Starters = {s1}
  Earlier = earlier
  None = none
  Pids = {p1}
  WaitRounds = 1
  Overlap = FALSE
  OomGuards = {TRUE}
  Smokes = {TRUE, FALSE}
  MaxFaults = 2
  MaxInterrupts = 1
  Stops = TRUE
CHECK_DEADLOCK FALSE
PROPERTIES StopReportIsTrue StartTerminates GuardsTerminate
