SPECIFICATION Spec
CONSTANTS
  NumArms = 2
  Benches <- MCBenches
  MaxTroubles = 2
  Interval = 2
  IdleWindows = {0, 2}
  Timeouts = {0, 3}
  MaxGap = 3
  Wrap = 4
  Durations = {0, 3}
  Signals = {"SIGINT"}
  Latency = 1
  Lines = 2
  Modes = {"watch"}
  MaxTime = 6
  Samples = 5
  Window = 2
  BaselineWindow = 2
  Logs <- MCLogs
  MaxServes = 2
  MaxRestarts = 1
INVARIANT MarkersAreLines
CHECK_DEADLOCK FALSE
