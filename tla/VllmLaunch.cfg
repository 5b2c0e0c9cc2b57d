\* Three invocations, two faults, a wait of three polls.
SPECIFICATION Spec
CONSTANTS
  Shells = {"a", "b"}
  Cmds <- MCCmds
  Tags = {"ghcr", "local"}
  Knobs <- MCKnobs
  MaxRecipe = 1
  MaxRuns = 3
  MaxFaults = 2
  MaxHiccups = 2
  ReadyPolls = 3
CHECK_DEADLOCK FALSE
PROPERTIES UpIsThisLaunch UpRanksShareImage
