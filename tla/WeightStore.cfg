\* One commit per repository, four starts that may each die anywhere.
SPECIFICATION WeightsSpec
CONSTANTS
  Shells = {}
  Cmds <- MCNoCmds
  Tags = {"ghcr"}
  Knobs = {}
  MaxRecipe = 0
  MaxRuns = 0
  MaxFaults = 0
  MaxHiccups = 0
  ReadyPolls = 1
  Primary = primary
  Fallback = fallback
  Revs = {r1}
  FallbackMain = r1
  Shards = {s1, s2}
  Config = config
  None = none
  Skips = {FALSE}
  MaxStarts = 4
CHECK_DEADLOCK FALSE
INVARIANTS LaunchHasAllShards
