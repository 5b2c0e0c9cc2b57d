\* Two requests, a ladder of three rungs, every boot switch, one write of the
\* override file, under fairness of the engine.
CONSTANTS
  Requests = {r1, r2}
  K = 4
  SetBound = 4
  BootSet <- MCBootSet
  BootParams <- MCParams
  Knobs <- MCKnobs
  Configs <- MCConfigs
  Scale = 1
  AlphaDen = 2
  StepCap = 1
  ReloadEvery = 1
  HistEvery = 2
  StepPeriod = 2
  MaxWrites = 1
  MinAccepted <- MCMixed
SPECIFICATION FairSpec
INVARIANT TrimmedRowsAreCaptured
INVARIANT StructuredHoldsBatch
PROPERTY ForgetsLiveOnlyOnReload
PROPERTY LoneRequestRegainsFullLength
