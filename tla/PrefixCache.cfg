SPECIFICATION Spec
CONSTANTS
  Reqs = {r1, r2}
  Prompts <- MCPrompts
  NumBlocks = 8
  Flags <- MCFlags
  Honoured = TRUE
  SwaRetention = 0
  ReleaseOrder <- MCReleaseOrder
  MaxAsks = 3
INVARIANTS BlocksAccountedFor NoStoreCostsItsPeak
PROPERTY ImplementsPrefixStore
CHECK_DEADLOCK FALSE
SYMMETRY MCSymmetry
