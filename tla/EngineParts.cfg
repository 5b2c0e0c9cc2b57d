\* Every part by itself; the bounds of each are explained in MCEngineParts.
\* Indexer: ratio 4 narrows 8 entries to 6, ratio 2 would need 9 and keeps 8.
SPECIFICATION PartsSpec
CONSTANTS
  MaxModelLen = 4
  MaxSeqs = 3
  Mnbt = 4
  NumSpec = 1
  StockMultiplier = 2
  LogitsElems = 18
  Kpools = {0, 2, 4}
  Ratios = {1, 2, 4}
  Geometries <- MCGeometries
  Memories <- MCMemories
  Intervals <- MCIntervals
  Tokens <- MCTokens
  Language <- MCLanguage
  Text <- MCText
  Marker <- MCMarker
  Stops <- MCStops
  MaxDraft = 2
  MaxOut = 5
  Setups <- MCSetups
  Tile = 2
  Layers = 2
  Local = 2
  TopK = 2
  Routes <- MCRoutes
  Sizes = {2, 3}
  Floor = 2
  MaxCalls = 2
INVARIANTS
  ChunkListIsStock WorkspaceFits
  KernelBlocksStayInTheirPage RequestFitsThePool RetentionOnlyStarvesTheExempt 
  GrammarFollowsOutput NoSpuriousFailure 
  EachRowOnce  RanksShareTheExpert
CHECK_DEADLOCK FALSE
