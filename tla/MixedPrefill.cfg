\* Caps off, skip and 1; the block (2) is below and above the threshold.
SPECIFICATION LiveSpec
CONSTANTS
  Requests = {r1, r2, r3}
  Prompts = {1, 5}
  Outputs = {3}
  Budget = 4
  MaxSeqs = 2
  Thresholds = {0, 3}
  Block = 2
  HashBlock = 1
  Eagles = {TRUE, FALSE}
  PartialHit = TRUE
  Off = off
  Caps = {off, 0, 1}
  MaxPreempts = 1
CHECK_DEADLOCK FALSE
INVARIANTS MixedChunkWithinCap NoStall
PROPERTY EveryRequestFinishes
