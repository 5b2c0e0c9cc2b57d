SPECIFICATION BootSpec
CONSTANTS
  ImageTexts <- MCImages
  Gates <- MCGates
  Roles = {"head", "worker"}
  MaxDeaths = 2
INVARIANTS  OnlyTornFilesRefuse
CHECK_DEADLOCK FALSE
