\* Three cars over two laps; one may stop; Position streams or not.
CONSTANTS
  Cars <- ThreeCars
  Mapped <- ThreeCars
  Fragile <- OneFragile
  Grids <- OneGrid
  TotalLaps = 2
  MaxOvertakes = 1
  Spreads <- Steady
  Streams <- Either
SPECIFICATION RankingFairSpec
INVARIANTS RankingTypeOK OrderSettles
PROPERTIES FinalIsWritten
CHECK_DEADLOCK FALSE
