CONSTANTS
  Nothing = Nothing
  NameOrder <- MCNames
  Projects <- MCProjects
  Images <- MCImages
  UNDECLARED_WINDOW = 3
  MaxRebuilds = 1
  SAMPLE_LIMIT = 2
  CELL_LIMIT = 2
  DeviceRegions <- MCRegions
  DmaRequesters = {"gpdma1"}
  StallCounted = TRUE
  MAX_READS_PER_TICK = 2
  CommandLines <- MCCommandLines
  ScreenProjects <- MCScreenProjects
SPECIFICATION HostSpec
INVARIANTS NothingIsDropped TotalIsThePlacement CleanMeansChecked TableAgreesWithElf WhatIfAgreesWithTotal RecordingIsWhole CellsFollowTheHeader ScreenIsOfThisHeader ExitTellsTheTruth
PROPERTIES OthersKept ReplayEnds LatestIsShown
CHECK_DEADLOCK FALSE
