SPECIFICATION FairSpec
CONSTANTS
  Keys <- MCKeys
  Footprints <- MCFootprints
  PassLength = 2
  MaxKeys = 3
INVARIANTS
  SettledLabels
  OffCellIsQuiet
  OneMemToMem
  DriverAgrees
  NoDeadChannel
  TransferAlone
  
PROPERTIES
  ChoicesTakeEffect
