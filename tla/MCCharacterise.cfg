CONSTANTS
  Priority <- MCPriority
  Alphabet <- ALPHABET
  Kept <- KeptField
  PowerOn <- MCPowerOn
  StaticPage = 3
  Earlier <- MCEarlier
  Window <- MCWindow
  Nothing = Nothing
  NoName = NoName
  MaxWire = 1
  MaxFaults = 1
  Commands <- MCCommands
  Cells <- CELLS
  Requests <- MCRequests
  Rates <- BW_XACTS
  FitMax <- FIT_MAX_XACT
SPECIFICATION Spec
INVARIANTS OneCount ArmedIsSet ReportedIsTheCell 
PROPERTIES ResetsComeFirst
CHECK_DEADLOCK FALSE
