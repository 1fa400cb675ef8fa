SPECIFICATION MCSpec
CONSTANTS
  Capacity = 4
  Modulus = 8
  Placements = 1
  BufBytes = 160
  MaxPush = 10
  MaxHalves = 7
  STEPS = 3
  AXES = 2
  MaxSamples = 5
  MaxPresses = 2
  SamplesPerCopy = 1
  Channels = 2
  MaxCompletions = 5
INVARIANTS
  NoSlotConflict
  DeliveredIsPrefix
  GapsAreDrops
  HeaderCoversBatch
  FoldsAreHalves
  WindowIsSamples
  OffByMeetings
PROPERTIES
  ImplementsLog
  AcceptedIsDelivered
CHECK_DEADLOCK FALSE
