SPECIFICATION Spec
CONSTANTS
  HeaderV1Size = 1
  HeaderV2Size = 2
  PlacementSize = 1
  RecordSize = 2
  Wires <- MCWires
  Version = 2
INVARIANTS
  EveryByteOnce
  CountsAreOfTheStream
  IntactFrameIsTaken
  RecordsOfTheBatches
PROPERTIES
  ImplementsScan
CHECK_DEADLOCK FALSE
