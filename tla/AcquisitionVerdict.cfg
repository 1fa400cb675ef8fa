CONSTANTS
  MaxHalves = 7
  STEPS = 3
  AXES = 2
  MaxSamples = 5
  MaxPresses = 2
  SamplesPerCopy = 1
  Channels = 2
  MaxCompletions = 5
SPECIFICATION AcqSpec
INVARIANT MatchIsOfGolden
