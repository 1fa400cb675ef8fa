SPECIFICATION Spec
CONSTANTS
  Keys <- MCKeys
  Footprints <- MCFootprints
  PassLength = 2
  MaxKeys = 3
INVARIANTS
  MemToMemInPlace
