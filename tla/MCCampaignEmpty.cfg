SPECIFICATION Spec
CONSTANTS
  Keys = {"t", "o", "0"}
  Footprints <- MCFootprints
  PassLength = 2
  MaxKeys = 3
INVARIANTS
  PassHasACell
