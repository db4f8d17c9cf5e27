SPECIFICATION Spec
CONSTANTS
  w1 = w1
  w2 = w2
  Stored <- MCStored
  MaxStored = 4
  MaxId = 8
  WordBits = 4
  Workers = {w1, w2}
INVARIANTS
  NextIsUnused
  NoIdLost
SYMMETRY Symmetry
