SPECIFICATION Spec
CONSTANTS
  k1 = k1
  k2 = k2
  k3 = k3
  Keys = {k1, k2, k3}
  NumShards = 3
  Home <- MCHome
  Matching <- MCMatching
INVARIANTS
  NothingLeftOut
  ListedOnce
  CountInBounds
