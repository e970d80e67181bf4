SPECIFICATION MCSpec
CONSTANTS
  k1 = k1
  k2 = k2
  word = word
  spaced = spaced
  Keys = {k1, k2}
  Words = {word, spaced}
  Blank = {spaced}
  Empty = {}
  MaxInt = 2
  TicksPerSec = 2
  LastInstant = 5
  Forever = Forever
  NoLine = NoLine
  Commands <- AllCommands
  MaxLog = 4
  MaxTime = 3
CHECK_DEADLOCK FALSE
INVARIANTS
  TypeOK
  ReplayRebuilds
  SnapshotRebuilds
  OnlyStringsExpire
  LeasesAgree
PROPERTIES
  MovesKeepItems
  TrimKeepsRange
  WritesAreRead
