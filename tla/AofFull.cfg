SPECIFICATION Spec
CONSTANTS
  k1 = k1
  k2 = k2
  word = word
  other = other
  Keys = {k1, k2}
  Words = {word, other}
  Blank = {}
  Empty = {}
  MaxInt = 5
  TicksPerSec = 1
  LastInstant = 9
  Forever = Forever
  NoLine = NoLine
  Clients = {c1, c2, c3}
  NumShards = 2
  ShardOf <- MCShardOf
  Commands <- AllCommands
  ChanCap = 1
  FlushAt = 2
  MaxApplied = 1
  MaxTime = 1
  Free = Free
  NoCommand = NoCommand
CHECK_DEADLOCK FALSE
SYMMETRY ClientSymmetry
INVARIANTS
  TypeOK
  LogOrder
  ScannedShardsAreExact
