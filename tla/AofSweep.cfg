SPECIFICATION FairSweepSpec
CONSTANTS
  k1 = k1
  k2 = k2
  word = word
  other = other
  Keys = {k1, k2}
  Words = {word, other}
  Blank = {}
  Empty = {}
  MaxInt = 5
  TicksPerSec = 1
  LastInstant = 9
  Forever = Forever
  NoLine = NoLine
  Clients = {c1, c2}
  NumShards = 2
  ShardOf <- MCShardOf
  Commands <- LeaseCommands
  ChanCap = 1
  FlushAt = 2
  MaxApplied = 2
  MaxTime = 2
  Free = Free
  NoCommand = NoCommand
CHECK_DEADLOCK FALSE
PROPERTIES
  EveryCommandAnswered
  EveryChangeWritten
  SweepsOnlyExpired
  ExpiredAreSwept
