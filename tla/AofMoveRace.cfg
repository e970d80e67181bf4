SPECIFICATION CrashSpec
CONSTANTS
  k1 = k1
  k2 = k2
  word = word
  other = other
  Keys = {k1, k2}
  Words = {word, other}
  Blank = {}
  Empty = {}
  MaxInt = 5
  TicksPerSec = 1
  LastInstant = 9
  Forever = Forever
  NoLine = NoLine
  Clients = {c1, c2}
  NumShards = 2
  ShardOf <- MCShardOf
  Commands <- QueueCommands
  ChanCap = 1
  FlushAt = 1
  MaxApplied = 3
  MaxTime = 0
  Free = Free
  NoCommand = NoCommand
CHECK_DEADLOCK FALSE
INVARIANTS
  QuietDiskRebuilds
