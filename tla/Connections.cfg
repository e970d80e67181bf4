SPECIFICATION FairSpec
CONSTANTS
  a = a
  b = b
  Addrs = {a, b}
  MaxId = 3
  From <- MCFrom
  Says <- MCSays
  RequirePass = TRUE
  Kept = 1
  Room = 1
  Silent = {1}
INVARIANTS
  TypeOK
  NoGhosts
  OnlyReuseHides
  AnswersInOrder
  TranscriptWhole
CHECK_DEADLOCK FALSE



PROPERTIES
  EveryoneAnswered
  Forgotten
