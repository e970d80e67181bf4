SPECIFICATION Spec
CONSTANTS
  Tasks = {t1, t2}
  NumShards = 2
  Reads <- AnyPair
CHECK_DEADLOCK FALSE
INVARIANTS
  NoCircle
