SPECIFICATION FairSpec
CONSTANTS
  Tasks = {t1, t2, t3}
  NumShards = 2
  Reads <- RisingPairs
INVARIANTS
  TypeOK
  OrderedWriters
  NoCircle
PROPERTIES
  ImplementsAtomicGuards
  EveryoneServed
