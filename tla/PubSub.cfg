SPECIFICATION FairSpec
CONSTANTS
  Clients = {p, s1, s2}
  Publishers = {p, s2}
  Subscribers = {s1, s2}
  Channels = {news}
  Capacity = 1
  Room = 1
  Silent = {s2}
  MaxSent = 2
  NoChannel = NoChannel
INVARIANTS
  TypeOK
  OnlyOverwrittenMissed
PROPERTIES
  ImplementsFeed
  TableServed
  Delivered
  UnsubscribeHeard
\* a publisher that does not read stops everyone who waits behind a SUBSCRIBE
CHECK_DEADLOCK FALSE
