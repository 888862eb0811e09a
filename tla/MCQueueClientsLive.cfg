SPECIFICATION FairSpec
CONSTANTS
  RequestedCapacity = 0
  SpuriousWakeups = TRUE
  Producers = {p1, p2}
  Consumers = {c1, c2}
  Closers = {k1}
  MaxSends = 2
PROPERTIES
  ImplementsChannel
  PushProgress
  CloseReleasesAll
