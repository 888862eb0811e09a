SPECIFICATION Spec
CONSTANTS
  RequestedCapacity = 2
  SpuriousWakeups = FALSE
  Producers = {p1, p2, p3}
  Consumers = {c1, c2}
  Closers = {k1, k2}
  MaxSends = 2
SYMMETRY Symmetry
INVARIANTS
  TypeOK
  NoStrandedProducer
  NoStrandedConsumer
PROPERTIES
  ImplementsChannel
