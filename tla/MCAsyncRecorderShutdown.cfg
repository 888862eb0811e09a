SPECIFICATION Spec
CONSTANTS
  RequestedCapacity = 1
  SpuriousWakeups = FALSE
  Producers <- TwoProducers
  Events <- FourEvents
  Plan <- TwoEach
  Oversized <- TooLarge
  MaxStops = 2
  RequestedThreshold = 2
  FlushOnEachEvent = FALSE
  DiskFaults = FALSE
  Encoding <- OneUnitEach
  FileHeader <- OneHeader
  NoEvent = "none"
INVARIANTS
  ShutdownPreservesSubmitted
