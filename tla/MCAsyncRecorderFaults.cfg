SPECIFICATION Spec
CONSTANTS
  RequestedCapacity = 1
  SpuriousWakeups = FALSE
  Producers <- TwoProducers
  Events <- FourEvents
  Plan <- TwoEach
  Oversized <- TooLarge
  MaxStops = 2
  RequestedThreshold = 2
  FlushOnEachEvent = FALSE
  DiskFaults = TRUE
  Encoding <- OneUnitEach
  FileHeader <- OneHeader
  NoEvent = "none"
INVARIANTS
  TypeOK
  Conservation
  FileIsPrefix
  StopIsABarrier
  CountersAgree
  StopIsConsistent
  NoSilentLoss
  NoSilentRefusal
PROPERTIES
  ImplementsContract
