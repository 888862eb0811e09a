SPECIFICATION FairSpec
CONSTANTS
  RequestedCapacity = 1
  SpuriousWakeups = TRUE
  Producers <- TwoProducers
  Events <- FourEvents
  Plan <- TwoAndOne
  Oversized <- TooLarge
  MaxStops = 1
  RequestedThreshold = 1
  FlushOnEachEvent = FALSE
  DiskFaults = TRUE
  Encoding <- OneUnitEach
  FileHeader <- OneHeader
  NoEvent = "none"
PROPERTIES
  FailureReleasesProducers
  StopReturns
  AcceptedIsWritten
