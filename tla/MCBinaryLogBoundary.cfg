SPECIFICATION Spec
CONSTANTS
  Events <- AllEvents
  Encoding <- Layout
  FileHeader <- HeaderLayout
  Payload <- Contents
  Timestamp <- Times
  NoEvent = "none"
  Oversized <- TooLarge
  Plan <- Offers
  RequestedThreshold = 5
  FlushOnEachEvent = FALSE
  DiskFaults = FALSE
  ReadFaults = FALSE
  MaxNexts = 5
  Damages = 0
INVARIANTS
  EndOnlyAtBoundary
