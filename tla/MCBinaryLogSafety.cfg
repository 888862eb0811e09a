SPECIFICATION Spec
CONSTANTS
  Events <- AllEvents
  Encoding <- Layout
  FileHeader <- HeaderLayout
  Payload <- Contents
  Timestamp <- Times
  NoEvent = "none"
  Oversized <- TooLarge
  Plan <- Offers
  RequestedThreshold = 5
  FlushOnEachEvent = FALSE
  DiskFaults = TRUE
  ReadFaults = TRUE
  MaxNexts = 5
  Damages = 1
INVARIANTS
  TypeOK
  FileIsPrefix
  ReadsAPrefix
  ReadsInOrder
  ClosedLogReadsBack
  StatsMatchFile
  InfoSpansReturned
PROPERTIES
  EndIsHonest
