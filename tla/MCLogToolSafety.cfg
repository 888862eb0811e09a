SPECIFICATION Spec
CONSTANTS
  Events <- AllEvents
  Encoding <- Layout
  FileHeader <- HeaderLayout
  Payload <- Contents
  Timestamp <- Times
  NoEvent = "none"
  ReadFaults = TRUE
  Log <- Recorded
  Fields <- Attributes
  LogName = "log"
  CommandLines <- Lines
  NumberOf <- Numbers
  MaxU16 = 255
  MaxU32 = 1023
  NoOption = NoOption
INVARIANTS
  TypeOK
  ExitZeroMeansSelected
  DamageIsReported
  JsonIsAnArray
  InspectAddsUp
