SPECIFICATION FairSpec
CONSTANTS
  Submitters <- TwoProducers
  Records <- AllRecords
  CommandLines <- Lines
  NumberOf <- Numbers
  MaxU16 = 255
  MaxU32 = 1023
  DefaultProducers = 2
  DefaultEvents = 2
  DefaultOutput = "recording"
  MaxSequence = 3
INVARIANTS
  TypeOK
  ExitZeroMeansComplete
  SignalStopsProducers
  OrderPerProducer
PROPERTIES
  ProgramEnds
