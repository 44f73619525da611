\* Three clients around the stop of the service, each with any number of images
\* of one chunk or of three.
CONSTANTS
  MaxClients = 3
  MaxCalls = 2
  short = short
  long = long
  Images = {short, long}
  Size <- Sizes
  None = None
SPECIFICATION FairFirmwareSpec
INVARIANTS
  FirmwareTypeOK
  AtMostOneMore
  FilesHoldOneImage
  ServedMeansWhole
  NoFileLeftOpen
PROPERTIES
  FinalizeEnds
  ClientsAreAccepted
\* The service ends.
CHECK_DEADLOCK FALSE
