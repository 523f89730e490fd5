SPECIFICATION Spec
CONSTANTS
  ByteBits = 3
  InitialSize = 2
  IntBits = 6
  WideBits = 12
  NumberBytes = 2
  UValue <- UValues
  SValue <- SValues
  MessageTypes <- Types
  MessageValue <- Messages
  NumInputs = 2
  InputValue <- Inputs
  JoinValue <- Joins
  GameName <- Name
  GameVersion = 1000
  LibVersion <- Lib
  NumFields = 6
  UpdateValue <- Updates
  ArraySize = 4
  Element = {0, 5}
  MaxItems = 2
  MaxPackets = 2
INVARIANTS TypeOK ReadToTheEnd RoundTrip ArrayFollows JoinAnswered
CHECK_DEADLOCK FALSE
