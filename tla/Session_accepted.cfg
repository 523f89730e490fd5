SPECIFICATION FairSpec
CONSTANTS
  Retries = 5
  ClientSecs <- CodeClientSecs
  ServerSecs <- CodeServerSecs
  MaxUnacked = 2
  Timely = TRUE
  MaxLoss = 1
  MaxOut <- SixEach
  MayQuit = FALSE
PROPERTY Connects
CHECK_DEADLOCK FALSE
