SPECIFICATION Spec
CONSTANTS
  Retries = 1
  ClientSecs <- ShortSecs
  ServerSecs <- ShortSecs
  MaxUnacked = 2
  Timely = FALSE
  MaxLoss = 0
  MaxOut <- ThreeAndFour
  MayQuit = TRUE
INVARIANTS TypeOK NeverMisread StatesAgree JoinOnceAdmitted
PROPERTY NoServiceAfterEnd
CHECK_DEADLOCK FALSE
