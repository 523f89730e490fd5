\* Two messages on each side, no wrap of the batch numbers.
CONSTANTS
  SeqMod = 3
  MaxMsgs <- TwoAndOne
  MaxFlight = 2
SPECIFICATION FairSpec
INVARIANTS TypeOK NothingForgotten HandledInOrder AcknowledgedIsHandled
PROPERTY EveryMessageHandled
