\* No wrap, packets of one datagram: the connection is a PacketChannel.
CONSTANTS
  SeqMod = 16
  H = 3
  MaxSent = 5
  MaxFrags = 1
  FirstSeqs = {0, 11}
SPECIFICATION FairSpec
INVARIANTS OldIsFlagged NothingAfterFinish
PROPERTIES NothingLostWithinWindow ImplementsPacketChannel
CHECK_DEADLOCK FALSE
