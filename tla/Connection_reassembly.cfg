CONSTANTS
  SeqMod = 8
  H = 2
  MaxSent = 1
  MaxFrags = 2
  FirstSeqs = {0}
SPECIFICATION FairSpec
PROPERTY FragmentsReconstructed
CHECK_DEADLOCK FALSE
