\* Sequence numbers that wrap, packets of one or two fragments, a window (and a
\* reassembly buffer) of 2.
CONSTANTS
  SeqMod = 8
  H = 2
  MaxSent = 4
  MaxFrags = 2
  FirstSeqs = {0, 6}
SPECIFICATION Spec
INVARIANTS TypeOK HistoryExact AtMostOnce InvalidOnlyAfterTwoFinishes FragmentAgesExact IInv
CHECK_DEADLOCK FALSE
