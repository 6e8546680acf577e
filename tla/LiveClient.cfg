\* Four blocks on two channels; turns merge if they are adjacent and span at most three.
SPECIFICATION ClientSpec
CONSTANTS
  Mic = Mic
  Speaker = Speaker
  MergeGap = 0
  MaxMerge = 3
  MaxBlocks = 4
CHECK_DEADLOCK FALSE
INVARIANTS
  TurnsGoOutInOrder
  SpeechIsSent
PROPERTY SessionEnds
