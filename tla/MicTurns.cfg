SPECIFICATION MicSpec
CONSTANTS
  PreRoll = 3
  Confirm = 2
  Hangover = 3
  PostRoll = 1
  MinVoiced = 3
  MaxTurn = 7
  MaxFrames = 13
  MergeGap = 3
  MaxMerge = 10
  MaxTrim = 2
  TrimPercent = 30
CHECK_DEADLOCK FALSE
INVARIANTS
    AudioStaysInPlace
    SpeechIsSubmittedOnce
    SubmittedInOrder
