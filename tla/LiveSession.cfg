SPECIFICATION LiveSpec
CONSTANTS
  QueueSize = 2
  DropOnOverflow = TRUE
  MaxHeard = 4
INVARIANTS
    EveryUtteranceIsSubmitted
    ClosesAfterDeciding
PROPERTIES
    HandlerReturns
    TurnsAreDecided
    KeepsFifo
