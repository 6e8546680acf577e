SPECIFICATION TimelineSpec
CONSTANTS
  Channels = {mic, speaker}
  Tolerance = 1
  MaxLead = 2
  LeadDivisor = 2
  MaxTime = 5
  MaxLength = 2
  MaxTurns = 3
CHECK_DEADLOCK FALSE
INVARIANTS
    UnflaggedTurnsAreOrdered
    HonestClientIsTrusted
