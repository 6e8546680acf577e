SPECIFICATION RebuildSpec
CONSTANTS
    n1 = n1  n2 = n2  u1 = u1  r1 = r1  s1 = s1  s2 = s2
    None = None
    Named = {n1, n2}
    Unnamed = {u1}
    Recordings = {r1}
    Spans = {s1, s2}
    Unloadable = {s2}
    Start <- Starts
    Length <- Lengths
    Slot <- Slots
    Stock <- BrokenStock
    PerSource = 2
    Floor = 50
    ReportCap = 1
    MaxAttempts = 2
    MaxDone = 3
    DeadCap = 1
    Ttl = TRUE
    Acts = 2
    Crashes = 1
CHECK_DEADLOCK FALSE
PROPERTIES
    RepairsLoseNoAudio
    RepairsCease
    QueueDrains
