SPECIFICATION LibrarySpec
CONSTANTS
    n1 = n1  n2 = n2  u1 = u1  r1 = r1  s1 = s1  s2 = s2  s3 = s3  s4 = s4  s5 = s5
    None = None
    Named = {n1, n2}
    Unnamed = {u1}
    Recordings = {r1}
    Spans = {s1, s2, s3, s4, s5}
    Unloadable = {}
    Start <- Starts
    Length <- Lengths
    Slot <- Slots
    Stocked <- StockedStore
    PerSource = 1
    Floor = 50
    ReportCap = 1
    Requests = 1
    Tasks = 1
    Mishaps = 1
CHECK_DEADLOCK FALSE
INVARIANTS
    RowsHaveAudio
PROPERTIES
    PromotionIsTheUsersAct
    OthersKeepTheirAudio
    ReprocessReplaces
