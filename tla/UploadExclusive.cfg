\* A transcription and a library pass of one user: the service is serial.
SPECIFICATION Spec
CONSTANTS
    j1 = j1
    j2 = j2
    ann = ann
    bob = bob
    NoJob = NoJob
    Jobs = {j1, j2}
    Users = {ann, bob}
    Followers = {f1}
    Watchers = {w1}
    Owner <- AllAnn
    Mode <- OneLibrary
    Spooled = {}
    Save = {j1}
    FollowerUser <- AnnFollows
    WatcherUser <- AnnWatches
    Ticks = 1
    Windows = 1
INVARIANTS
    OneJobAtATime
    LogMirrorsResponse
    CancelIsHonouredWithSegments
    VerdictEndsTheResponse
    ActivityTellsTheTruth
PROPERTIES
    LeaversResultsAreSaved
    SerialSpec
