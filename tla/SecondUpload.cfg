\* Two uploads, one of them spooled to disk while it is read.
SPECIFICATION Spec
CONSTANTS
    j1 = j1
    j2 = j2
    ann = ann
    bob = bob
    NoJob = NoJob
    Jobs = {j1, j2}
    Users = {ann, bob}
    Followers = {}
    Watchers = {}
    Owner <- AnnAndBob
    Mode <- OneDiarizes
    Spooled = {j1}
    Save = {j1}
    FollowerUser <- AnnFollows
    WatcherUser <- AnnWatches
    Ticks = 0
    Windows = 0
INVARIANT OneJobAtATime
