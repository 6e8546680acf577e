\* A spooled transcription and another user's pass over one speaker overlap, with a
\* reattached page: what still holds.
SPECIFICATION Spec
CONSTANTS
    j1 = j1
    j2 = j2
    ann = ann
    bob = bob
    NoJob = NoJob
    Jobs = {j1, j2}
    Users = {ann, bob}
    Followers = {f1}
    Watchers = {}
    Owner <- AnnAndBob
    Mode <- OneSpeaker
    Spooled = {j1}
    Save = {j1}
    FollowerUser <- AnnFollows
    WatcherUser <- AnnWatches
    Ticks = 1
    Windows = 1
INVARIANTS
    FollowersSeeTheLog
PROPERTIES
    VerdictIsFinal
    RegistrySpec
    EveryJobEnds
    FollowersAreReleased
