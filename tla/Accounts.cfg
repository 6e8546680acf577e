\* Two signups for one name, a Google account, the operator's file, restarts.
SPECIFICATION Spec
CONSTANTS
    Ada = Ada
    ada = ada
    None = None
    Signups = {r1, r2}
    Names = {Ada, ada}
    Lower <- Lowered
    Addresses = {a1}
    Subjects = {s1, s2}
    Browsers = {b1}
    Clients = {c1, c2}
    root = root
    Admin = root
    Files <- OperatorFiles
    Limit = 1
    Window = 2
    MaxTime = 2
INVARIANTS
    ThrottleHolds
    LinksConfirmTheirOwn
PROPERTIES
    NoSecondDoor
    SignInsAreEntitled
SYMMETRY Symmetry
CHECK_DEADLOCK FALSE
