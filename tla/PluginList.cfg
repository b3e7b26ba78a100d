CONSTANTS
    Receivers = {r1, r2}
    Peers = {p1}
    None = None
SPECIFICATION FairSpec
CONSTRAINT BeforeRaces
INVARIANTS ClosedIsUnused PublishedExist
PROPERTY ListEmpties
CHECK_DEADLOCK FALSE
