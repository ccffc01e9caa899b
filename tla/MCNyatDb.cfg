SPECIFICATION Spec
CONSTANTS
    C1 = C1
    C2 = C2
    None = None
    Chats = {C1, C2}
    Slots = 2
    Keep = 1
    SyncEvery = 2
    MaxMsgs = 4
    MaxTrims = 2
    MaxCheckpoints = 2
    MaxFaults = 1
SYMMETRY Symmetry
CHECK_DEADLOCK FALSE
CONSTRAINT TrimsOrFaults
INVARIANTS TypeOK CleanIsExact KillKeepsAppends SyncedSurvives FoundIsOwn
