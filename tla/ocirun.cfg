SPECIFICATION FairSpec
CONSTANTS
    c1 = c1
    c2 = c2
    p1 = p1
    p2 = p2
    None = None
    Pids = {p1, p2}
    Cmds = {c1, c2}
INVARIANTS StartsConfirmed RecordTracksContainer NoOrphan HarmlessDelete
PROPERTY StartReturns
CHECK_DEADLOCK FALSE
