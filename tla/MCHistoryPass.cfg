SPECIFICATION FairSpec
CONSTANTS
    alice = alice
    group = group
    status = status
    m1 = m1
    m2 = m2
    m3 = m3
    m4 = m4
    bad = bad
    f1 = f1
    f2 = f2
    Chats = {alice, group, status}
    Messages = {m1, m2, m3, m4, bad}
    Untracked = {status}
    Unprojectable = {bad}
    NoChat = NoChat
    ChunkSize = 2
    Flushes = {f1, f2}
    Scenarios <- PassScenarios
CHECK_DEADLOCK FALSE
INVARIANTS
    NoMessageTwice
    NothingLost
    FinishedOncePerPairing
PROPERTIES
    ReadyToFlush
    FlushDelivers
