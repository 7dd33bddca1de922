SPECIFICATION FairSpec
CONSTANTS
    Polls = {p1, p2}
    NoPoll = NoPoll
    Buffer = 3
    Refs = 2
    LifetimeMayEnd = TRUE
CHECK_DEADLOCK FALSE
INVARIANTS
    SenderNeverBlocks
PROPERTIES
    PollsAnswered
    PollsLeaveNothing
