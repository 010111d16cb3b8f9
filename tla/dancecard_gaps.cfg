CONSTANTS
    Items <- AnyItem
    Proposals <- AnyProposal
    Window <- Convention
    Buffers = {0, 1, 2}
    MinGaps = {1, 2}
    MaxItems = 3
SPECIFICATION Spec
INVARIANTS GapsAreTheFreeTime ChecksAreExact
CHECK_DEADLOCK FALSE
