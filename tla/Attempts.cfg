SPECIFICATION FairSpec
CONSTANTS
    MaxEvents <- MCMaxEvents
INVARIANTS
    AttemptsMeetTheirState
    NeverIdle
    ServerKnowsUser
    RejectedTokenIsReplaced
PROPERTIES
    KeepsConnecting
CHECK_DEADLOCK FALSE
