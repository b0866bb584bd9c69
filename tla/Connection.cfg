SPECIFICATION FairSpec
CONSTANTS
    list = list
    read1 = read1
    Listens <- MCListens
    Lasting <- MCLasting
    MaxPuts = 2
    MaxLosses = 2
    MaxRefreshes = 2
INVARIANTS
    CountMatchesRequests
    EachPutIsSentOnce
    CompletionsInOrder
PROPERTIES
    ImplementsWritePipe
    EveryPutCompletes
CHECK_DEADLOCK FALSE
