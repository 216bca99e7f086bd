SPECIFICATION OrdiSpec
CONSTANTS
    NodeChains <- RestartChains
    Chains <- RestartReceived
    RpcHash <- OtherId
    Subsidy <- RestartSubsidy
    MaxVout = 9
    MaxStops = 1
\* The node has no more blocks, or the bound on errors and crashes is reached.
CHECK_DEADLOCK FALSE
INVARIANTS
    LoopsMeet
    ValuesRight
    PlacesRecover
    ValuesRecover
    CurseStable
