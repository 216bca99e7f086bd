SPECIFICATION OrdiFairSpec
CONSTANTS
    NodeChains <- OneShortChain
    Chains <- OneShortReceived
    RpcHash <- OtherId
    Subsidy <- ShortSubsidy
    MaxVout = 9
    MaxStops = 1
\* The node has no more blocks.
CHECK_DEADLOCK FALSE
PROPERTIES
    ReachesTip
