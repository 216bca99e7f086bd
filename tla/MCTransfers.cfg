SPECIFICATION Spec
CONSTANTS
    Chains <- TransferChains
    Subsidy <- TransferSubsidy
    MaxVout = 9
\* The chain ends, or start() returned an error.
CHECK_DEADLOCK FALSE
INVARIANTS
    TypeOK
    OnePlaceEach
    NoUnderflow
    TransfersChain
    FollowsItsSat
    OnUnspentOutputs
    ValuesMatchLedger
