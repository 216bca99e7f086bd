SPECIFICATION Spec
CONSTANTS
    Chains <- ReinscriptionChains
    Subsidy <- ReinscriptionSubsidy
    MaxVout = 9
\* The chain ends, or start() returned an error.
CHECK_DEADLOCK FALSE
INVARIANTS
    NumbersDense
    CursedMarked
    CountersTrailStores
    OneBlessedPerSat
PROPERTIES
    NumbersStay
    ImplementsRegistry
