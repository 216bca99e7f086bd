SPECIFICATION Spec
CONSTANTS
    Blocks <- MCBlocks
    Cuts <- MCCuts
\* The reader is done, or the file ended.
CHECK_DEADLOCK FALSE
INVARIANTS
    KeepsItsPlace
    DiskTxids
    WholeBlocks
    RootsVerify
    WaysAgree
