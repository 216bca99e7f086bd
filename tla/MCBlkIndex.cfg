SPECIFICATION Spec
CONSTANTS
    Databases <- MCDatabases
    BlkFiles <- MCBlkFiles
    FIRST_INSCRIPTION_HEIGHT = 2
    MaxWalks = 3
    MaxFaults = 1
\* The client walks no more, or the program panicked.
CHECK_DEADLOCK FALSE
INVARIANTS
    IndexRight
    DeliversTheChain
    FilesCloseInTime
