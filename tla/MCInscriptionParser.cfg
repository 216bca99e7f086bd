SPECIFICATION Spec
CONSTANTS
    Transactions <- MCTransactions
\* The parser comes to an end.
CHECK_DEADLOCK FALSE
INVARIANTS
    OnlyEnvelopes
    NoneMissed
    NumberedInOrder
PROPERTIES
    Terminates
