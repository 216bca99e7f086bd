SPECIFICATION Spec
CONSTANTS
    MaxValue = 32767
    Inputs <- MCInputs
\* The integer was read, or it ends early or is too large.
CHECK_DEADLOCK FALSE
INVARIANTS
    Exact
    PanicsOnlyTooLarge
    InverseOfWrite
