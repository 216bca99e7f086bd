SPECIFICATION Spec
CONSTANTS
    Scripts <- MCScripts
    VersionIds = {0, 48, 111}
\* An evaluation comes to an end.
CHECK_DEADLOCK FALSE
INVARIANTS
    LoadsAllData
