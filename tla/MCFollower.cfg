SPECIFICATION Spec
CONSTANTS
    Children = {"a", "b"}
    FIRST_INSCRIPTION_HEIGHT = 2
    MaxBlocks = 5
    MaxStops = 1
\* The node has no more blocks.
CHECK_DEADLOCK FALSE
INVARIANTS
    HeightsInOrder
PROPERTIES
    ReachesNodesTip
