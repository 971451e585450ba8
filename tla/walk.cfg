\* Every body of a few components.
CONSTANTS
    MaxShort = 4
    MaxLong = 7
    Bodies <- MCBodies
    Chars = 3
    Bytes = 5
    Offsets <- MCOffsets
SPECIFICATION Spec
CHECK_DEADLOCK FALSE
INVARIANTS
    TypeOK
    PanicsOnlyIncomplete
    RunsFound
    RunsTile
    EffectsOrdered
PROPERTIES
    Advances
