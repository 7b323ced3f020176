\* Two sessions, one slot, epochs 1..3.
CONSTANTS
    s1 = s1
    s2 = s2
    k1 = k1
    k2 = k2
    NoSlot = NoSlot
    Sessions <- MCSessions
    Slots <- MCSlotsOne
    MaxEpoch = 3
SYMMETRY SessionSymmetry
SPECIFICATION Spec
INVARIANTS
    MigrationCoversRouting
    QuiescentRoutingMatchesMigration
