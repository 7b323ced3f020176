\* Two sessions, one slot, epochs 1..2: a data command already past the
\* migration overlay meets a SETDB that marks its slot Importing.
CONSTANTS
    s1 = s1
    s2 = s2
    k1 = k1
    k2 = k2
    NoSlot = NoSlot
    Sessions <- MCSessions
    Slots <- MCSlotsOne
    MaxEpoch = 2
SYMMETRY SessionSymmetry
SPECIFICATION Spec
PROPERTY
    ImportingNeverServedDirectly
