CONSTANTS
    MaxFaults <- MCMaxFaults
SPECIFICATION Spec
INVARIANTS
    DoneMeansCommitted
PROPERTIES
    CommitEventuallyDone
CHECK_DEADLOCK FALSE
