SPECIFICATION Spec
CONSTANTS
    TaskId = {t1, t2, t3}
    NoTask = NoTask
    MaxSize = 3
    MaxPlaced = 5
CONSTRAINT Bounded
SYMMETRY Symmetry
INVARIANTS
    EntriesAccounted
    SlotAccounted
    FifoUnlessRequeued
PROPERTIES
    CancelIsFinal
