SPECIFICATION Spec
CONSTANTS
    Corpora <- TwoWidths
    Batch = 1
    Children = {1, 2}
    KMax = 2
INVARIANTS
    NoRepeat
CHECK_DEADLOCK FALSE
