SPECIFICATION Spec
CONSTANTS
    NB = 2
    Frames = {f1, f2}
    Cleared = Cleared
    Prios = {0, 1}
    Modes <- CheckedModes
    MetaParity = FALSE
SYMMETRY FrameSymmetry
INVARIANTS
    LockIsTaken
    OneTransmission
    ValidatedIsSelected
    ValidatedInTime
PROPERTY
    FinishInterrupts
