SPECIFICATION Spec
CONSTANTS
    NB = 2
    Frames = {f1, f2}
    Cleared = Cleared
    Prios = {0, 1}
    Modes <- TimedMode
    MetaParity = FALSE
SYMMETRY FrameSymmetry
INVARIANT
    TransmitsWhatIsInTheBuffer
