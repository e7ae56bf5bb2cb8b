SPECIFICATION Spec
CONSTANTS
    c1 = c1
    c2 = c2
    c3 = c3
    w1 = w1
    w2 = w2
    Workers <- TwoWorkers
    Chunks <- ThreeChunks
    MaxSize = 2
    MaxMissed = 1
    Width = 32
    Events = {"crash", "power_loss", "io_error", "timeout"}
SYMMETRY Symmetry
INVARIANTS
    SizeCoversDisk
PROPERTIES
    OvershootBounded
CHECK_DEADLOCK FALSE
