\* Connects with the same id at once, dropped connects, packets that do not
\* decrypt, multi-thread runtime.
CONSTANTS
    Conns = {c1, c2}
    None = None
    Cancels = TRUE
    Overlap = TRUE
    BadPackets = TRUE
    Preemptive = TRUE
SPECIFICATION Spec
INVARIANTS TypeOK OneHome DroppedHandleReleased EstablishedOwned
PROPERTIES SessionSpared
SYMMETRY ConnSymmetry
CHECK_DEADLOCK FALSE
