\* The id is used by one connect() after another: each starts when the
\* earlier handle has been dropped, its close task perhaps still running.
CONSTANTS
    Conns = {c1, c2}
    None = None
    Cancels = FALSE
    Overlap = FALSE
    BadPackets = FALSE
    Preemptive = FALSE
SPECIFICATION Spec
INVARIANTS NoOrphanWaiter LoopsMatchEntries
INVARIANTS HandleKeepsSession
PROPERTIES ReadyDelivered
CHECK_DEADLOCK FALSE
