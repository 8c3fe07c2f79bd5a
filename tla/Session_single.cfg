\* Current-thread runtime, two tasks receiving on clones of one session, receives
\* that are dropped while they wait.
CONSTANTS
    Tasks = {t1, t2}
    MaxId = 3
    MaxPayloads = 3
    Preemptive = FALSE
    MaxDrops = 1
SPECIFICATION Spec
INVARIANTS TypeOK NoStrandedMessage SleeperRegistered NoticedInTime
PROPERTIES NoFalseDeath DisconnectDelivered SessionEnds
CHECK_DEADLOCK FALSE
