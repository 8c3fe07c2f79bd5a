\* Multi-thread runtime: the watchdog's wake against Receiving::poll.
CONSTANTS
    Tasks = {t1}
    MaxId = 2
    MaxPayloads = 1
    Preemptive = TRUE
    MaxDrops = 0
SPECIFICATION Spec
PROPERTIES DisconnectDelivered
CHECK_DEADLOCK FALSE
