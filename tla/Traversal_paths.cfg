\* Every pairing of sockets, places and NATs; each peer connects once.
CONSTANTS
    Networks <- MCNetworks
SPECIFICATION Spec
INVARIANTS TypeOK RemoteAddrRoutes SessionNeedsPath
PROPERTIES ReachableConnects ImplementsHandshake
CHECK_DEADLOCK FALSE
