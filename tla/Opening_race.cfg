\* Payloads race the first keepalive, on either kind of network.
CONSTANTS
    MaxNonce = 5
SPECIFICATION Spec
INVARIANTS TypeOK OnlyEarlyPayloadsLost
PROPERTIES ResponderPromoted ImplementsChannel
CHECK_DEADLOCK FALSE
