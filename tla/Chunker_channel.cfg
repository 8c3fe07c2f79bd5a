\* One task sends, one or two receive; the delegate loses chunks or it does
\* not, and calls are dropped unfinished.
CONSTANTS
    Senders = {s1}
    MaxReceivers = 2
    Lengths = {0, 1, 2}
    MaxSends = 3
    MaxGroups = 2
    MaxDrops = 1
SPECIFICATION Spec
INVARIANTS TypeOK InOrder NoPanic GroupsBounded LossesBounded
PROPERTIES ImplementsChannel
CHECK_DEADLOCK FALSE
