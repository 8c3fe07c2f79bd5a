\* Two clones send at once, one task receives.
CONSTANTS
    Senders = {s1, s2}
    MaxReceivers = 1
    Lengths = {2}
    MaxSends = 2
    MaxGroups = 2
    MaxDrops = 0
SPECIFICATION Spec
INVARIANTS Intact
CHECK_DEADLOCK FALSE
