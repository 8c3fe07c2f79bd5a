\* A window of 2, so that reordering is accepted, and packets of an earlier
\* session of the same id.
CONSTANTS
    Data = {a, b}
    Size = 2
    MaxNonce = 4
    StrayNonces = {1, 3}
SPECIFICATION Spec
INVARIANTS TypeOK NoReplay WithinWindow
PROPERTIES RejectedForever ImplementsChannel
CHECK_DEADLOCK FALSE
