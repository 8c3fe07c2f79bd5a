\* A packet that does not decrypt reaches the reader.
CONSTANTS
    Data = {a, b}
    Size = 1
    MaxNonce = 4
    StrayNonces = {1, 3}
SPECIFICATION Spec
INVARIANTS NewestAccepted
CHECK_DEADLOCK FALSE
