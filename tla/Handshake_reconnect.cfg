\* Peers connect again at any time, packets may be arbitrarily old.
CONSTANTS
    MaxConnects = 3
SPECIFICATION Spec
INVARIANTS TypeOK KeyAgreement ResponderConfirmed
PROPERTIES ConnectCompletes
CHECK_DEADLOCK FALSE
