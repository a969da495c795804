SPECIFICATION Spec
CONSTANTS
    e1 = e1
    e2 = e2
    Endpoint = {e1, e2}
    LocalPort = {1, 2}
    MaxLinks = 1
INVARIANTS
    UplinkServes
CHECK_DEADLOCK FALSE
