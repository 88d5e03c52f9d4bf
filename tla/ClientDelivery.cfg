\* One edit and one fault: does it reach the server?
SPECIFICATION Spec
CONSTANTS
    Tab = {t1, t2}
    Op = {o1}
    Account = {a1}
    Me = a1
    None = None
    BatchLimit = 1
    MaxRevision = 0
    MaxClaims = 5
    MaxFaults = 1
PROPERTIES
    EditsDelivered
    TabsUnblock
CHECK_DEADLOCK FALSE
