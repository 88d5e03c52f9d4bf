\* Two tabs, two accounts, three changes of the account and one expired lease.
SPECIFICATION Spec
CONSTANTS
    Tab = {t1, t2}
    Op = {o1}
    Account = {a1, a2}
    None = None
    MaxRequests = 2
    MaxSwitches = 3
    MaxMishaps = 4
    MaxFaults = 1
PROPERTY SwitchConfirmed
SYMMETRY Symmetry
CHECK_DEADLOCK FALSE
