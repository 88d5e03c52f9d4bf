\* One tab, one account, and one change from another device.
SPECIFICATION FairSpec
CONSTANTS
    Tab = {t1}
    Op = {o1}
    Account = {a1}
    None = None
    MaxRequests = 3
    MaxSwitches = 0
    MaxMishaps = 1
    MaxFaults = 1
PROPERTY ConflictSettles
CHECK_DEADLOCK FALSE
