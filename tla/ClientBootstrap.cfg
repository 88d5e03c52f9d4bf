\* Two tabs, two accounts, one operation, and two faults or changes of the account.
SPECIFICATION Spec
CONSTANTS
    Tab = {t1, t2}
    Op = {o1}
    Account = {a1, a2}
    None = None
    MaxRequests = 2
    MaxSwitches = 2
    MaxMishaps = 2
    MaxFaults = 2
INVARIANTS
    TypeOK
PROPERTIES
    NoAutomaticCrossing
    NothingDiscardedUnasked
    SentRequestKept
    SnapshotNeverOlder
SYMMETRY Symmetry
CHECK_DEADLOCK FALSE
