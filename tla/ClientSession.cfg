SPECIFICATION Spec
CONSTANTS
  Tab = {t1, t2}
  Account = {a1, a2}
  None = None
  MaxSignIns = 2
  MaxFaults = 1
INVARIANTS
  TypeOK
  SignOutHolds
  RefusedDeletionHolds
PROPERTIES
  OtherAccountKept
SYMMETRY Symmetry
CHECK_DEADLOCK FALSE
