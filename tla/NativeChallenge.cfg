SPECIFICATION Spec
CONSTANTS
  Challenge = {c1, c2}
  Account = {a1, a2}
  Exchange = {e1, e2}
  Lifetime = 2
  MaxTime = 3
  MaxEpoch = 2
INVARIANTS
  TypeOK
  OneReceipt
  UsedOnceUnlessDeleted
  SpentMeansUsed
  UnusedStaysIssued
SYMMETRY Symmetry
