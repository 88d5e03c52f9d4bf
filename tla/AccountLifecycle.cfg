SPECIFICATION Spec
CONSTANTS
  Worker = {w1, w2}
  Credential = {c1, c2, c3}
  MaxGeneration = 2
INVARIANTS
  TypeOK
  DeletedNeverUsed
  ConfirmationDurable
  SessionsOfGeneration
  InventoryValid
SYMMETRY Symmetry
