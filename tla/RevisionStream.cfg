\* Two streams at once, two generations, the first of which changes.
SPECIFICATION Spec
CONSTANTS
  Stream = {t1, t2}
  Session = {u1}
  MaxGeneration = 2
  Changing = {1}
  MaxRevision = 2
  MaxPending = 1
  StreamLimit = 2
INVARIANTS
  TypeOK
  HintUnderway
  ListedOpen
  LimiterExact
PROPERTIES
  StreamsCatchUp
  ConfirmedDeletionEndsStreams
