\* One stream at a time, one generation.
SPECIFICATION Spec
CONSTANTS
  Stream = {t1, t2}
  Session = {u1}
  MaxGeneration = 1
  Changing = {1}
  MaxRevision = 2
  MaxPending = 2
  StreamLimit = 1
PROPERTY
  AccessEndsStreams
