SPECIFICATION Spec
CONSTANTS
  Device = {"d1", "d2"}
  Slot = {s1, s2}
  RequestId = {r1}
  MaxSafeRevision = 3
  MaxNow = 1
  Operation <- MCOperation
  Batch <- MCBatch
  Submission <- MCSubmission
  Proposal <- MCProposal
  Reduce <- MCReduce
  NoProjection <- MCNoProjection
INVARIANTS
  TypeOK
  IdentitiesUnique
  RevisionNamesSnapshot
  AcknowledgementsTruthful
  ResolutionReplayed
  ProjectionOfLog
PROPERTIES
  NothingUnseenReplaced
  ImplementsLog
SYMMETRY Symmetry
