\* Two tabs, two edits, one fault of any kind.
SPECIFICATION Spec
CONSTANTS
    Tab = {t1, t2}
    Op = {o1, o2}
    Account = {a1}
    Me = a1
    None = None
    BatchLimit = 1
    MaxRevision = 1
    MaxClaims = 5
    MaxFaults = 1
INVARIANTS
    TypeOK
    EditsAccounted
    ProofSound
    AnswerNotOlder
PROPERTIES
    ClaimReleasedByAnswer
SYMMETRY Symmetry
CHECK_DEADLOCK FALSE
