SPECIFICATION Spec
CONSTANTS
    p1 = p1
    Peers = {p1}
    Identities = {"k1"}
    Exports <- MCExports
    MaxTime = 2
    Overlap = FALSE
INVARIANTS
    TypeOK
    FileWhole
PROPERTIES
    PolicyKept
    BlockSurvives
