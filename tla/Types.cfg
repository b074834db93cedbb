CONSTANTS
    TypeNames <- MCTypeNames
    Units <- MCUnits
    MaxBranches = 1
    MaxArgs = 1
SPECIFICATION Spec
INVARIANTS
    TypeOK
    ReturnTypesHold
    DeclarationsHold
    EmptyReturnsAreErrors
    UsesAgree
    InferredVarsAreKnown
    WellTypedIsAccepted
