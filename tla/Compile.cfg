CONSTANTS
    Units <- MCUnits
    MaxBranches = 2
SPECIFICATION Spec
INVARIANTS
    TypeOK
    FailuresHaveACause
    ValuesAreOfTheirPart
    CodeMeansTree
PROPERTY
    EndedBlocksStay
