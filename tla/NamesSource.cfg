SPECIFICATION Spec
CONSTANTS
    Idents <- MCIdents
    Units <- MCUnits
    MaxStmts = 2
    MaxErrors = 1
    MaxBranches = 1
PROPERTY
    OnlyValuedFnsNeedValues
