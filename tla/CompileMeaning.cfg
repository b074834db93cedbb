CONSTANTS
    Units <- MCUnits
    MaxBranches = 1
SPECIFICATION Spec
INVARIANT IfsOrNegationsAreRight
