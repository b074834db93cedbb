CONSTANTS
    TypeNames <- MCTypeNames
    Units <- MCUnits
    MaxBranches = 1
    MaxArgs = 1
SPECIFICATION Spec
INVARIANT CallsGiveTypes
