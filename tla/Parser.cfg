SPECIFICATION FairSpec
CONSTANT
    Sources <- MCSources
INVARIANTS
    TypeOK
    IndentationAccounted
    BlocksEndAtTheirEnd
    AcceptedIsRead
    OperatorsBind
    OperandsHaveValue
PROPERTIES
    EventuallyParsed
