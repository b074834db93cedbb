SPECIFICATION Spec
CONSTANT
    Sources <- MCSources
PROPERTY
    ReturnsAreParsed
