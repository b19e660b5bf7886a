SPECIFICATION Spec
CONSTANTS
    e1 = e1
    e2 = e2
    e3 = e3
    Capacity = 2
    Event <- ThreeEvents
    SyntaxError = syntax_error
    ReaderError = reader_error
    Nullopt = nullopt
INVARIANTS
    TypeOK
    OpenStaysOpen
    PeekedReferenceStaysValid
    AbortStopsParsing
PROPERTIES
    DestructorTerminates
    ImplementsPullStream
