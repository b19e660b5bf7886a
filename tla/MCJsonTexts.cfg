SPECIFICATION Spec
CONSTANTS
    Alphabets <- SpeltAndNot
    MaxLength = 9
    AllLength = 5
    Starts <- Beginnings
    Limits <- HandlerLimits
CHECK_DEADLOCK FALSE
INVARIANTS
    AcceptsExactlyJson
    EventsAreNested
    RefusalIsFinal
