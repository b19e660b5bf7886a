SPECIFICATION Spec
CONSTANTS
    MaxPieces = 1
    MaxBreaks = 2
    MaxBytes = 2
    MaxRecodings = 1
    Patience = 4
    OutputBuffer = 2
    Languages = {"en", "ja"}
    Texts <- TextsOfPieces
    BreakTexts <- BreaksToSegment
    Bytes <- BytesToConvert
    PropertyMap <- NearbyEntries
PROPERTIES
    CallsReturn
CHECK_DEADLOCK FALSE
