SPECIFICATION Spec
CONSTANTS
    MaxPieces = 3
    MaxBreaks = 6
    MaxBytes = 5
    MaxRecodings = 3
    Patience = 4
    OutputBuffer = 2
    Languages = {"en", "ja"}
    Texts <- TextsOfPieces
    BreakTexts <- BreaksToSegment
    Bytes <- BytesToConvert
    PropertyMap <- NearbyEntries
INVARIANTS
    OffsetsCoverTheText
    TextSurvivesRecoding
    BreaksFollowTheStandard
    SplitsAsTheStandard
    ConvertedInOrder
CHECK_DEADLOCK FALSE
