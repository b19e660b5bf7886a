SPECIFICATION Spec
CONSTANTS
    Character = {"a", "#", "single", "double", "lf", "cr"}
    Quote = {"single", "double"}
    LineFeed = "lf"
    CarriageReturn = "cr"
    Mark <- HashMark
    BufferCapacity = 2
    MaxLength = 5
    Texts <- EditedTexts
INVARIANTS
    CommentsAreRemoved
    LocationIsAfterTheLine
