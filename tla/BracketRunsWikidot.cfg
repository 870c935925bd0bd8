SPECIFICATION Spec
CONSTANTS
    Pages <- MCPages
    Legacy = TRUE
    Pieces <- SegPieces
    MaxPieces = 5
INVARIANT
    ParsingReadingTaken
CHECK_DEADLOCK FALSE
