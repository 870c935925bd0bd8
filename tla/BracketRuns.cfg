SPECIFICATION Spec
CONSTANTS
    Pages <- MCPages
    Legacy = FALSE
    Pieces <- MCPieces
    MaxPieces = 4
INVARIANTS
    TokensTile
    HeadGateExact
    MemoryRefusesNoMore
    ParsingReadingTaken
CHECK_DEADLOCK FALSE
