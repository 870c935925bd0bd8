SPECIFICATION ParagraphSpec
CONSTANTS
    Inputs = {{"text", "foot", "break", "paragraph", "batch"}}
    MostInputs = 4
    ReopenedBatch = TRUE
INVARIANT
    EveryElementKept
CHECK_DEADLOCK FALSE
