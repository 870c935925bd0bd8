SPECIFICATION Spec
CONSTANTS
    Other = {"code"}
    MaxItems = 3
    MaxNesting = 3
INVARIANT EveryFootnoteReferred
CHECK_DEADLOCK FALSE
