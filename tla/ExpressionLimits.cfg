SPECIFICATION MCSpec
CONSTANTS
    Delims = {"bold"}
    Names = {"div"}
    Needle = {"bracket", "line"}
    Stops <- MCStops
    Token <- MCToken
    KindOf <- MCKindOf
    NameOf <- MCNameOf
    LabelFlags <- MCLabelFlags
    Unit = {"[[", "/", "code", "]]", "sp", "nl", "x"}
    Colors <- MCColors
    MaxColorHead = 3
    References = {"$a", "$b"}
    ReferenceName <- MCReferenceName
    Spaces = {" "}
    Allowance = 4
    Inputs <- MCInputs
    MostInputs = 5
    ReopenedBatch = FALSE
    CiteLabels = {"a", "b"}
    MaxOperations = 2
    MaxParentheses = 2
INVARIANT
    LimitsStayLiteral
CHECK_DEADLOCK FALSE
