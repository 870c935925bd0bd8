SPECIFICATION MCSpec
CONSTANTS
    LType = {bullet, numbered, generic}
    TopLType = generic
    MaxRows = 4
    MaxDepth = 3
    Other = {"code"}
    MaxItems = 3
    MaxNesting = 3
    Texts <- MCTexts
    Page <- MCPage
    NoPage <- MCNoPage
    Lines <- MCLines
    MaxLines = 3
    Classes = {"span", "size", "bold", "italics", "color", "anchor"}
    TagOf <- MCTagOf
    Queued = {"span", "size", "anchor"}
    MaxScopes = 3
    Streams <- MCStreams
    MaxMarkers = 7
INVARIANTS
    LayersMatchLevel
    RowsReadBack
    ListsBuilt
    TailsParallel
    RefsMatchFootnotes
    FootnotesPrintedOnce
    RangesApart
    PrefixUntouched
    IncludesExact
    OutputMatches
    PairsCapped
    NoneTwice
PROPERTIES
    Transactional
    Terminates
    Implements
CHECK_DEADLOCK FALSE
