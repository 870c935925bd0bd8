SPECIFICATION ScopesSpec
CONSTANTS
    Classes = {"span", "size", "bold", "italics", "color", "anchor"}
    TagOf <- MCTagOf
    Queued = {"span", "size", "anchor"}
    MaxScopes = 3
    Streams <- MCStreams
    MaxMarkers = 6
INVARIANT
    ClosersConsumed
CHECK_DEADLOCK FALSE
