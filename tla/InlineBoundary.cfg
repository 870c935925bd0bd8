SPECIFICATION ScopesSpec
CONSTANTS
    Classes = {"span", "size", "bold", "italics", "color", "anchor"}
    TagOf <- MCTagOf
    Queued = {"span", "size", "anchor"}
    MaxScopes = 4
    Streams <- BoundaryStreams
    MaxMarkers = 3
INVARIANT
    BoundaryReopensStack
CHECK_DEADLOCK FALSE
