SPECIFICATION Spec
CONSTANTS
    Token = {"quote", "/quote", "note", "/note", "dash"}
    Rule <- MCRule
    Page = "page"
    RulesOf <- MCRulesOf
    Shape <- MCShape
    Gathered <- MCGathered
    Closer <- MCCloser
    Breaks = {}
    MaxTokens = 5
    MinTokens = 2
    DefaultDepth = 2
    DeepDepth = 4
INVARIANTS
    LimitsInvisible
    DepthReported
    FootnotesServed
PROPERTY Terminates
CHECK_DEADLOCK FALSE
