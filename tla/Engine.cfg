SPECIFICATION MCSpec
CONSTANTS
    Token = {"bold", "dash", "para", "ruby", "rt", "/ruby", "/rt", "quote", "/quote", "note", "/note"}
    Rule <- MCRule
    Page = "page"
    RulesOf <- MCRulesOf
    Shape <- MCShape
    Gathered <- MCGathered
    Closer <- MCCloser
    Breaks = {"para"}
    MaxTokens = 6
    MaxDepth = 4
    MinTokens = 2
INVARIANTS
    PageMatches
    FailuresSound
    SuccessesSound
    WalksSound
PROPERTY Terminates
CHECK_DEADLOCK FALSE
