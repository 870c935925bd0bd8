SPECIFICATION Spec
CONSTANTS
    Token = {"ruby", "rt", "quote", "/quote", "/rt"}
    Rule <- MCRule
    Page = "page"
    RulesOf <- MCRulesOf
    Shape <- MCShape
    Gathered <- MCGathered
    Closer <- MCCloser
    Breaks = {}
    MaxTokens = 5
    MaxDepth = 6
    MinTokens = 2
INVARIANT
    BlockFailuresDeterministic
CHECK_DEADLOCK FALSE
