CONSTANTS
    NodeCount = 3
    FounderCount = 2
    Attempt = {a1, a2}
    MaxCA = 3
    MaxTokens = 2
    MaxCommands = 2
    MaxFaults = 1
SPECIFICATION Spec
INVARIANTS TypeOK  TokenAdmitsOne FounderIDsAreFresh
PROPERTY NarrowLeavesNoneBehind
CHECK_DEADLOCK FALSE
