\* Option 5 with write_percentage 30.

CONSTANTS
    KB = 4
    MaxAddr = 3
    AvoidMin <- MCAvoidMin
    AvoidMax <- MCAvoidMax
    IssueCount = 1
    WritePercentage = 30
    IssueOpFences = TRUE
    Options = {5}
SPECIFICATION Spec
INVARIANT WriteShare
