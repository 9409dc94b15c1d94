\* KB scaled to 4, max_address 3 with [1, 2) avoided: 12 draws of which 4 are
\* rejected; every option, three calls, fences on.
CONSTANTS
    KB = 4
    MaxAddr = 3
    AvoidMin <- MCAvoidMin
    AvoidMax <- MCAvoidMax
    IssueCount = 3
    WritePercentage = 50
    IssueOpFences = TRUE
    Options = {1, 2, 3, 4, 5}
SPECIFICATION Spec
INVARIANT TypeOK
INVARIANT AddressesAllowed
INVARIANT DependenciesPointBack
PROPERTY EventuallyFinished
