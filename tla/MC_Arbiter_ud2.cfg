\* Endpoints send whenever they like: two events reach the arbiter between
\* two clock edges.
CONSTANTS
    Addrs = {9, 10, 29, 30}
    OtherAddrs = {30}
    PortMinAddr <- MCPortMinAddr
    PortMaxAddr <- MCPortMaxAddr
    MaxRequestsPerCycle <- MCMaxRequestsPerCycle
    MaxEvents = 2
    Serial = FALSE
SPECIFICATION Spec
INVARIANT NoIllegalInstruction
