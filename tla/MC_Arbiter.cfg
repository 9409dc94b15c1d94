\* One event in the arbiter at a time; addresses at both ends of the port
\* ranges (9, 10, 29) and one behind the directory port (30).
CONSTANTS
    Addrs = {9, 10, 29, 30}
    OtherAddrs = {30}
    PortMinAddr <- MCPortMinAddr
    PortMaxAddr <- MCPortMaxAddr
    MaxRequestsPerCycle <- MCMaxRequestsPerCycle
    MaxEvents = 4
    Serial = TRUE
SPECIFICATION Spec
INVARIANT TypeOK
INVARIANT ArbiterRuns
INVARIANT StartTimesTrackHeld
INVARIANT ResponseReturnsToRequester
INVARIANT MapsTrackOutstanding
PROPERTY ArbiterRefines
