\* Two addresses on two DRAMSim channels, one transaction per channel queue,
\* four requests: the front of m_transQ is refused while a later one
\* would be accepted.
CONSTANTS
    Addrs = {0, 1}
    Channel <- MCChannel
    MemCap = 1
    MaxReqs = 4
SPECIFICATION Spec
INVARIANT TypeOK
INVARIANT NoTransactionLost
INVARIANT InOrderAdmission
PROPERTY DRAMSimCRefines
