\* Three pages, one walker, one TLB entry, room for five requests: enough
\* for a miss to wait in m_blockedByTLB behind a miss on another page while
\* its own page is being walked.
CONSTANTS
    Addrs = {0, 4, 8}
    PageSize = 4
    CacheSize = 1
    NumWalkers = 1
    MaxPendingLoads = 5
    MaxPendingStores = 5
    DownCap = 2
    Pids = {1}
    MaxReqs = 5
SPECIFICATION Spec
INVARIANT MissReplayFifo
