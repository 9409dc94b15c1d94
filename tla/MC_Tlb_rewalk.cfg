\* Three pages, three TLB entries, one walker: a miss left in m_blockedByTLB
\* while its page is walked is re-admitted after that page is cached.
CONSTANTS
    Addrs = {0, 4, 8}
    PageSize = 4
    CacheSize = 3
    NumWalkers = 1
    MaxPendingLoads = 5
    MaxPendingStores = 5
    DownCap = 2
    Pids = {1}
    MaxReqs = 5
SPECIFICATION Spec
INVARIANT NoWalkForCachedPage
