\* Two lanes, three pages, one TLB entry, two walkers: every miss path
\* (coalesce, walk, blocked-by-TLB) is reachable, and two walks are in
\* flight at once and complete in either order relative to new arrivals.
CONSTANTS
    Addrs = {0, 4, 8}
    PageSize = 4
    CacheSize = 1
    NumWalkers = 2
    MaxPendingLoads = 2
    MaxPendingStores = 1
    DownCap = 2
    Pids = {1}
    MaxReqs = 4
SPECIFICATION Spec
INVARIANT TypeOK
INVARIANT WalkerAccounting
INVARIANT PendingAccounting
INVARIANT UpstreamHandshake
INVARIANT DownstreamHandshake
PROPERTY RequesterResumed
PROPERTY NoRequestLost
PROPERTY TlbRefines
