\* More walkers than TLB entries (numWalkers > tlbSize).
CONSTANTS
    Addrs = {0, 4, 8}
    PageSize = 4
    CacheSize = 1
    NumWalkers = 2
    MaxPendingLoads = 2
    MaxPendingStores = 2
    DownCap = 1
    Pids = {1}
    MaxReqs = 3
SPECIFICATION Spec
INVARIANT CacheWithinCapacity
