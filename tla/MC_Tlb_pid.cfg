\* Two processes issue requests to one Tlb.
CONSTANTS
    Addrs = {0, 4}
    PageSize = 4
    CacheSize = 1
    NumWalkers = 1
    MaxPendingLoads = 2
    MaxPendingStores = 2
    DownCap = 1
    Pids = {1, 2}
    MaxReqs = 2
SPECIFICATION Spec
INVARIANT SingleAddressSpace
