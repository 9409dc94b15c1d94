\* Two CPU cores each making one CUDA call through the one MMIO region.
CONSTANTS
    c1 = c1
    c2 = c2
    CpuCores = {c1, c2}
    GpuCores = {0}
    MaxCalls = 1
    MaxPendingCacheTrans = 1
    MaxCacheReqs = 0
    Posted = FALSE
SPECIFICATION Spec
INVARIANT CallsAnswered
