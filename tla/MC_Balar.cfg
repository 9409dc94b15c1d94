\* One CPU core making three CUDA calls (memcpy or not) with awaited writes;
\* two GPU cores with room for two cache transactions each, four requests.
CONSTANTS
    c1 = c1
    CpuCores = {c1}
    GpuCores = {0, 1}
    MaxCalls = 3
    MaxPendingCacheTrans = 2
    MaxCacheReqs = 4
    Posted = FALSE
SPECIFICATION Spec
INVARIANT TypeOK
INVARIANT ComponentRuns
INVARIANT CallsAnswered
INVARIANT PendingMatchesCache
PROPERTY EveryCallReturns
