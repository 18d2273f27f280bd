\* One chain timeout that outlasts the retries drops a prefetch task for
\* good: the datum is never cached by the workers (spec P6 says it is).
CONSTANTS
    w1 = w1
    w2 = w2
    c1 = c1
    c2 = c2
    Workers <- MCWorkers
    Consumers <- MCOneConsumer
    Kinds <- MCKinds
    CACHE_AHEAD = 1
    LITE_BLOCK_LOOKBACK = 1
    ArchiveConfigured = TRUE
    ThrowOnCacheMiss = TRUE
    InitBlock = 2
    MaxBlock = 3
    MaxTransientErrors = 1
    MaxReads = 1
    None = None
SPECIFICATION Spec
PROPERTY SubmittedBlocksCached
