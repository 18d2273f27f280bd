\* A consumer process that falls back to a lite node without an archive:
\* block 1 is pruned once the head reaches 3, fallback reads store what they
\* fetched.  One consumer thread making two reads: the fill does not depend
\* on the counters the consumers share.
CONSTANTS
    w1 = w1
    w2 = w2
    c1 = c1
    c2 = c2
    Workers <- MCWorkers
    Consumers <- MCOneConsumer
    Kinds <- MCKinds
    CACHE_AHEAD = 1
    LITE_BLOCK_LOOKBACK = 1
    ArchiveConfigured = FALSE
    ThrowOnCacheMiss = FALSE
    InitBlock = 2
    MaxBlock = 3
    MaxTransientErrors = 0
    MaxReads = 2
    None = None
SPECIFICATION Spec
INVARIANT ServedDataCached
INVARIANT ChainReadsReliable
