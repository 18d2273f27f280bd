\* Prefetching in the producer process with an archive node and no chain
\* errors, two consumer threads each making one read of any block: however
\* their unlocked set_starting_block steps interleave with the producer, it
\* enqueues no block past the window, every queued task reaches the cache,
\* and close() stops all.
CONSTANTS
    w1 = w1
    w2 = w2
    c1 = c1
    c2 = c2
    Workers <- MCWorkers
    Consumers <- MCConsumers
    Kinds <- MCOneKind
    CACHE_AHEAD = 1
    LITE_BLOCK_LOOKBACK = 1
    ArchiveConfigured = TRUE
    ThrowOnCacheMiss = TRUE
    InitBlock = 2
    MaxBlock = 3
    MaxTransientErrors = 0
    MaxReads = 1
    None = None
SPECIFICATION Spec
INVARIANT TypeOK
INVARIANT EnqueuedWithinWindow
INVARIANT ChainReadsReliable
PROPERTY SubmittedBlocksCached
PROPERTY ShutdownCompletes
