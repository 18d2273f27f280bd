\* Two consumer threads run set_starting_block unlocked: one's stale max()
\* write lowers highest_block_requested below a block the other asked for,
\* and the producer never prefetches the block CACHE_AHEAD beyond it.
CONSTANTS
    w1 = w1
    w2 = w2
    c1 = c1
    c2 = c2
    Workers <- MCWorkers
    Consumers <- MCConsumers
    Kinds <- MCOneKind
    CACHE_AHEAD = 1
    LITE_BLOCK_LOOKBACK = 1
    ArchiveConfigured = TRUE
    ThrowOnCacheMiss = TRUE
    InitBlock = 2
    MaxBlock = 3
    MaxTransientErrors = 0
    MaxReads = 1
    None = None
SPECIFICATION Spec
PROPERTY PrefetchesAhead
