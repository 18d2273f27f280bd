\* handle with and without --daemon, the kill switch going off and on once,
\* and one await of a loop (miners(), aget_config, the transfer) raising.
\* run_once returns and the command exits, so a run may stop.
CONSTANTS
    InitPage = 3
    CUTOFF_PAGES = 2
    N_ACTIVE_PAGES = 2
    MaxPage = 5
    MaxToggles = 2
    MaxErrors = 1
SPECIFICATION Spec
INVARIANT TypeOK
INVARIANT NoPageLeftBehind
PROPERTY PagesEventuallyComplete
CHECK_DEADLOCK FALSE
