\* The daemon with the kill switch on throughout: one await of a loop
\* iteration (the miners() query, aget_config or the transfer) raises
\* something other than TransferIsDisabled, and handle, which catches only
\* TransferIsDisabled, lets it end the command.
CONSTANTS
    InitPage = 3
    CUTOFF_PAGES = 2
    N_ACTIVE_PAGES = 2
    MaxPage = 4
    MaxToggles = 0
    MaxErrors = 1
SPECIFICATION Spec
PROPERTY DaemonRunsOn
\* run_once returns and the command exits, so a run may stop.
CHECK_DEADLOCK FALSE
