\* The switch goes off and on again while a gathered loop is
\* still running on the session its run_in_loop has closed.
CONSTANTS
    InitPage = 3
    CUTOFF_PAGES = 2
    N_ACTIVE_PAGES = 2
    MaxPage = 4
    MaxToggles = 2
    MaxErrors = 0
SPECIFICATION Spec
PROPERTY TransfersOnOpenSession
\* run_once returns and the command exits, so a run may stop.
CHECK_DEADLOCK FALSE
