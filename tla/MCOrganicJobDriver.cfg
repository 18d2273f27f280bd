\* One organic job, in two worlds of the library.  In one the receipt exists
\* before the miner answers and a late VolumesReady ends with
\* STREAMING_JOB_READY_TIMED_OUT.  In the other, as spec 4.5 and the tests
\* describe it, the receipt is written on executor ready, a late report
\* raises VOLUMES_TIMED_OUT, and the database and channel awaits may raise
\* midway through a branch: the handler may then fail outright (see
\* MCOrganicJobDriverSpecLibrary), but what it did send must still be well
\* formed, refine the status stream and be backed by the row.
CONSTANTS
    Worlds <- MCWorlds
    DisableTrustedEvents = TRUE
    MaxExcuses = 2
    MaxExpected = 2
SPECIFICATION Spec
INVARIANTS TypeOK OutcomeMatchesUpdate UpdateBackedByRow
PROPERTIES StatusStreamRefinement
