\* The library as spec 4.5 and the tests describe it: the JobStartedReceipt
\* is written on executor ready, so a BUSY decline comes before it exists,
\* and a miner that never reports volumes ready ends with VOLUMES_TIMED_OUT,
\* the reason the blacklisting test expects.  Either way the handler raises
\* and the job gets no terminal update.
CONSTANTS
    Worlds <- MCSpecLibraryWorlds
    DisableTrustedEvents = TRUE
    MaxExcuses = 1
    MaxExpected = 1
SPECIFICATION Spec
PROPERTIES JobConcludes
