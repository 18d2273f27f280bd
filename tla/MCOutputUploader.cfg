\* Two Zip uploads and one MultiUpload (one file and the system output)
\* competing for a single permit, each upload retried up to three times.
CONSTANTS
    z1 = z1
    z2 = z2
    m1 = m1
    ZipCallers <- MCZipCallers
    MultiCallers <- MCMultiCallers
    NFiles = 1
    MultiHasSystem = TRUE
    MAX_CONCURRENT_UPLOADS = 1
    MAX_RETRIES = 3
    MAX_NUMBER_OF_FILES = 2
    DirFiles = 2
    DirSubdirs = 0
SPECIFICATION Spec
INVARIANTS TypeOK SuccessMeansAllReceived
PROPERTIES EveryUploadReturns
