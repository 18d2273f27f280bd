\* The code's MAX_CONCURRENT_UPLOADS = 3 and one MultiUpload of three files
\* and the system output, next to one Zip upload.
CONSTANTS
    z1 = z1
    z2 = z2
    m1 = m1
    ZipCallers <- MCOneZipCaller
    MultiCallers <- MCMultiCallers
    NFiles = 3
    MultiHasSystem = TRUE
    MAX_CONCURRENT_UPLOADS = 3
    MAX_RETRIES = 3
    MAX_NUMBER_OF_FILES = 4
    DirFiles = 4
    DirSubdirs = 0
SPECIFICATION Spec
INVARIANTS UploadConcurrencyBounded
