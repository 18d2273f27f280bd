\* One Zip upload of a directory holding MAX_NUMBER_OF_FILES files in a
\* subdirectory: zipped_directory counts the subdirectory as an entry of
\* directory.glob("**/*"), reaches MAX_NUMBER_OF_FILES + 1 and refuses a
\* directory whose file count is within the limit.  The MultiUpload beside
\* it excludes its single file and stays within the limit.
CONSTANTS
    z1 = z1
    z2 = z2
    m1 = m1
    ZipCallers <- MCOneZipCaller
    MultiCallers <- MCMultiCallers
    NFiles = 1
    MultiHasSystem = TRUE
    MAX_CONCURRENT_UPLOADS = 1
    MAX_RETRIES = 3
    MAX_NUMBER_OF_FILES = 2
    DirFiles = 2
    DirSubdirs = 1
SPECIFICATION Spec
INVARIANT ZipFileLimit
