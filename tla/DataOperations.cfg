\* Two scripts run beside the application, any command fails, one script is killed or compose goes wrong once.
SPECIFICATION FairSpec
CONSTANTS
    Production = TRUE
    MaxWrites = 1
    MaxBackups = 3
    MaxImages = 2
    MaxMishaps = 1
    MaxStarts = 2
    None = None
INVARIANTS
    LossIsBounded
    SourcesKept
PROPERTIES
    BackupFirst
    ServicesReturn
CHECK_DEADLOCK FALSE
