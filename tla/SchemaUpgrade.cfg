SPECIFICATION TenantSpec
CONSTANTS
    Visitors = {v1}
    FileVersions = {11}
    NoStorage = NoStorage
    MaxRestarts = 0
INVARIANTS UpgradeWorks
CHECK_DEADLOCK FALSE
