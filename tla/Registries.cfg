SPECIFICATION Spec
CONSTANTS
    t1 = t1
    t2 = t2
    t3 = t3
    path1 = path1
    path2 = path2
    LockTasks = {t1, t2, t3}
    Paths = {path1, path2}
    NoLock = NoLock
    Visitors = {v1, v2}
    FileVersions = {0, 6, 11, 12, 14}
    NoStorage = NoStorage
    MaxRestarts = 1
    PluginNames = {calendar}
    Admins = {admin1, admin2}
    MaxInstances = 2
    NoPlugin = NoPlugin
    MaxLoads = 2
    Minute = 2
    Day = 2
    Tpms = {0, 20}
    Bursts = {3}
    Amounts = {9, 20}
    SpeakLimit = 2
    MaxTime = 3
    MaxReports = 2
    NoBucket = NoBucket
    NoBurst = NoBurst
    Links = {l1, l2}
    NoLink = NoLink
    Publishers = {pub1}
    Notices = {n1}
    Reached = {"agents", "dashboard"}
    Wishes = {"pipelines"}
    MaxQueue = 1
    MaxConnects = 1
    MaxFaults = 1
    MaxChanges = 2
    Callers = {c1, c2, c3}
    Nobody = Nobody
    TimedMotions = {m1, m2}
    Timers = {k1, k2, k3}
    NoTimer = NoTimer
INVARIANTS RegistryTypes TableTruthful TenantFilesSound PluginsOnce LimitsHold HubTruthful LostToRacesOnly OneDeadline
PROPERTIES PatientServed KeepsTrying
CHECK_DEADLOCK FALSE
