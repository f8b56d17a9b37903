SPECIFICATION Spec
CONSTANTS
    a1 = a1
    a2 = a2
    i1 = i1
    i2 = i2
    r1 = r1
    r2 = r2
    p = p
    q = q
    t1 = t1
    t2 = t2
    None = None
    Artists = {a1, a2}
    Ids = {i1}
    Releases = {r1, r2}
    Catalog <- MCCatalog
    Providers = {p, q}
    Enabled = {p}
    Imported = {a1}
    Tasks = {t1, t2}
    MaxSyncs = 1
    MaxEvents = 2
INVARIANTS TypeOK SchedulerBounded StatusTruthful
PROPERTIES DownloadsKept CountersRepaired DueIsSynced
CHECK_DEADLOCK FALSE
