\* A full pool of 10, callers that serialise their calls per schema, the
\* timer's sweeps and the evictions of other schemas' calls in between.
SPECIFICATION WarmFairSpec
CONSTANTS
    Schemas = {"hot1", "hot2", "hot3", "cold1", "cold2", "cold3", "cold4",
               "cold5", "cold6", "cold7", "cold8", "public"}
    Unvalidated = {"public"}
    Requested = {"hot1", "hot3"}
    Administered = {}
    Closable = FALSE
    Conns = {1, 2, 3, 4, 5, 6, 7, 8, 9, 10, 11, 12}
    Tasks = {t1, t2}
    MaxConnections = 10
    EnableCleanup = TRUE
    OrmType = "typeorm"
    Validator = "none"
    DestroyMayFail = TRUE
    PathMayFail = FALSE
    Overlap = FALSE
    Public = "public"
    Configs = {cfgA}
    DefaultConfig = dflt
    AllEntities = all
    NoConfig = noConfig
    Absent = absent
    NoAnswer = noAnswer
    NoSchema = noSchema
    NoConn = noConn
INVARIANTS NoOrphan
PROPERTIES EveryCallSettles
