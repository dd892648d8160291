\* Serialised calls and a shutdown that fails half-way: nothing leaks.
SPECIFICATION FairSpec
CONSTANTS
    Schemas = {"public", "a", "b"}
    Unvalidated = {"public"}
    Requested = {"a", "b"}
    Administered = {}
    Closable = TRUE
    Conns = {1, 2, 3}
    Tasks = {t1, t2}
    MaxConnections = 2
    EnableCleanup = FALSE
    OrmType = "typeorm"
    Validator = "none"
    DestroyMayFail = TRUE
    PathMayFail = FALSE
    Overlap = FALSE
    Public = "public"
    Configs = {cfgA}
    DefaultConfig = dflt
    AllEntities = all
    NoConfig = noConfig
    Absent = absent
    NoAnswer = noAnswer
    NoSchema = noSchema
    NoConn = noConn
INVARIANTS NoOrphan
PROPERTIES EveryCallSettles
