\* Of two overlapping calls for one schema the later replaces the connection
\* the earlier one pooled.
SPECIFICATION Spec
CONSTANTS
    Schemas = {"public", "a", "b"}
    Unvalidated = {"public"}
    Requested = {"public", "a"}
    Administered = {"a"}
    Closable = FALSE
    Conns = {1, 2}
    Tasks = {t1, t2}
    MaxConnections = 1
    EnableCleanup = FALSE
    OrmType = "typeorm"
    Validator = "local"
    DestroyMayFail = TRUE
    PathMayFail = FALSE
    Overlap = TRUE
    Public = "public"
    Configs = {cfgA}
    DefaultConfig = dflt
    AllEntities = all
    NoConfig = noConfig
    Absent = absent
    NoAnswer = noAnswer
    NoSchema = noSchema
    NoConn = noConn
SYMMETRY TaskSymmetry
PROPERTIES ReusesPooled
