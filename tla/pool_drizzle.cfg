\* Overlapping calls, removals and shutdowns with Drizzle and the remote strategy,
\* whose errors read as "no such tenant".
SPECIFICATION Spec
CONSTANTS
    Schemas = {"public", "a", "b"}
    Unvalidated = {"public"}
    Requested = {"public", "a"}
    Administered = {"a"}
    Closable = TRUE
    Conns = {1, 2, 3}
    Tasks = {t1, t2}
    MaxConnections = 1
    EnableCleanup = FALSE
    OrmType = "drizzle"
    Validator = "remote"
    DestroyMayFail = TRUE
    PathMayFail = TRUE
    Overlap = TRUE
    Public = "public"
    Configs = {}
    DefaultConfig = dflt
    AllEntities = all
    NoConfig = noConfig
    Absent = absent
    NoAnswer = noAnswer
    NoSchema = noSchema
    NoConn = noConn
SYMMETRY TaskSymmetry
INVARIANTS RoutedToOwnSchema DestroyedOnce
PROPERTIES ImplementsRouting LostOnlyInRaces
