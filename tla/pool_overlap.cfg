\* A full pool of 20, so that evictions come in batches of two, and calls and
\* removals that overlap at will, TypeORM with the local validation strategy.
SPECIFICATION WarmSpec
CONSTANTS
    Schemas = {"hot1", "hot2", "hot3", "cold1", "cold2", "cold3", "cold4",
               "cold5", "cold6", "cold7", "cold8", "cold9", "cold10", "cold11",
               "cold12", "cold13", "cold14", "cold15", "cold16", "cold17",
               "cold18", "public"}
    Unvalidated = {"public"}
    Requested = {"hot3"}
    Administered = {"hot3"}
    Closable = FALSE
    Conns = {1, 2, 3, 4, 5, 6, 7, 8, 9, 10, 11, 12, 13, 14, 15, 16, 17, 18, 19,
             20, 21}
    Tasks = {t1, t2}
    MaxConnections = 20
    EnableCleanup = FALSE
    OrmType = "typeorm"
    Validator = "local"
    DestroyMayFail = TRUE
    PathMayFail = FALSE
    Overlap = TRUE
    Public = "public"
    Configs = {cfgA}
    DefaultConfig = dflt
    AllEntities = all
    NoConfig = noConfig
    Absent = absent
    NoAnswer = noAnswer
    NoSchema = noSchema
    NoConn = noConn
SYMMETRY TaskSymmetry
INVARIANTS TypeOK ServedOnlyIfExisted DestroyedOnce
PROPERTIES FreshEntities LostOnlyInRaces
