\* Drizzle: overlapping calls and failing queries implement the directory.
SPECIFICATION Spec
CONSTANTS
    Callers = {c1, c2}
    Ids = {1, 2}
    Codes = {"acme", "beta", "Acme!"}
    ValidCodes = {"acme", "beta"}
    Configs = {basic, custom}
    BasicConfig = basic
    UnknownEntities = unknown
    DtoStatuses = {"suspended"}
    OrmType = "drizzle"
    AutoCreate = TRUE
    Renames = FALSE
    QueriesMayFail = TRUE
    Overlap = TRUE
    NoRow = noRow
    NoId = noId
    Undefined = undefined
    Never = never
    Gone = gone
SYMMETRY CallerSymmetry
INVARIANTS TypeOK
PROPERTIES ImplementsDirectory CreatedIsProvisioned
