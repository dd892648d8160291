\* TypeORM: overlapping calls and failing queries.
SPECIFICATION Spec
CONSTANTS
    Callers = {c1, c2}
    Ids = {1, 2}
    Codes = {"acme", "beta"}
    ValidCodes = {"acme", "beta"}
    Configs = {basic, custom}
    BasicConfig = basic
    UnknownEntities = unknown
    DtoStatuses = {"suspended"}
    OrmType = "typeorm"
    AutoCreate = FALSE
    Renames = FALSE
    QueriesMayFail = TRUE
    Overlap = TRUE
    NoRow = noRow
    NoId = noId
    Undefined = undefined
    Never = never
    Gone = gone
SYMMETRY CallerSymmetry
PROPERTIES ChangesOneTenant RevivedOnlyByUpdate
