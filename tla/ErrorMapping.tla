---------------------------- MODULE ErrorMapping ----------------------------
(***************************************************************************)
(* What MultitenantExceptionFilter answers to an error that leaves a       *)
(* request: status, code, category, which message and which details.       *)
(*                                                                         *)
(* Of an error the filter sees its class, its name, the words it looks for *)
(* in the message, PostgreSQL's code (on the driver error of a TypeORM     *)
(* error, on the cause of a Drizzle error) and an HTTP status.             *)
(***************************************************************************)
EXTENDS Naturals

Http(status) == [class |-> "http", name |-> "HttpException", words |-> {}, pg |-> "",
                 status |-> status]
Tenant(name) == [class |-> "tenant", name |-> name, words |-> {}, pg |-> "", status |-> 0]
Plain(words) == [class |-> "plain", name |-> "Error", words |-> words, pg |-> "", status |-> 0]
TypeOrm(name, pg) == [class |-> "typeorm", name |-> name, words |-> {}, pg |-> pg, status |-> 0]
Drizzle(pg) == [class |-> "drizzle", name |-> "Error", words |-> {"query"}, pg |-> pg,
                status |-> 0]

Mapping(status, code, category) == [status |-> status, code |-> code, category |-> category]

DatabaseError == Mapping(500, "DATABASE_ERROR", "DATABASE")
TenantError == Mapping(500, "TENANT_ERROR", "TENANT")

PgMapping(pg) ==
    CASE pg = "23505" -> Mapping(409, "UNIQUE_VIOLATION", "DATABASE")
      [] pg = "23503" -> Mapping(400, "FOREIGN_KEY_VIOLATION", "DATABASE")
      [] pg = "23502" -> Mapping(400, "NOT_NULL_VIOLATION", "DATABASE")
      [] pg = "23514" -> Mapping(400, "CHECK_VIOLATION", "DATABASE")
      [] pg = "40001" -> Mapping(409, "SERIALIZATION_FAILURE", "DATABASE")
      [] pg = "08006" -> Mapping(503, "CONNECTION_FAILURE", "CONNECTION")
      [] pg = "08001" -> Mapping(503, "SQLCLIENT_UNABLE_TO_ESTABLISH_SQLCONNECTION", "CONNECTION")
      [] pg = "53300" -> Mapping(503, "TOO_MANY_CONNECTIONS", "CONNECTION")
      [] pg = "42P01" -> Mapping(404, "UNDEFINED_TABLE", "DATABASE")
      [] OTHER -> DatabaseError

Known(pg) == PgMapping(pg) # DatabaseError

\* ErrorTypeMapper.mapDatabaseError: the first test that applies decides.
MapDatabaseError(e) ==
    IF e.name = "QueryFailedError" /\ Known(e.pg) THEN PgMapping(e.pg)
    ELSE IF e.name = "EntityNotFoundError" THEN Mapping(404, "ENTITY_NOT_FOUND", "DATABASE")
    ELSE IF e.name \in {"CannotConnectDatabaseError", "CannotExecuteNotConnectedError"}
         THEN Mapping(503, "CONNECTION_ERROR", "CONNECTION")
    ELSE IF e.words \cap {"connection", "timeout"} # {}
         THEN Mapping(503, "DATABASE_SERVICE_ERROR", "CONNECTION")
    ELSE IF "query" \in e.words THEN PgMapping(e.pg)
    ELSE DatabaseError

MapTenantError(e) ==
    CASE e.name = "NoTenantContextError" -> Mapping(400, "MISSING_TENANT_CONTEXT", "TENANT")
      [] e.name = "InvalidTenantCodeError" -> Mapping(404, "INVALID_TENANT", "TENANT")
      [] e.name = "SchemaNotFoundError" -> Mapping(404, "SCHEMA_NOT_FOUND", "TENANT")
      [] e.name = "ConnectionPoolExhaustedError" ->
            Mapping(503, "CONNECTION_POOL_EXHAUSTED", "CONNECTION")
      [] e.name = "InvalidConnectionTypeError" ->
            Mapping(400, "INVALID_CONNECTION_TYPE", "CONNECTION")
      [] e.name = "TenantValidationError" -> Mapping(400, "TENANT_VALIDATION_ERROR", "VALIDATION")
      [] e.name = "TenantConflictError" -> Mapping(409, "TENANT_CONFLICT", "TENANT")
      [] e.name = "TransactionFailedError" -> Mapping(500, "TRANSACTION_FAILED", "DATABASE")
      [] OTHER -> TenantError

\* The test for 500 and above comes first, so that no HTTP status is ever of
\* category CONNECTION.
CategoryFromStatus(status) ==
    CASE status >= 500 -> "SYSTEM"
      [] status \in {400, 409, 422} -> "VALIDATION"
      [] status \in {401, 403, 404} -> "TENANT"
      [] OTHER -> "SYSTEM"

CodeFromStatus(status) ==
    CASE status = 400 -> "BAD_REQUEST"
      [] status = 401 -> "UNAUTHORIZED"
      [] status = 403 -> "FORBIDDEN"
      [] status = 404 -> "NOT_FOUND"
      [] status = 409 -> "CONFLICT"
      [] status = 422 -> "UNPROCESSABLE_ENTITY"
      [] status = 500 -> "INTERNAL_SERVER_ERROR"
      [] status = 502 -> "BAD_GATEWAY"
      [] status = 503 -> "SERVICE_UNAVAILABLE"
      [] status = 504 -> "GATEWAY_TIMEOUT"
      [] OTHER -> "UNKNOWN_ERROR"

MapNestJSHttpError(e) ==
    Mapping(e.status, CodeFromStatus(e.status), CategoryFromStatus(e.status))

\* Fault: an error that is no HttpException is always the server's.
MappingOf_Blunt(e) ==
    IF e.class = "http" THEN Mapping(500, "INTERNAL_SERVER_ERROR", "SYSTEM") ELSE DatabaseError

\* The dispatch of buildErrorResponse.
MappingOf(e) ==
    CASE e.class = "http" -> MapNestJSHttpError(e)
      [] e.class = "tenant" -> MapTenantError(e)
      [] e.class \in {"typeorm", "drizzle"} -> MapDatabaseError(e)
      [] e.class = "plain" /\ e.words # {} -> MapDatabaseError(e)
      [] e.class = "plain" /\ e.words = {} -> Mapping(500, "INTERNAL_SERVER_ERROR", "SYSTEM")
      [] OTHER -> Mapping(500, "UNKNOWN_ERROR", "SYSTEM")

\* What the details hold: those of the custom errors only when the category is
\* TENANT or CONNECTION, of TypeORM's when it is DATABASE.
Details(e, mapping) ==
    CASE mapping.category = "DATABASE" /\ e.name = "QueryFailedError" -> "query"
      [] mapping.category = "DATABASE" /\ e.name = "EntityNotFoundError" -> "entity"
      [] mapping.category = "TENANT"
         /\ e.name \in {"InvalidTenantCodeError", "TenantValidationError",
                         "TenantConflictError"} -> "tenant"
      [] mapping.category = "CONNECTION" /\ e.name = "ConnectionPoolExhaustedError" -> "connection"
      [] OTHER -> "none"

\* What the client gets.  The message of a SYSTEM error is replaced.
Response(e) ==
    LET mapping == MappingOf(e)
    IN  [status |-> mapping.status, code |-> mapping.code, category |-> mapping.category,
         message |-> IF mapping.category = "SYSTEM" THEN "generic" ELSE "mapped",
         details |-> Details(e, mapping)]
=============================================================================
