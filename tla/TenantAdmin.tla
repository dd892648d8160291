---------------------------- MODULE TenantAdmin ----------------------------
(***************************************************************************)
(* TenantAdminService (TypeORM) and DrizzleTenantAdminService: the calls   *)
(* that create, change and remove tenants, overlapping on the tenants      *)
(* table, which is the only state they share with each other and with the  *)
(* connection pool.                                                        *)
(*                                                                         *)
(* Every await is a query that commits on its own.  An action is one such  *)
(* query with the code up to the next.  No call runs in a transaction: a   *)
(* call reads a row and writes it later.  TypeORM's save reads the row     *)
(* again, compares it with the entity in memory and writes the columns     *)
(* that differ; Drizzle writes the columns the code gives.  In both a      *)
(* column that is undefined is left alone.                                 *)
(***************************************************************************)
CONSTANTS
    Callers,         \* calls of the service alive at once (bound)
    Ids,             \* tenant ids (bound)
    Codes,           \* codes, with the prefix create adds
    ValidCodes,      \* the codes that match REGEX_TENANT_NAME
    Configs,         \* values of entityConfig
    BasicConfig,     \* the preset 'basic', when a create asks for no entities
    UnknownEntities, \* a dto that names an entity nobody registered
    DtoStatuses,     \* the statuses callers ask for (bound)
    OrmType,         \* "typeorm" or "drizzle"
    AutoCreate,      \* autoCreateSchemas
    Renames,         \* callers put a code into an update (bound)
    QueriesMayFail,  \* a query may reject
    Overlap,         \* FALSE: one call at a time for each row
    NoRow, NoId,
    Undefined,       \* JavaScript's undefined
    Never, Gone      \* see TenantDirectory

Statuses == {"active", "inactive", "suspended", "pending"}
Row == [code : Codes, status : Statuses, deletedAt : {"null", "date"},
        entityConfig : Configs]
Patch == [code : Codes \cup {Undefined}, status : Statuses \cup {Undefined},
          deletedAt : {"null", "date", Undefined},
          entityConfig : Configs \cup {Undefined}]

ASSUME InputsAssumption ==
    /\ ValidCodes \subseteq Codes
    /\ BasicConfig \in Configs
    /\ DtoStatuses \subseteq Statuses

ASSUME SwitchesAssumption ==
    /\ OrmType \in {"typeorm", "drizzle"}
    /\ {AutoCreate, Renames, QueriesMayFail, Overlap} \subseteq BOOLEAN

ASSUME MarkersAssumption ==
    /\ NoRow \notin Row
    /\ NoId \notin Ids
    /\ UnknownEntities \notin Configs \cup {Undefined}
    /\ Undefined \notin Codes \cup Statuses \cup Configs \cup {"null", "date"}
    /\ Never # Gone
    /\ {Never, Gone} \cap Configs = {}

VARIABLES
    rows,     \* the tenants table
    schemas,  \* the schemas that were created in the database
    pc,       \* the query each call awaits
    op,       \* the method called
    target,   \* the row the call found
    entity,   \* the values the call is going to write
    reply     \* what the call that settled in the last step answered

callVars == <<pc, op, target, entity>>
vars == <<rows, schemas, callVars, reply>>

Ops == {"none", "create", "update", "remove", "activate", "deactivate"}
Points == {"idle", "inserting", "provisioning", "reloading", "writing"}
Replies == {"none", "ok", "conflict", "invalid", "bad request", "not found", "error"}

NoChange == [code |-> Undefined, status |-> Undefined, deletedAt |-> Undefined,
             entityConfig |-> Undefined]

-----------------------------------------------------------------------------
(* Rows and what is written to them.                                       *)

Taken(c) == \E id \in Ids : rows[id] # NoRow /\ rows[id].code = c

\* Another row has the code that the call of t is about to write.
CodeConflict(t) ==
    \E id \in Ids \ {target[t]} : rows[id] # NoRow /\ rows[id].code = entity[t].code

Live(id) == rows[id] # NoRow /\ rows[id].deletedAt = "null"

Pick(new, old) == IF new = Undefined THEN old ELSE new

\* Row or entity r with the columns p gives.
Patched(r, p) ==
    [code |-> Pick(p.code, r.code), status |-> Pick(p.status, r.status),
     deletedAt |-> Pick(p.deletedAt, r.deletedAt),
     entityConfig |-> Pick(p.entityConfig, r.entityConfig)]

Unless(new, old) == IF new = old THEN Undefined ELSE new

\* The columns of an entity that differ from row r.
Changed(e, r) ==
    [code |-> Unless(e.code, r.code), status |-> Unless(e.status, r.status),
     deletedAt |-> Unless(e.deletedAt, r.deletedAt),
     entityConfig |-> Unless(e.entityConfig, r.entityConfig)]

\* An update's dto.  UpdateTenantDto inherits the decorators of the code.
UpdateDtos ==
    [code : {Undefined} \cup (IF Renames THEN Codes ELSE {}),
     status : {Undefined} \cup DtoStatuses,
     deletedAt : {Undefined},
     entityConfig : {Undefined, UnknownEntities} \cup Configs]

\* Fault: activate clears deletedAt.
Given_Revives(o, dto) ==
    CASE o = "update" -> dto
      [] o = "remove" -> [NoChange EXCEPT !.status = "inactive", !.deletedAt = "date"]
      [] o = "activate" -> [NoChange EXCEPT !.status = "active", !.deletedAt = "null"]
      [] o = "deactivate" -> [NoChange EXCEPT !.status = "suspended", !.deletedAt = "date"]

\* The columns a method gives.  activate's deletedAt is undefined.  Drizzle's
\* update leaves out the code.
Given(o, dto) ==
    CASE o = "update" -> IF OrmType = "drizzle" THEN [dto EXCEPT !.code = Undefined] ELSE dto
      [] o = "remove" -> [NoChange EXCEPT !.status = "inactive", !.deletedAt = "date"]
      [] o = "activate" -> [NoChange EXCEPT !.status = "active"]
      [] o = "deactivate" -> [NoChange EXCEPT !.status = "suspended", !.deletedAt = "date"]

\* Fault: activate leaves deletedAt as it was found.
InMemory_Stale(r, o, dto) == Patched(r, Given(o, dto))

\* TypeORM: the entity that was found, with the values assigned to it.
InMemory(r, o, dto) ==
    LET e == Patched(r, Given(o, dto))
    IN  IF o = "activate" THEN [e EXCEPT !.deletedAt = Undefined] ELSE e

-----------------------------------------------------------------------------

Init ==
    /\ rows = [id \in Ids |-> NoRow]
    /\ schemas = {}
    /\ pc = [t \in Callers |-> "idle"]
    /\ op = [t \in Callers |-> "none"]
    /\ target = [t \in Callers |-> NoId]
    /\ entity = [t \in Callers |-> NoChange]
    /\ reply = "none"

Settles(t, r) ==
    /\ reply' = r
    /\ pc' = [pc EXCEPT ![t] = "idle"]
    /\ op' = [op EXCEPT ![t] = "none"]
    /\ target' = [target EXCEPT ![t] = NoId]
    /\ entity' = [entity EXCEPT ![t] = NoChange]

Answers(r) == reply' = r /\ UNCHANGED callVars

Awaits(t, p, o, id, e) ==
    /\ reply' = "none"
    /\ pc' = [pc EXCEPT ![t] = p]
    /\ op' = [op EXCEPT ![t] = o]
    /\ target' = [target EXCEPT ![t] = id]
    /\ entity' = [entity EXCEPT ![t] = e]

-----------------------------------------------------------------------------
(* create                                                                  *)

\* TypeORM's findOne does not see rows with a deletedAt.
Exists(c) ==
    \E id \in Ids : /\ rows[id] # NoRow /\ rows[id].code = c
                    /\ OrmType = "drizzle" \/ Live(id)

CheckCode(t, c, s, k) ==
    /\ pc[t] = "idle"
    /\ IF Exists(c) THEN Answers("conflict")
       ELSE IF c \notin ValidCodes THEN Answers("invalid")
       ELSE IF k = UnknownEntities THEN Answers("bad request")
       ELSE Awaits(t, "inserting", "create", NoId,
                   [code |-> c, status |-> Pick(s, "active"), deletedAt |-> "null",
                    entityConfig |-> Pick(k, BasicConfig)])
    /\ UNCHANGED <<rows, schemas>>

NewId == CHOOSE id \in Ids : rows[id] = NoRow

\* The code's unique constraint also counts rows with a deletedAt.
Insert(t) ==
    /\ pc[t] = "inserting"
    /\ IF Taken(entity[t].code)
       THEN Settles(t, "bad request") /\ UNCHANGED rows
       ELSE /\ \E id \in Ids : rows[id] = NoRow
            /\ rows' = [rows EXCEPT ![NewId] = entity[t]]
            /\ IF AutoCreate
               THEN Awaits(t, "provisioning", "create", NewId, entity[t])
               ELSE Settles(t, "ok")
    /\ UNCHANGED schemas

CreateSchema(t) ==
    /\ pc[t] = "provisioning"
    /\ schemas' = schemas \cup {entity[t].code}
    /\ Settles(t, "ok")
    /\ UNCHANGED rows

-----------------------------------------------------------------------------
(* update, remove, activate, deactivate                                    *)

Refused(o, id, dto) ==
    \/ o = "activate" /\ rows[id].status = "active"
    \/ o = "deactivate" /\ rows[id].status = "inactive"
    \/ o = "update" /\ dto.entityConfig = UnknownEntities

FindOne(t, o, id, dto) ==
    /\ pc[t] = "idle"
    /\ Overlap \/ \A u \in Callers : target[u] # id
    /\ IF ~Live(id) THEN Answers("not found")
       ELSE IF Refused(o, id, dto) THEN Answers("bad request")
       ELSE IF OrmType = "typeorm"
            THEN Awaits(t, "reloading", o, id, InMemory(rows[id], o, dto))
            ELSE Awaits(t, "writing", o, id, Given(o, dto))
    /\ UNCHANGED <<rows, schemas>>

\* The first half of TypeORM's save.
Reload(t) ==
    LET diff == Changed(entity[t], rows[target[t]])
    IN  /\ pc[t] = "reloading"
        /\ IF diff = NoChange THEN Settles(t, "ok")
           ELSE Awaits(t, "writing", op[t], target[t], diff)
        /\ UNCHANGED <<rows, schemas>>

\* Fault: the UPDATE has no WHERE.
Write_All(t) ==
    /\ pc[t] = "writing"
    /\ rows' = [id \in Ids |-> IF rows[id] = NoRow THEN NoRow ELSE Patched(rows[id], entity[t])]
    /\ Settles(t, "ok")
    /\ UNCHANGED schemas

\* Fault: the row is replaced by what the call gives.
Write_Replaces(t) ==
    /\ pc[t] = "writing"
    /\ rows' = [rows EXCEPT ![target[t]] = entity[t]]
    /\ Settles(t, "ok")
    /\ UNCHANGED schemas

\* The UPDATE, which the unique constraint may refuse.
Write(t) ==
    LET id == target[t]
    IN  /\ pc[t] = "writing"
        /\ IF CodeConflict(t)
           THEN Settles(t, "bad request") /\ UNCHANGED rows
           ELSE /\ rows' = [rows EXCEPT ![id] = Patched(@, entity[t])]
                /\ Settles(t, "ok")
        /\ UNCHANGED schemas

\* Fault: an error of createTenantSchema is logged and forgotten.
QueryFails_Forgotten(t) ==
    /\ QueriesMayFail
    /\ pc[t] # "idle"
    /\ Settles(t, IF pc[t] = "provisioning" THEN "ok" ELSE "bad request")
    /\ UNCHANGED <<rows, schemas>>

\* A query rejects.  create and update turn the error into a bad request; what
\* the call has committed before stays.
QueryFails(t) ==
    /\ QueriesMayFail
    /\ pc[t] # "idle"
    /\ Settles(t, IF op[t] \in {"create", "update"} THEN "bad request" ELSE "error")
    /\ UNCHANGED <<rows, schemas>>

-----------------------------------------------------------------------------

Next ==
    \E t \in Callers :
        \/ \E c \in Codes, s \in DtoStatuses \cup {Undefined},
              k \in Configs \cup {Undefined, UnknownEntities} : CheckCode(t, c, s, k)
        \/ \E id \in Ids, dto \in UpdateDtos : FindOne(t, "update", id, dto)
        \/ \E id \in Ids, o \in {"remove", "activate", "deactivate"} :
              FindOne(t, o, id, NoChange)
        \/ Insert(t) \/ CreateSchema(t) \/ Reload(t) \/ Write(t) \/ QueryFails(t)

Spec == Init /\ [][Next]_vars

-----------------------------------------------------------------------------
(* Properties                                                              *)

\* Every variable has its type; no row holds an undefined column.
TypeOK ==
    /\ rows \in [Ids -> Row \cup {NoRow}]
    /\ schemas \subseteq Codes
    /\ pc \in [Callers -> Points]
    /\ op \in [Callers -> Ops]
    /\ target \in [Callers -> Ids \cup {NoId}]
    /\ entity \in [Callers -> Patch]
    /\ reply \in Replies

\* The state of the directory: what the validation strategies would find.
DirectoryView ==
    [c \in Codes |->
        IF \E id \in Ids : Live(id) /\ rows[id].code = c
        THEN rows[CHOOSE id \in Ids : Live(id) /\ rows[id].code = c].entityConfig
        ELSE IF Taken(c) THEN Gone ELSE Never]

Directory == INSTANCE TenantDirectory WITH directory <- DirectoryView

\* The services implement the directory: however calls overlap and fail, a code
\* is provisioned once, and a tenant that was removed or deactivated never comes
\* back.
ImplementsDirectory == Directory!Spec

\* A step changes what the library sees of one tenant only: this is the
\* environment the connection pool is modelled with.
ChangesOneTenant == Directory!LooseSpec

\* A create answers with the tenant only when its schema exists.
CreatedIsProvisioned ==
    [][\A t \in Callers :
          /\ AutoCreate
          /\ op[t] = "create" /\ op'[t] = "none" /\ reply' = "ok"
          => entity[t].code \in schemas']_vars

\* A removed tenant comes back only through an update that had found it before
\* it was removed; no activation brings it back.
RevivedOnlyByUpdate ==
    [][\A id \in Ids :
          rows[id] # NoRow /\ ~Live(id) /\ Live(id)' =>
             \E t \in Callers : op[t] = "update" /\ pc[t] = "writing" /\ target[t] = id]_vars

\* A removed or deactivated tenant stays away.
RemovedStaysRemoved ==
    [][\A id \in Ids : rows[id] # NoRow /\ ~Live(id) => ~Live(id)']_vars
=============================================================================
