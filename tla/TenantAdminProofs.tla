------------------------- MODULE TenantAdminProofs -------------------------
(***************************************************************************)
(* What overlapping and failing calls of the admin services do to the      *)
(* tenants, proved for any callers, tenants and configurations.            *)
(***************************************************************************)
EXTENDS TenantAdmin, TLAPS

Tables == [Ids -> Row \cup {NoRow}]

\* The unique constraint on the code.
Unique(r) ==
    \A i, j \in Ids : r[i] # NoRow /\ r[j] # NoRow /\ r[i].code = r[j].code => i = j

\* A call's point belongs to its method, and what it is about to write is
\* complete, or for a row that is there.
Pending ==
    \A t \in Callers :
       /\ pc[t] \in {"inserting", "provisioning"} <=> op[t] = "create"
       /\ pc[t] = "inserting" => entity[t] \in Row /\ entity[t].deletedAt = "null"
       /\ pc[t] = "provisioning" => entity[t].code \in Codes
       /\ pc[t] \in {"reloading", "writing"} => target[t] \in Ids /\ rows[target[t]] # NoRow

\* Only TypeORM's update writes a null deletedAt: it had found it in the row.
OnlyUpdatesRevive ==
    \A t \in Callers :
       /\ pc[t] \in {"reloading", "writing"} /\ op[t] # "update" => entity[t].deletedAt # "null"
       /\ pc[t] = "writing" /\ OrmType = "drizzle" => entity[t].deletedAt # "null"

\* Drizzle has no step between finding the row and writing it.
OnlyTypeOrmReloads == OrmType = "drizzle" => \A t \in Callers : pc[t] # "reloading"

KeepsCodes == OrmType = "drizzle" \/ ~Renames

\* Where no update can carry a code, a write leaves the code alone.
CodesAreKept ==
    KeepsCodes =>
       \A t \in Callers :
          /\ pc[t] = "reloading" => entity[t].code = rows[target[t]].code
          /\ pc[t] = "writing" => entity[t].code = Undefined

AdminInv ==
    /\ TypeOK
    /\ Unique(rows)
    /\ Pending
    /\ OnlyUpdatesRevive
    /\ OnlyTypeOrmReloads
    /\ CodesAreKept

-----------------------------------------------------------------------------
(* What is written                                                         *)

\* A row with the columns a patch gives is a row.
LEMMA PatchedRow ==
    ASSUME NEW r \in Row, NEW p \in Patch
    PROVE  /\ Patched(r, p) \in Row
           /\ p.code = Undefined => Patched(r, p).code = r.code
           /\ p.code # Undefined => Patched(r, p).code = p.code
           /\ Patched(r, p).deletedAt = Pick(p.deletedAt, r.deletedAt)
           /\ Patched(r, p).entityConfig = Pick(p.entityConfig, r.entityConfig)
BY DEF Patched, Pick, Row, Patch

\* So is a patch whose columns equal to the row's are dropped.
LEMMA ChangedPatch ==
    ASSUME NEW e \in Patch, NEW r \in Row
    PROVE  /\ Changed(e, r) \in Patch
           /\ e.deletedAt # "null" => Changed(e, r).deletedAt # "null"
           /\ e.code = r.code => Changed(e, r).code = Undefined
BY MarkersAssumption DEF Changed, Unless, Row, Patch

\* The values a method gives are a patch.  Only an update leaves the date of
\* removal as it may have been found.
LEMMA GivenPatch ==
    ASSUME NEW o, NEW dto,
           \/ o = "update" /\ dto \in UpdateDtos /\ dto.entityConfig # UnknownEntities
           \/ o \in {"remove", "activate", "deactivate"} /\ dto = NoChange
    PROVE  /\ Given(o, dto) \in Patch
           /\ Given(o, dto).deletedAt # "null"
           /\ o \in {"remove", "deactivate"} => Given(o, dto).deletedAt = "date"
           /\ KeepsCodes => Given(o, dto).code = Undefined
<1>1. NoChange \in Patch /\ NoChange.code = Undefined /\ NoChange.deletedAt = Undefined
  BY DEF NoChange, Patch
<1>2. CASE o = "update"
  <2>1. dto \in Patch /\ dto.deletedAt = Undefined /\ (~Renames => dto.code = Undefined)
    BY <1>2, InputsAssumption DEF UpdateDtos, Patch, Statuses
  <2> QED
    BY <1>2, <2>1, MarkersAssumption DEF Given, Patch, KeepsCodes
<1>3. CASE o = "remove"
  BY <1>1, <1>3 DEF Given, Patch, NoChange, Statuses
<1>4. CASE o = "activate"
  BY <1>1, <1>4, MarkersAssumption DEF Given, Patch, NoChange, Statuses
<1>5. CASE o = "deactivate"
  BY <1>1, <1>5 DEF Given, Patch, NoChange, Statuses
<1> QED
  BY <1>2, <1>3, <1>4, <1>5

\* TypeORM's entity in memory, too.
LEMMA InMemoryPatch ==
    ASSUME NEW r \in Row, NEW o, NEW dto,
           \/ o = "update" /\ dto \in UpdateDtos /\ dto.entityConfig # UnknownEntities
           \/ o \in {"remove", "activate", "deactivate"} /\ dto = NoChange
    PROVE  /\ InMemory(r, o, dto) \in Patch
           /\ o # "update" => InMemory(r, o, dto).deletedAt # "null"
           /\ KeepsCodes => InMemory(r, o, dto).code = r.code
<1> DEFINE g == Given(o, dto)
           e == Patched(r, g)
<1>1. g \in Patch /\ (KeepsCodes => g.code = Undefined)
      /\ (o \in {"remove", "deactivate"} => g.deletedAt = "date")
  BY GivenPatch
<1>2. e \in Row /\ (g.code = Undefined => e.code = r.code)
      /\ e.deletedAt = Pick(g.deletedAt, r.deletedAt)
  BY <1>1, PatchedRow
<1>3. Row \subseteq Patch
  BY DEF Row, Patch
<1>4. o \in {"remove", "deactivate"} => e.deletedAt = "date"
  BY <1>1, <1>2, MarkersAssumption DEF Pick
<1>5. InMemory(r, o, dto) = IF o = "activate" THEN [e EXCEPT !.deletedAt = Undefined] ELSE e
  BY DEF InMemory
<1> HIDE DEF g, e
<1>6. CASE o = "activate"
  <2>1. /\ [e EXCEPT !.deletedAt = Undefined] \in Patch
        /\ [e EXCEPT !.deletedAt = Undefined].deletedAt = Undefined
        /\ [e EXCEPT !.deletedAt = Undefined].code = e.code
    BY <1>2 DEF Row, Patch
  <2> QED
    BY <1>1, <1>2, <1>5, <1>6, <2>1, MarkersAssumption
<1>7. CASE o # "activate"
  BY <1>1, <1>2, <1>3, <1>4, <1>5, <1>7
<1> QED
  BY <1>6, <1>7

-----------------------------------------------------------------------------
(* The invariant                                                           *)

\* It holds initially.
LEMMA AdminInit == Init => AdminInv
<1> SUFFICES ASSUME Init PROVE AdminInv
  OBVIOUS
<1>1. TypeOK
  BY DEF Init, TypeOK, Points, Ops, Replies, NoChange, Patch
<1>2. Unique(rows) /\ Pending /\ OnlyUpdatesRevive /\ OnlyTypeOrmReloads /\ CodesAreKept
  BY DEF Init, Unique, Pending, OnlyUpdatesRevive, OnlyTypeOrmReloads, CodesAreKept
<1> QED
  BY <1>1, <1>2 DEF AdminInv

\* A call that settles keeps it, whatever it did to the rows, if they are still
\* there and their codes unique.
LEMMA Settling ==
    ASSUME AdminInv, NEW t \in Callers, NEW r \in Replies, Settles(t, r),
           rows' \in Tables, Unique(rows'), schemas' \subseteq Codes,
           \A id \in Ids : rows[id] # NoRow =>
              /\ rows'[id] # NoRow
              /\ KeepsCodes => rows'[id].code = rows[id].code
    PROVE  AdminInv'
<1>1. TypeOK'
  BY MarkersAssumption DEF AdminInv, TypeOK, Settles, Tables, Points, Ops, Patch, NoChange
<1>2. Pending'
  BY DEF AdminInv, TypeOK, Settles, Pending
<1>3. OnlyUpdatesRevive'
  BY DEF AdminInv, TypeOK, Settles, OnlyUpdatesRevive
<1>4. CodesAreKept'
  BY DEF AdminInv, TypeOK, Settles, CodesAreKept, Pending, KeepsCodes
<1>5. OnlyTypeOrmReloads'
  BY DEF AdminInv, TypeOK, Settles, OnlyTypeOrmReloads
<1> QED
  BY <1>1, <1>2, <1>3, <1>4, <1>5 DEF AdminInv

\* A call that goes on keeps it, if what it is about to write fits its point.
LEMMA GoingOn ==
    ASSUME AdminInv, NEW t \in Callers, NEW p \in Points, NEW o \in Ops,
           NEW id \in Ids \cup {NoId}, NEW e \in Patch, Awaits(t, p, o, id, e),
           rows' \in Tables, Unique(rows'), schemas' \subseteq Codes,
           \A i \in Ids : rows[i] # NoRow => rows'[i] = rows[i],
           p \in {"inserting", "provisioning"} <=> o = "create",
           p = "inserting" => e \in Row /\ e.deletedAt = "null",
           p = "provisioning" => e.code \in Codes,
           p \in {"reloading", "writing"} => id \in Ids /\ rows'[id] # NoRow,
           p \in {"reloading", "writing"} /\ o # "update" => e.deletedAt # "null",
           p = "writing" /\ OrmType = "drizzle" => e.deletedAt # "null",
           p = "reloading" => OrmType # "drizzle",
           KeepsCodes => /\ p = "reloading" => e.code = rows'[id].code
                         /\ p = "writing" => e.code = Undefined
    PROVE  AdminInv'
<1>1. TypeOK'
  BY DEF AdminInv, TypeOK, Awaits, Tables, Points, Ops, Replies
<1>2. Pending'
  BY DEF AdminInv, TypeOK, Awaits, Pending
<1>3. OnlyUpdatesRevive'
  BY DEF AdminInv, TypeOK, Awaits, OnlyUpdatesRevive
<1>4. CodesAreKept'
  BY DEF AdminInv, TypeOK, Awaits, CodesAreKept, Pending, KeepsCodes
<1>5. OnlyTypeOrmReloads'
  BY DEF AdminInv, TypeOK, Awaits, OnlyTypeOrmReloads
<1> QED
  BY <1>1, <1>2, <1>3, <1>4, <1>5 DEF AdminInv

\* An answer without a query changes nothing else.
LEMMA Answering ==
    ASSUME AdminInv, NEW r \in Replies, Answers(r), UNCHANGED <<rows, schemas>>
    PROVE  AdminInv'
BY DEF AdminInv, Answers, callVars, TypeOK, Unique, Pending, OnlyUpdatesRevive, CodesAreKept,
       OnlyTypeOrmReloads, KeepsCodes

\* create keeps it up to its insert.
LEMMA CheckCodeStep ==
    ASSUME AdminInv, NEW t \in Callers, NEW c \in Codes, NEW s \in DtoStatuses \cup {Undefined},
           NEW k \in Configs \cup {Undefined, UnknownEntities}, CheckCode(t, c, s, k)
    PROVE  AdminInv'
<1> DEFINE e == [code |-> c, status |-> Pick(s, "active"), deletedAt |-> "null",
                 entityConfig |-> Pick(k, BasicConfig)]
<1>1. rows \in Tables /\ schemas \subseteq Codes /\ Unique(rows) /\ UNCHANGED <<rows, schemas>>
  BY DEF AdminInv, TypeOK, Tables, CheckCode
<1>2. CASE \E r \in Replies : Answers(r)
  BY <1>1, <1>2, Answering
<1>3. CASE k # UnknownEntities /\ Awaits(t, "inserting", "create", NoId, e)
  <2>1. e \in Row /\ e.deletedAt = "null" /\ e \in Patch
    BY <1>3, InputsAssumption, MarkersAssumption DEF Pick, Row, Patch, Statuses
  <2> HIDE DEF e
  <2> QED
    BY <1>1, <1>3, <2>1, GoingOn DEF Points, Ops
<1> QED
  BY <1>2, <1>3 DEF CheckCode, Replies

\* The insert keeps it: the constraint keeps the codes unique.
LEMMA InsertStep ==
    ASSUME AdminInv, NEW t \in Callers, Insert(t)
    PROVE  /\ AdminInv'
           /\ \/ UNCHANGED rows
              \/ \E id \in Ids : /\ rows[id] = NoRow /\ ~Taken(entity[t].code)
                                 /\ entity[t] \in Row /\ entity[t].deletedAt = "null"
                                 /\ rows' = [rows EXCEPT ![id] = entity[t]]
<1>1. rows \in Tables /\ schemas \subseteq Codes /\ Unique(rows) /\ schemas' = schemas
  BY DEF AdminInv, TypeOK, Tables, Insert
<1>2. entity[t] \in Row /\ entity[t].deletedAt = "null" /\ entity[t] \in Patch
  BY DEF AdminInv, Pending, Insert, TypeOK
<1>3. CASE Taken(entity[t].code)
  <2>1. Settles(t, "bad request") /\ UNCHANGED rows
    BY <1>3 DEF Insert
  <2> QED
    BY <1>1, <2>1, Settling DEF Replies
<1>4. CASE ~Taken(entity[t].code)
  <2>1. NewId \in Ids /\ rows[NewId] = NoRow
    BY <1>4 DEF Insert, NewId
  <2>2. rows' = [rows EXCEPT ![NewId] = entity[t]]
    BY <1>4 DEF Insert
  <2> HIDE DEF NewId
  <2>3. /\ rows' \in Tables
        /\ rows'[NewId] = entity[t]
        /\ \A i \in Ids : rows[i] # NoRow => rows'[i] = rows[i]
    BY <1>1, <1>2, <2>1, <2>2 DEF Tables
  <2>4. Unique(rows')
    BY <1>1, <1>4, <2>1, <2>2 DEF Unique, Taken, Tables
  <2>5. \/ Awaits(t, "provisioning", "create", NewId, entity[t])
        \/ Settles(t, "ok")
    BY <1>4 DEF Insert, NewId
  <2>6. entity[t].code \in Codes
    BY <1>2 DEF Row
  <2>7. CASE Awaits(t, "provisioning", "create", NewId, entity[t])
    BY <1>1, <1>2, <2>1, <2>2, <2>3, <2>4, <2>6, <2>7, <1>4, GoingOn DEF Points, Ops
  <2>8. CASE Settles(t, "ok")
    <3>1. \A i \in Ids : rows[i] # NoRow =>
             rows'[i] # NoRow /\ (KeepsCodes => rows'[i].code = rows[i].code)
      BY <2>3
    <3> QED
      BY <1>1, <1>2, <2>1, <2>2, <2>3, <2>4, <2>8, <3>1, <1>4, Settling DEF Replies
  <2> QED
    BY <2>5, <2>7, <2>8
<1> QED
  BY <1>3, <1>4

\* findOne and what update, remove, activate and deactivate do before they write.
LEMMA FindOneStep ==
    ASSUME AdminInv, NEW t \in Callers, NEW id \in Ids, NEW o, NEW dto,
           \/ o = "update" /\ dto \in UpdateDtos
           \/ o \in {"remove", "activate", "deactivate"} /\ dto = NoChange,
           FindOne(t, o, id, dto)
    PROVE  AdminInv'
<1>1. rows \in Tables /\ schemas \subseteq Codes /\ Unique(rows) /\ UNCHANGED <<rows, schemas>>
  BY DEF AdminInv, TypeOK, Tables, FindOne
<1>2. CASE ~Live(id) \/ Refused(o, id, dto)
  <2>1. \E r \in Replies : Answers(r)
    BY <1>2 DEF FindOne, Replies
  <2> QED
    BY <1>1, <2>1, Answering
<1>3. CASE Live(id) /\ ~Refused(o, id, dto)
  <2>1. rows[id] \in Row /\ rows[id] # NoRow
    BY <1>1, <1>3 DEF Live, Tables
  <2>2. \/ o = "update" /\ dto \in UpdateDtos /\ dto.entityConfig # UnknownEntities
        \/ o \in {"remove", "activate", "deactivate"} /\ dto = NoChange
    BY <1>3 DEF Refused
  <2>3. o \in Ops /\ o # "create"
    BY <2>2 DEF Ops
  <2>4. CASE OrmType = "typeorm"
    <3> DEFINE e == InMemory(rows[id], o, dto)
    <3>1. Awaits(t, "reloading", o, id, e)
      BY <1>3, <2>4 DEF FindOne
    <3>2. e \in Patch /\ (o # "update" => e.deletedAt # "null")
          /\ (KeepsCodes => e.code = rows[id].code)
      BY <2>1, <2>2, InMemoryPatch
    <3> HIDE DEF e
    <3> QED
      BY <1>1, <2>1, <2>3, <2>4, <3>1, <3>2, GoingOn DEF Points
  <2>5. CASE OrmType # "typeorm"
    <3> DEFINE e == Given(o, dto)
    <3>1. Awaits(t, "writing", o, id, e)
      BY <1>3, <2>5 DEF FindOne
    <3>2. e \in Patch /\ e.deletedAt # "null" /\ (KeepsCodes => e.code = Undefined)
      BY <2>2, GivenPatch
    <3> HIDE DEF e
    <3> QED
      BY <1>1, <2>1, <2>3, <3>1, <3>2, GoingOn DEF Points
  <2> QED
    BY <2>4, <2>5
<1> QED
  BY <1>2, <1>3

\* The first half of save.
LEMMA ReloadStep ==
    ASSUME AdminInv, NEW t \in Callers, Reload(t)
    PROVE  AdminInv'
<1> DEFINE diff == Changed(entity[t], rows[target[t]])
<1>1. rows \in Tables /\ schemas \subseteq Codes /\ Unique(rows) /\ UNCHANGED <<rows, schemas>>
  BY DEF AdminInv, TypeOK, Tables, Reload
<1>2. /\ target[t] \in Ids /\ rows[target[t]] # NoRow /\ rows[target[t]] \in Row
      /\ entity[t] \in Patch /\ op[t] \in Ops /\ op[t] # "create"
      /\ op[t] # "update" => entity[t].deletedAt # "null"
      /\ KeepsCodes => entity[t].code = rows[target[t]].code
  BY DEF AdminInv, TypeOK, Pending, OnlyUpdatesRevive, CodesAreKept, Reload
<1>3. /\ diff \in Patch
      /\ op[t] # "update" => diff.deletedAt # "null"
      /\ KeepsCodes => diff.code = Undefined
  BY <1>2, ChangedPatch
<1>4. CASE Settles(t, "ok")
  BY <1>1, <1>4, Settling DEF Replies
<1>5. CASE Awaits(t, "writing", op[t], target[t], diff)
  <2>1. pc[t] = "reloading"
    BY DEF Reload
  <2>2. OrmType # "drizzle"
    BY <2>1 DEF AdminInv, OnlyTypeOrmReloads
  <2> HIDE DEF diff
  <2> QED
    BY <1>1, <1>2, <1>3, <1>5, <2>2, GoingOn DEF Points
<1> QED
  BY <1>4, <1>5 DEF Reload

\* What an UPDATE that is let through does to its row.
LEMMA WriteEffect ==
    ASSUME AdminInv, NEW t \in Callers, pc[t] = "writing",
           ~CodeConflict(t),
           rows' = [rows EXCEPT ![target[t]] = Patched(@, entity[t])]
    PROVE  /\ target[t] \in Ids /\ rows[target[t]] \in Row /\ rows[target[t]] # NoRow
           /\ entity[t] \in Patch
           /\ rows' = [rows EXCEPT ![target[t]] = Patched(rows[target[t]], entity[t])]
           /\ Patched(rows[target[t]], entity[t]) \in Row
           /\ rows' \in Tables
           /\ Unique(rows')
           /\ \A id \in Ids : rows[id] # NoRow =>
                 rows'[id] # NoRow /\ (KeepsCodes => rows'[id].code = rows[id].code)
<1> DEFINE id == target[t]
           new == Patched(rows[id], entity[t])
<1>1. /\ id \in Ids /\ rows[id] \in Row /\ rows[id] # NoRow /\ entity[t] \in Patch
      /\ rows \in Tables /\ Unique(rows) /\ (KeepsCodes => entity[t].code = Undefined)
  BY DEF AdminInv, TypeOK, Pending, CodesAreKept, Tables
<1>2. /\ new \in Row
      /\ entity[t].code = Undefined => new.code = rows[id].code
      /\ entity[t].code # Undefined => new.code = entity[t].code
  BY <1>1, PatchedRow
<1>3. rows' = [rows EXCEPT ![id] = new]
  BY <1>1 DEF Tables
<1>4. new # NoRow
  BY <1>2, MarkersAssumption
<1> HIDE DEF new, id
<1>5. rows' \in Tables /\ rows'[id] = new
      /\ \A i \in Ids : i # id => rows'[i] = rows[i]
  BY <1>1, <1>2, <1>3 DEF Tables
<1>6. Unique(rows')
  <2> SUFFICES ASSUME NEW i \in Ids, i # id, rows[i] # NoRow
               PROVE  rows[i].code # new.code
    BY <1>1, <1>5 DEF Unique
  <2>1. CASE entity[t].code = Undefined
    BY <1>1, <1>2, <2>1 DEF Unique
  <2>2. CASE entity[t].code # Undefined
    BY <1>2, <2>2 DEF CodeConflict, id
  <2> QED
    BY <2>1, <2>2
<1>7. \A i \in Ids : rows[i] # NoRow =>
         rows'[i] # NoRow /\ (KeepsCodes => rows'[i].code = rows[i].code)
  BY <1>1, <1>2, <1>4, <1>5
<1> QED
  BY <1>1, <1>2, <1>3, <1>5, <1>6, <1>7 DEF new, id

\* The UPDATE keeps it.
LEMMA WriteStep ==
    ASSUME AdminInv, NEW t \in Callers, Write(t)
    PROVE  AdminInv'
<1>1. rows \in Tables /\ schemas \subseteq Codes /\ Unique(rows) /\ schemas' = schemas
      /\ pc[t] = "writing"
  BY DEF AdminInv, TypeOK, Tables, Write
<1>2. CASE CodeConflict(t)
  <2>1. Settles(t, "bad request") /\ UNCHANGED rows
    BY <1>2 DEF Write
  <2> QED
    BY <1>1, <2>1, Settling DEF Replies
<1>3. CASE ~CodeConflict(t)
  <2>1. /\ rows' = [rows EXCEPT ![target[t]] = Patched(@, entity[t])]
        /\ Settles(t, "ok")
    BY <1>3 DEF Write
  <2>2. /\ rows' \in Tables
        /\ Unique(rows')
        /\ \A id \in Ids : rows[id] # NoRow =>
              rows'[id] # NoRow /\ (KeepsCodes => rows'[id].code = rows[id].code)
    BY <1>1, <1>3, <2>1, WriteEffect
  <2> QED
    BY <1>1, <2>1, <2>2, Settling DEF Replies
<1> QED
  BY <1>2, <1>3

\* Every step keeps it.
LEMMA AdminStep == AdminInv /\ [Next]_vars => AdminInv'
<1> SUFFICES ASSUME AdminInv, [Next]_vars PROVE AdminInv'
  OBVIOUS
<1>1. rows \in Tables /\ schemas \subseteq Codes /\ Unique(rows)
  BY DEF AdminInv, TypeOK, Tables
<1>2. CASE UNCHANGED vars
  BY <1>2 DEF vars, callVars, AdminInv, TypeOK, Unique, Pending, OnlyUpdatesRevive, CodesAreKept,
              OnlyTypeOrmReloads, KeepsCodes
<1>3. ASSUME NEW t \in Callers, NEW c \in Codes, NEW s \in DtoStatuses \cup {Undefined},
             NEW k \in Configs \cup {Undefined, UnknownEntities}, CheckCode(t, c, s, k)
      PROVE  AdminInv'
  BY <1>3, CheckCodeStep
<1>4. ASSUME NEW t \in Callers, NEW id \in Ids, NEW dto \in UpdateDtos,
             FindOne(t, "update", id, dto)
      PROVE  AdminInv'
  BY <1>4, FindOneStep
<1>5. ASSUME NEW t \in Callers, NEW id \in Ids, NEW o \in {"remove", "activate", "deactivate"},
             FindOne(t, o, id, NoChange)
      PROVE  AdminInv'
  BY <1>5, FindOneStep
<1>6. ASSUME NEW t \in Callers, Insert(t) PROVE AdminInv'
  BY <1>6, InsertStep
<1>7. ASSUME NEW t \in Callers, CreateSchema(t) PROVE AdminInv'
  <2>1. entity[t].code \in Codes
    BY <1>7 DEF CreateSchema, AdminInv, Pending
  <2>2. Settles(t, "ok") /\ UNCHANGED rows /\ schemas' \subseteq Codes
    BY <1>1, <1>7, <2>1 DEF CreateSchema
  <2> QED
    BY <1>1, <2>2, Settling DEF Replies
<1>8. ASSUME NEW t \in Callers, Reload(t) PROVE AdminInv'
  BY <1>8, ReloadStep
<1>9. ASSUME NEW t \in Callers, Write(t) PROVE AdminInv'
  BY <1>9, WriteStep
<1>10. ASSUME NEW t \in Callers, QueryFails(t) PROVE AdminInv'
  <2>1. UNCHANGED <<rows, schemas>> /\ (Settles(t, "bad request") \/ Settles(t, "error"))
    BY <1>10 DEF QueryFails
  <2> QED
    BY <1>1, <2>1, Settling DEF Replies
<1> QED
  BY <1>2, <1>3, <1>4, <1>5, <1>6, <1>7, <1>8, <1>9, <1>10 DEF Next

\* So it holds throughout.
LEMMA AdminInvariant == Spec => []AdminInv
<1>1. Init => AdminInv
  BY AdminInit
<1>2. AdminInv /\ [Next]_vars => AdminInv'
  BY AdminStep
<1> QED
  BY <1>1, <1>2, PTL DEF Spec

-----------------------------------------------------------------------------
(* The theorems                                                            *)

\* Every variable keeps its type: no row ever holds an undefined column,
\* although undefined is what both services write with.
THEOREM AdminTypes == Spec => []TypeOK
<1>1. AdminInv => TypeOK
  BY DEF AdminInv
<1> QED
  BY <1>1, AdminInvariant, PTL

\* A create that answers with its tenant has created its schema.
THEOREM Provisioned == Spec => CreatedIsProvisioned
<1> DEFINE Provisions ==
              \A t \in Callers :
                 /\ AutoCreate
                 /\ op[t] = "create" /\ op'[t] = "none" /\ reply' = "ok"
                 => entity[t].code \in schemas'
<1>1. AdminInv /\ [Next]_vars => Provisions
  <2> SUFFICES ASSUME AdminInv, [Next]_vars, NEW t \in Callers, AutoCreate,
                      op[t] = "create", op'[t] = "none", reply' = "ok"
               PROVE  entity[t].code \in schemas'
    OBVIOUS
  <2>1. op \in [Callers -> Ops] /\ pc[t] \in {"inserting", "provisioning"}
    BY DEF AdminInv, TypeOK, Pending
  <2>2. PICK u \in Callers :
           \/ \E c \in Codes, s \in DtoStatuses \cup {Undefined},
                 k \in Configs \cup {Undefined, UnknownEntities} : CheckCode(u, c, s, k)
           \/ \E id \in Ids, dto \in UpdateDtos : FindOne(u, "update", id, dto)
           \/ \E id \in Ids, o \in {"remove", "activate", "deactivate"} :
                 FindOne(u, o, id, NoChange)
           \/ Insert(u) \/ CreateSchema(u) \/ Reload(u) \/ Write(u) \/ QueryFails(u)
    BY DEF Next, vars, callVars
  <2>3. CASE \E c \in Codes, s \in DtoStatuses \cup {Undefined},
                k \in Configs \cup {Undefined, UnknownEntities} : CheckCode(u, c, s, k)
    BY <2>1, <2>3 DEF CheckCode, Answers, Awaits, callVars
  <2>4. CASE \/ \E id \in Ids, dto \in UpdateDtos : FindOne(u, "update", id, dto)
             \/ \E id \in Ids, o \in {"remove", "activate", "deactivate"} :
                   FindOne(u, o, id, NoChange)
    BY <2>1, <2>4 DEF FindOne, Answers, Awaits, callVars
  <2>5. CASE Insert(u)
    BY <2>1, <2>5 DEF Insert, Settles, Awaits
  <2>6. CASE CreateSchema(u)
    BY <2>1, <2>6 DEF CreateSchema, Settles
  <2>7. CASE Reload(u) \/ Write(u)
    BY <2>1, <2>7 DEF Reload, Write, Settles, Awaits
  <2>8. CASE QueryFails(u)
    BY <2>1, <2>8 DEF QueryFails, Settles
  <2> QED
    BY <2>2, <2>3, <2>4, <2>5, <2>6, <2>7, <2>8
<1> QED
  BY <1>1, AdminInvariant, PTL DEF Spec, CreatedIsProvisioned

\* What a step does to the tenants: nothing, the insert of a row whose code
\* nobody has, or the update of one row.
LEMMA RowsStep ==
    ASSUME AdminInv, [Next]_vars
    PROVE  \/ UNCHANGED rows
           \/ \E id \in Ids, t \in Callers :
                 /\ rows[id] = NoRow /\ ~Taken(entity[t].code)
                 /\ entity[t] \in Row /\ entity[t].deletedAt = "null"
                 /\ rows' = [rows EXCEPT ![id] = entity[t]]
           \/ \E t \in Callers :
                 /\ pc[t] = "writing"
                 /\ ~CodeConflict(t)
                 /\ rows' = [rows EXCEPT ![target[t]] = Patched(@, entity[t])]
<1>1. CASE \E t \in Callers : Insert(t)
  BY <1>1, InsertStep
<1>2. CASE \E t \in Callers : Write(t)
  BY <1>2 DEF Write
<1>3. CASE ~(\E t \in Callers : Insert(t) \/ Write(t))
  BY <1>3 DEF Next, vars, CheckCode, FindOne, CreateSchema, Reload, QueryFails
<1> QED
  BY <1>1, <1>2, <1>3

\* A removed tenant comes back only by an UPDATE that sets its deletedAt to null.
LEMMA RevivingStep ==
    ASSUME AdminInv, [Next]_vars, NEW id \in Ids, rows[id] # NoRow, ~Live(id), Live(id)'
    PROVE  \E t \in Callers : /\ pc[t] = "writing" /\ target[t] = id
                              /\ entity[t].deletedAt = "null"
<1>1. rows[id].deletedAt # "null" /\ rows' # rows /\ rows'[id].deletedAt = "null"
  BY DEF Live
<1>2. ~(\E i \in Ids, t \in Callers : rows[i] = NoRow /\ rows' = [rows EXCEPT ![i] = entity[t]])
  BY <1>1 DEF AdminInv, TypeOK
<1>3. PICK t \in Callers :
         /\ pc[t] = "writing"
         /\ ~CodeConflict(t)
         /\ rows' = [rows EXCEPT ![target[t]] = Patched(@, entity[t])]
  BY <1>1, <1>2, RowsStep
<1>4. /\ target[t] \in Ids /\ rows[target[t]] \in Row /\ entity[t] \in Patch
      /\ rows' = [rows EXCEPT ![target[t]] = Patched(rows[target[t]], entity[t])]
  BY <1>3, WriteEffect
<1>5. target[t] = id
  BY <1>1, <1>4
<1>6. rows'[id] = Patched(rows[id], entity[t])
  BY <1>4, <1>5 DEF AdminInv, TypeOK
<1>7. Patched(rows[id], entity[t]).deletedAt = Pick(entity[t].deletedAt, rows[id].deletedAt)
  BY <1>4, <1>5, PatchedRow
<1>8. entity[t].deletedAt = "null"
  BY <1>1, <1>6, <1>7 DEF Pick
<1> QED
  BY <1>3, <1>5, <1>8

\* A removed tenant comes back only by the UPDATE of an update that had found
\* it before: no activation and no create brings it back.
THEOREM Revivals == Spec => RevivedOnlyByUpdate
<1> DEFINE Revives(id) ==
              rows[id] # NoRow /\ ~Live(id) /\ Live(id)' =>
                 \E t \in Callers : op[t] = "update" /\ pc[t] = "writing" /\ target[t] = id
<1>1. AdminInv /\ [Next]_vars => \A id \in Ids : Revives(id)
  BY RevivingStep DEF AdminInv, OnlyUpdatesRevive
<1> QED
  BY <1>1, AdminInvariant, PTL DEF Spec, RevivedOnlyByUpdate

-----------------------------------------------------------------------------
(* Calls for one row.  Where they come one at a time, nobody removes a      *)
(* tenant between the moment a call finds it and the moment it writes.      *)

\* What a call has found is there; where the calls for a row do not overlap, no
\* two have found the same, and what is about to be written has not been removed.
FoundIsLive ==
    /\ \A t \in Callers : target[t] # NoId => rows[target[t]] # NoRow
    /\ ~Overlap =>
          /\ \A t, u \in Callers : t # u /\ target[t] # NoId => target[t] # target[u]
          /\ \A t \in Callers : pc[t] \in {"reloading", "writing"} => Live(target[t])

\* A call that settles has written no row but the one it had found.
LEMMA SettlingFound ==
    ASSUME AdminInv, FoundIsLive, NEW t \in Callers, NEW r, Settles(t, r),
           \A id \in Ids : rows[id] # NoRow => rows'[id] # NoRow,
           \A id \in Ids : rows[id] # NoRow /\ id # target[t] => rows'[id] = rows[id]
    PROVE  FoundIsLive'
<1>1. /\ target'[t] = NoId /\ pc'[t] = "idle"
      /\ \A u \in Callers \ {t} : target'[u] = target[u] /\ pc'[u] = pc[u]
  BY DEF Settles, AdminInv, TypeOK
<1>2. \A u \in Callers : target[u] \in Ids \cup {NoId}
  BY DEF AdminInv, TypeOK
<1>3. \A u \in Callers : pc[u] \in {"reloading", "writing"} => target[u] \in Ids
  BY DEF AdminInv, Pending
<1>4. \A u \in Callers : target'[u] # NoId => rows'[target'[u]] # NoRow
  BY <1>1, <1>2 DEF FoundIsLive
<1>5. ASSUME ~Overlap
      PROVE  /\ \A u, v \in Callers : u # v /\ target'[u] # NoId => target'[u] # target'[v]
             /\ \A u \in Callers : pc'[u] \in {"reloading", "writing"} =>
                   rows'[target'[u]] # NoRow /\ rows'[target'[u]].deletedAt = "null"
  <2>1. \A u, v \in Callers : u # v /\ target'[u] # NoId => target'[u] # target'[v]
    BY <1>1, <1>5 DEF FoundIsLive
  <2>2. ASSUME NEW u \in Callers, pc'[u] \in {"reloading", "writing"}
        PROVE  rows'[target'[u]] # NoRow /\ rows'[target'[u]].deletedAt = "null"
    <3>1. u # t /\ target'[u] = target[u] /\ pc[u] = pc'[u] /\ target[u] \in Ids
      BY <1>1, <1>3, <2>2
    <3>2. target[u] # NoId /\ target[u] # target[t]
      BY <1>5, <3>1, MarkersAssumption DEF FoundIsLive
    <3>3. rows[target[u]] # NoRow /\ rows[target[u]].deletedAt = "null"
      BY <1>5, <2>2, <3>1 DEF FoundIsLive, Live
    <3> QED
      BY <3>1, <3>2, <3>3
  <2> QED
    BY <2>1, <2>2
<1> QED
  BY <1>4, <1>5 DEF FoundIsLive, Live

\* A call that goes on, with the row it has found or has just inserted.
LEMMA GoingOnFound ==
    ASSUME AdminInv, FoundIsLive, NEW t \in Callers,
           NEW p, NEW o, NEW id \in Ids \cup {NoId}, NEW e, Awaits(t, p, o, id, e),
           \A i \in Ids : rows[i] # NoRow => rows'[i] = rows[i],
           id # NoId => rows'[id] # NoRow,
           ~Overlap /\ id # NoId => \A u \in Callers \ {t} : target[u] # id,
           ~Overlap /\ p \in {"reloading", "writing"} =>
              rows'[id] # NoRow /\ rows'[id].deletedAt = "null"
    PROVE  FoundIsLive'
<1>1. /\ target'[t] = id /\ pc'[t] = p
      /\ \A u \in Callers \ {t} : target'[u] = target[u] /\ pc'[u] = pc[u]
  BY DEF Awaits, AdminInv, TypeOK
<1>2. \A u \in Callers : target[u] \in Ids \cup {NoId}
  BY DEF AdminInv, TypeOK
<1>3. \A u \in Callers : pc[u] \in {"reloading", "writing"} => target[u] \in Ids
  BY DEF AdminInv, Pending
<1>4. \A u \in Callers : target'[u] # NoId => rows'[target'[u]] # NoRow
  BY <1>1, <1>2 DEF FoundIsLive
<1>5. ASSUME ~Overlap
      PROVE  /\ \A u, v \in Callers : u # v /\ target'[u] # NoId => target'[u] # target'[v]
             /\ \A u \in Callers : pc'[u] \in {"reloading", "writing"} =>
                   rows'[target'[u]] # NoRow /\ rows'[target'[u]].deletedAt = "null"
  <2>1. \A u, v \in Callers : u # v /\ target'[u] # NoId => target'[u] # target'[v]
    BY <1>1, <1>5 DEF FoundIsLive
  <2>2. ASSUME NEW u \in Callers, pc'[u] \in {"reloading", "writing"}
        PROVE  rows'[target'[u]] # NoRow /\ rows'[target'[u]].deletedAt = "null"
    <3>1. CASE u = t
      BY <1>1, <1>5, <2>2, <3>1
    <3>2. CASE u # t
      BY <1>1, <1>3, <1>5, <2>2, <3>2 DEF FoundIsLive, Live
    <3> QED
      BY <3>1, <3>2
  <2> QED
    BY <2>1, <2>2
<1> QED
  BY <1>4, <1>5 DEF FoundIsLive, Live

LEMMA FoundStaysLive == AdminInv /\ FoundIsLive /\ [Next]_vars => FoundIsLive'
<1> SUFFICES ASSUME AdminInv, FoundIsLive, [Next]_vars PROVE FoundIsLive'
  OBVIOUS
<1>1. ASSUME UNCHANGED <<rows, target, pc>>
      PROVE  FoundIsLive'
  BY <1>1 DEF FoundIsLive, Live
<1>2. ASSUME NEW t \in Callers, NEW c \in Codes, NEW s \in DtoStatuses \cup {Undefined},
             NEW k \in Configs \cup {Undefined, UnknownEntities}, CheckCode(t, c, s, k)
      PROVE  FoundIsLive'
  <2> DEFINE e == [code |-> c, status |-> Pick(s, "active"), deletedAt |-> "null",
                   entityConfig |-> Pick(k, BasicConfig)]
  <2>1. /\ UNCHANGED rows
        /\ \/ UNCHANGED callVars
           \/ Awaits(t, "inserting", "create", NoId, e)
    BY <1>2 DEF CheckCode, Answers
  <2> HIDE DEF e
  <2> QED
    BY <1>1, <2>1, GoingOnFound DEF callVars
<1>3. ASSUME NEW t \in Callers, NEW id \in Ids, NEW o, NEW dto, FindOne(t, o, id, dto)
      PROVE  FoundIsLive'
  <2>1. CASE ~Live(id) \/ Refused(o, id, dto)
    BY <1>1, <1>3, <2>1 DEF FindOne, Answers, callVars
  <2>2. CASE Live(id) /\ ~Refused(o, id, dto)
    <3>1. /\ UNCHANGED rows
          /\ ~Overlap => \A u \in Callers : target[u] # id
          /\ \E p, e : Awaits(t, p, o, id, e)
      BY <1>3, <2>2 DEF FindOne
    <3>2. rows[id] # NoRow /\ rows[id].deletedAt = "null"
      BY <2>2 DEF Live
    <3> QED
      BY <3>1, <3>2, GoingOnFound
  <2> QED
    BY <2>1, <2>2
<1>4. ASSUME NEW t \in Callers, Insert(t)
      PROVE  FoundIsLive'
  <2>1. CASE Taken(entity[t].code)
    <3>1. Settles(t, "bad request") /\ UNCHANGED rows
      BY <1>4, <2>1 DEF Insert
    <3> QED
      BY <3>1, SettlingFound
  <2>2. CASE ~Taken(entity[t].code)
    <3>1. NewId \in Ids /\ rows[NewId] = NoRow /\ rows' = [rows EXCEPT ![NewId] = entity[t]]
      BY <1>4, <2>2 DEF Insert, NewId
    <3>2. \/ Awaits(t, "provisioning", "create", NewId, entity[t])
          \/ Settles(t, "ok")
      BY <1>4, <2>2 DEF Insert
    <3> HIDE DEF NewId
    <3>3. entity[t] \in Row /\ entity[t] # NoRow
      BY <1>4, MarkersAssumption DEF Insert, AdminInv, Pending
    <3>4. /\ rows'[NewId] # NoRow
          /\ \A i \in Ids : rows[i] # NoRow => rows'[i] = rows[i]
      BY <3>1, <3>3 DEF AdminInv, TypeOK
    <3>5. \A u \in Callers : target[u] # NewId
      BY <3>1, MarkersAssumption DEF FoundIsLive
    <3> QED
      BY <3>1, <3>2, <3>4, <3>5, GoingOnFound, SettlingFound
  <2> QED
    BY <2>1, <2>2
<1>5. ASSUME NEW t \in Callers, Reload(t)
      PROVE  FoundIsLive'
  <2> DEFINE diff == Changed(entity[t], rows[target[t]])
  <2>1. UNCHANGED rows /\ pc[t] = "reloading" /\ target[t] \in Ids
    BY <1>5 DEF Reload, AdminInv, Pending
  <2>2. Settles(t, "ok") \/ Awaits(t, "writing", op[t], target[t], diff)
    BY <1>5 DEF Reload
  <2> HIDE DEF diff
  <2>3. CASE Settles(t, "ok")
    BY <2>1, <2>3, SettlingFound
  <2>4. CASE Awaits(t, "writing", op[t], target[t], diff)
    <3>1. rows[target[t]] # NoRow /\ target[t] # NoId
      BY <2>1, MarkersAssumption DEF FoundIsLive
    <3>2. ~Overlap => /\ rows[target[t]].deletedAt = "null"
                      /\ \A u \in Callers \ {t} : target[u] # target[t]
      BY <2>1, <3>1 DEF FoundIsLive, Live
    <3> QED
      BY <2>1, <2>4, <3>1, <3>2, GoingOnFound
  <2> QED
    BY <2>2, <2>3, <2>4
<1>6. ASSUME NEW t \in Callers, Write(t)
      PROVE  FoundIsLive'
  <2>1. (\E r : Settles(t, r)) /\ pc[t] = "writing"
    BY <1>6 DEF Write
  <2>2. /\ \A id \in Ids : rows[id] # NoRow => rows'[id] # NoRow
        /\ \A id \in Ids : rows[id] # NoRow /\ id # target[t] => rows'[id] = rows[id]
    <3>1. CASE CodeConflict(t)
      BY <1>6, <3>1 DEF Write
    <3>2. CASE ~CodeConflict(t)
      <4>1. rows' = [rows EXCEPT ![target[t]] = Patched(@, entity[t])]
        BY <1>6, <3>2 DEF Write
      <4>2. \A id \in Ids : rows[id] # NoRow => rows'[id] # NoRow
        BY <2>1, <3>2, <4>1, WriteEffect
      <4> QED
        BY <4>1, <4>2 DEF AdminInv, TypeOK
    <3> QED
      BY <3>1, <3>2
  <2> QED
    BY <2>1, <2>2, SettlingFound
<1>7. ASSUME NEW t \in Callers, CreateSchema(t) \/ QueryFails(t)
      PROVE  FoundIsLive'
  <2>1. (\E r : Settles(t, r)) /\ UNCHANGED rows
    BY <1>7 DEF CreateSchema, QueryFails
  <2> QED
    BY <2>1, SettlingFound
<1>8. CASE UNCHANGED vars
  BY <1>1, <1>8 DEF vars, callVars
<1> QED
  BY <1>2, <1>3, <1>4, <1>5, <1>6, <1>7, <1>8 DEF Next

LEMMA FoundInvariant == Spec => []FoundIsLive
<1>1. Init => FoundIsLive
  BY DEF Init, FoundIsLive
<1> QED
  BY <1>1, AdminInvariant, FoundStaysLive, PTL DEF Spec

\* Drizzle writes no null deletedAt, and where the calls for a row come one at
\* a time no call writes a row that was removed.
NeverRevives == OrmType = "drizzle" \/ ~Overlap

\* With Drizzle, or with TypeORM and calls for one row that do not overlap, a
\* removed or deactivated tenant never comes back: not by an activation, a
\* create of the same code or an update, and whatever query fails.
THEOREM Finality ==
    ASSUME NeverRevives
    PROVE  Spec => RemovedStaysRemoved
<1> DEFINE StaysAway(id) == rows[id] # NoRow /\ ~Live(id) => ~Live(id)'
<1>1. AdminInv /\ FoundIsLive /\ [Next]_vars => \A id \in Ids : StaysAway(id)
  <2> SUFFICES ASSUME AdminInv, FoundIsLive, [Next]_vars, NEW id \in Ids,
                      rows[id] # NoRow, ~Live(id), Live(id)'
               PROVE  FALSE
    OBVIOUS
  <2>1. PICK t \in Callers : /\ pc[t] = "writing" /\ target[t] = id
                             /\ entity[t].deletedAt = "null"
    BY RevivingStep
  <2> QED
    BY <2>1 DEF NeverRevives, AdminInv, OnlyUpdatesRevive, FoundIsLive
<1> QED
  BY <1>1, AdminInvariant, FoundInvariant, PTL DEF Spec, RemovedStaysRemoved

-----------------------------------------------------------------------------
(* The directory                                                           *)

Holds(r, id, c) == r[id] # NoRow /\ r[id].code = c
HoldsLive(r, id, c) == Holds(r, id, c) /\ r[id].deletedAt = "null"

\* What is found of a code in table r.
ViewOf(r, c) ==
    IF \E id \in Ids : HoldsLive(r, id, c)
    THEN r[CHOOSE id \in Ids : HoldsLive(r, id, c)].entityConfig
    ELSE IF \E id \in Ids : Holds(r, id, c) THEN Gone ELSE Never

\* It is what DirectoryView maps the table to, in this state and the next.
LEMMA ViewIsOfTable == DirectoryView = [c \in Codes |-> ViewOf(rows, c)]
<1>1. \A id \in Ids, c \in Codes : HoldsLive(rows, id, c) <=> Live(id) /\ rows[id].code = c
  BY DEF HoldsLive, Holds, Live
<1>2. \A c \in Codes : Taken(c) <=> \E id \in Ids : Holds(rows, id, c)
  BY DEF Holds, Taken
<1>3. \A c \in Codes : (CHOOSE id \in Ids : HoldsLive(rows, id, c))
                     = (CHOOSE id \in Ids : Live(id) /\ rows[id].code = c)
  BY DEF HoldsLive, Holds, Live
<1> QED
  BY <1>1, <1>2, <1>3 DEF DirectoryView, ViewOf

LEMMA ViewIsOfNextTable == DirectoryView' = [c \in Codes |-> ViewOf(rows', c)]
<1>1. \A id \in Ids, c \in Codes : HoldsLive(rows', id, c) <=> Live(id)' /\ rows'[id].code = c
  BY DEF HoldsLive, Holds, Live
<1>2. \A c \in Codes : Taken(c)' <=> \E id \in Ids : Holds(rows', id, c)
  BY DEF Holds, Taken
<1>3. \A c \in Codes : (CHOOSE id \in Ids : HoldsLive(rows', id, c))
                     = (CHOOSE id \in Ids : Live(id)' /\ rows'[id].code = c)
  BY DEF HoldsLive, Holds, Live
<1> QED
  BY <1>1, <1>2, <1>3 DEF DirectoryView, ViewOf

\* Codes are unique: the row that holds a code is what is found of it.
LEMMA ViewOfHeld ==
    ASSUME NEW r \in Tables, Unique(r), NEW id \in Ids, r[id] # NoRow
    PROVE  ViewOf(r, r[id].code) = IF r[id].deletedAt = "null" THEN r[id].entityConfig ELSE Gone
<1>1. \A i \in Ids : Holds(r, i, r[id].code) => i = id
  BY DEF Unique, Holds
<1>2. CASE r[id].deletedAt = "null"
  <2>1. HoldsLive(r, id, r[id].code)
    BY <1>2 DEF HoldsLive, Holds
  <2>2. (CHOOSE i \in Ids : HoldsLive(r, i, r[id].code)) = id
    BY <1>1, <2>1 DEF HoldsLive
  <2> QED
    BY <1>2, <2>1, <2>2 DEF ViewOf
<1>3. CASE r[id].deletedAt # "null"
  BY <1>1, <1>3 DEF ViewOf, HoldsLive, Holds
<1> QED
  BY <1>2, <1>3

\* Nothing is found of a code no row holds.
LEMMA ViewOfFree ==
    ASSUME NEW r, NEW c, \A id \in Ids : ~Holds(r, id, c)
    PROVE  ViewOf(r, c) = Never
BY DEF ViewOf, HoldsLive

\* A row that is written changes what is found of its code, and of no other.
LEMMA OneRowChanges ==
    ASSUME NEW r \in Tables, Unique(r), NEW s \in Tables, Unique(s), NEW id \in Ids,
           s[id] # NoRow, \A i \in Ids : i # id => s[i] = r[i],
           r[id] = NoRow \/ r[id].code = s[id].code,
           NEW c \in Codes
    PROVE  ViewOf(s, c) = IF c # s[id].code THEN ViewOf(r, c)
                          ELSE IF s[id].deletedAt = "null" THEN s[id].entityConfig ELSE Gone
<1> DEFINE v == s[id]
<1>1. v = s[id] /\ v # NoRow /\ \A i \in Ids : i # id => s[i] = r[i]
  OBVIOUS
<1> HIDE DEF v
<1>2. CASE c = v.code
  <2>1. ViewOf(s, s[id].code) = IF s[id].deletedAt = "null" THEN s[id].entityConfig ELSE Gone
    BY <1>1, ViewOfHeld
  <2> QED
    BY <1>1, <1>2, <2>1
<1>3. CASE c # v.code
  <2>1. CASE \E i \in Ids : Holds(r, i, c)
    <3>1. PICK i \in Ids : Holds(r, i, c)
      BY <2>1
    <3>2. i # id /\ s[i] = r[i]
      BY <1>1, <1>3, <3>1 DEF Holds
    <3>3. /\ ViewOf(r, c) = IF r[i].deletedAt = "null" THEN r[i].entityConfig ELSE Gone
          /\ ViewOf(s, c) = IF s[i].deletedAt = "null" THEN s[i].entityConfig ELSE Gone
      BY <3>1, <3>2, ViewOfHeld DEF Holds
    <3> QED
      BY <1>1, <1>3, <3>2, <3>3
  <2>2. CASE ~\E i \in Ids : Holds(r, i, c)
    <3>1. \A i \in Ids : ~Holds(s, i, c)
      BY <1>1, <1>3, <2>2 DEF Holds
    <3> QED
      BY <1>1, <1>3, <2>2, <3>1, ViewOfFree
  <2> QED
    BY <2>1, <2>2
<1> QED
  BY <1>2, <1>3 DEF v

\* What a step makes others find, where no update carries a code: it
\* provisions a code, or writes the row of one.
LEMMA ViewStep ==
    ASSUME AdminInv, FoundIsLive, [Next]_vars, KeepsCodes
    PROVE  \/ UNCHANGED DirectoryView
           \/ \E c \in Codes, k \in Configs :
                 /\ DirectoryView[c] = Never
                 /\ DirectoryView' = [DirectoryView EXCEPT ![c] = k]
           \/ \E c \in Codes, k \in Configs :
                 /\ DirectoryView[c] \in Configs
                 /\ DirectoryView' = [DirectoryView EXCEPT ![c] = k]
           \/ \E c \in Codes :
                 /\ DirectoryView[c] \in Configs \cup {Gone}
                 /\ DirectoryView' = [DirectoryView EXCEPT ![c] = Gone]
           \/ /\ ~NeverRevives
              /\ \E c \in Codes, k \in Configs : DirectoryView' = [DirectoryView EXCEPT ![c] = k]
<1>1. /\ DirectoryView = [c \in Codes |-> ViewOf(rows, c)]
      /\ DirectoryView' = [c \in Codes |-> ViewOf(rows', c)]
  BY ViewIsOfTable, ViewIsOfNextTable
<1>2. rows \in Tables /\ Unique(rows)
  BY DEF AdminInv, TypeOK, Tables
<1>3. AdminInv'
  BY AdminStep
<1>4. rows' \in Tables /\ Unique(rows')
  BY <1>3 DEF AdminInv, TypeOK, Tables
<1> HIDE DEF DirectoryView
<1>5. CASE UNCHANGED rows
  BY <1>1, <1>5
<1>6. CASE \E id \in Ids, t \in Callers :
              /\ rows[id] = NoRow /\ ~Taken(entity[t].code)
              /\ entity[t] \in Row /\ entity[t].deletedAt = "null"
              /\ rows' = [rows EXCEPT ![id] = entity[t]]
  <2>1. PICK id \in Ids, t \in Callers :
              /\ rows[id] = NoRow /\ ~Taken(entity[t].code)
              /\ entity[t] \in Row /\ entity[t].deletedAt = "null"
              /\ rows' = [rows EXCEPT ![id] = entity[t]]
    BY <1>6
  <2> DEFINE v == entity[t]
  <2>2. v.code \in Codes /\ v.entityConfig \in Configs /\ v.deletedAt = "null"
    BY <2>1 DEF Row
  <2>3. ViewOf(rows, v.code) = Never
    BY <2>1, ViewOfFree DEF Taken, Holds
  <2>4. \A c \in Codes : ViewOf(rows', c) = IF c # v.code THEN ViewOf(rows, c) ELSE v.entityConfig
    <3>1. /\ rows'[id] = v /\ v # NoRow /\ rows[id] = NoRow
          /\ \A i \in Ids : i # id => rows'[i] = rows[i]
      BY <1>2, <2>1, MarkersAssumption DEF Tables
    <3> HIDE DEF v
    <3> TAKE c \in Codes
    <3> QED
      BY <1>2, <1>4, <2>2, <3>1, OneRowChanges
  <2> HIDE DEF v
  <2>5. DirectoryView[v.code] = Never
    BY <1>1, <2>2, <2>3
  <2>6. DirectoryView' = [DirectoryView EXCEPT ![v.code] = v.entityConfig]
    BY <1>1, <2>2, <2>4
  <2> QED
    BY <2>2, <2>5, <2>6
<1>7. CASE \E t \in Callers :
              /\ pc[t] = "writing"
              /\ ~CodeConflict(t)
              /\ rows' = [rows EXCEPT ![target[t]] = Patched(@, entity[t])]
  <2>1. PICK t \in Callers :
              /\ pc[t] = "writing"
              /\ ~CodeConflict(t)
              /\ rows' = [rows EXCEPT ![target[t]] = Patched(@, entity[t])]
    BY <1>7
  <2> DEFINE id == target[t]
             old == rows[id]
             v == Patched(old, entity[t])
  <2>2. /\ id \in Ids /\ old \in Row /\ old # NoRow /\ entity[t] \in Patch
        /\ v \in Row /\ rows' = [rows EXCEPT ![id] = v]
    BY <2>1, WriteEffect
  <2>3. /\ entity[t].code = Undefined
        /\ OrmType = "drizzle" => entity[t].deletedAt # "null"
        /\ ~Overlap => old.deletedAt = "null"
    BY <2>1 DEF AdminInv, CodesAreKept, OnlyUpdatesRevive, FoundIsLive, Live
  <2>4. v.code = old.code /\ v.deletedAt = Pick(entity[t].deletedAt, old.deletedAt)
    BY <2>2, <2>3, PatchedRow
  <2>5. NeverRevives /\ v.deletedAt = "null" => old.deletedAt = "null"
    BY <2>3, <2>4 DEF Pick, NeverRevives
  <2> HIDE DEF v
  <2>6. /\ v.code \in Codes /\ v.entityConfig \in Configs /\ old.code \in Codes
        /\ old.entityConfig \in Configs
    BY <2>2 DEF Row
  <2>7. ViewOf(rows, v.code) = IF old.deletedAt = "null" THEN old.entityConfig ELSE Gone
    BY <1>2, <2>2, <2>4, ViewOfHeld
  <2> HIDE DEF old, id
  <2>8. \A c \in Codes :
           ViewOf(rows', c) = IF c # v.code THEN ViewOf(rows, c)
                              ELSE IF v.deletedAt = "null" THEN v.entityConfig ELSE Gone
    <3>1. /\ id \in Ids /\ rows'[id] = v /\ v # NoRow /\ rows[id].code = v.code
          /\ \A i \in Ids : i # id => rows'[i] = rows[i]
      BY <1>2, <2>2, <2>4, MarkersAssumption DEF old, Tables
    <3> TAKE c \in Codes
    <3> QED
      BY <1>2, <1>4, <3>1, OneRowChanges
  <2>9. /\ DirectoryView[v.code] = IF old.deletedAt = "null" THEN old.entityConfig ELSE Gone
        /\ DirectoryView' = [DirectoryView EXCEPT ![v.code] =
                                IF v.deletedAt = "null" THEN v.entityConfig ELSE Gone]
    BY <1>1, <2>6, <2>7, <2>8
  <2>10. CASE v.deletedAt # "null"
    BY <2>6, <2>9, <2>10
  <2>11. CASE v.deletedAt = "null" /\ old.deletedAt = "null"
    BY <2>6, <2>9, <2>11
  <2>12. CASE v.deletedAt = "null" /\ old.deletedAt # "null"
    BY <2>5, <2>6, <2>9, <2>12
  <2> QED
    BY <2>10, <2>11, <2>12
<1> QED
  BY <1>5, <1>6, <1>7, RowsStep

\* At first no code has been used.
LEMMA ViewInit == Init => DirectoryView = [c \in Codes |-> Never]
BY ViewIsOfTable, ViewOfFree DEF Init, Holds

\* The services implement the directory: a code is provisioned once, keeps
\* naming its tenant until it is removed or deactivated, and never names one
\* again.  With Drizzle that is so however calls overlap and fail; with TypeORM
\* where no update carries a code and the calls for one row do not overlap.
THEOREM Implementation ==
    ASSUME NeverRevives, KeepsCodes
    PROVE  Spec => ImplementsDirectory
<1>1. Init => Directory!Init
  BY ViewInit DEF Directory!Init
<1>2. AdminInv /\ FoundIsLive /\ [Next]_vars => [Directory!Next]_DirectoryView
  <2> SUFFICES ASSUME AdminInv, FoundIsLive, [Next]_vars
               PROVE  [Directory!Next]_DirectoryView
    OBVIOUS
  <2> HIDE DEF DirectoryView
  <2>2. CASE \E c \in Codes : /\ DirectoryView[c] \in Configs \cup {Gone}
                             /\ DirectoryView' = [DirectoryView EXCEPT ![c] = Gone]
    <3>1. PICK c \in Codes : /\ DirectoryView[c] \in Configs \cup {Gone}
                            /\ DirectoryView' = [DirectoryView EXCEPT ![c] = Gone]
      BY <2>2
    <3>2. CASE DirectoryView[c] = Gone
      <4>1. DirectoryView = [d \in Codes |-> DirectoryView[d]]
        BY ViewIsOfTable
      <4> QED
        BY <3>1, <3>2, <4>1
    <3>3. CASE DirectoryView[c] \in Configs
      BY <3>1, <3>3 DEF Directory!Next, Directory!Retire
    <3> QED
      BY <3>1, <3>2, <3>3
  <2> QED
    BY <2>2, ViewStep DEF Directory!Next, Directory!Provision, Directory!Reconfigure
<1> QED
  BY <1>1, <1>2, AdminInvariant, FoundInvariant, PTL DEF Spec, ImplementsDirectory, Directory!Spec

\* With either, where no update carries a code, a step changes what is found
\* of one tenant only: what the connection pool is modelled to run beside.
THEOREM OneTenantChanges ==
    ASSUME ~Renames
    PROVE  Spec => ChangesOneTenant
<1>1. Init => Directory!Init
  BY ViewInit DEF Directory!Init
<1>2. AdminInv /\ FoundIsLive /\ [Next]_vars =>
         [\E c \in Codes : Directory!Change(c)]_DirectoryView
  <2> SUFFICES ASSUME AdminInv, FoundIsLive, [Next]_vars
               PROVE  [\E c \in Codes : Directory!Change(c)]_DirectoryView
    OBVIOUS
  <2>1. KeepsCodes
    BY DEF KeepsCodes
  <2> HIDE DEF DirectoryView
  <2> QED
    BY <2>1, ViewStep DEF Directory!Change
<1> QED
  BY <1>1, <1>2, AdminInvariant, FoundInvariant, PTL DEF Spec, ChangesOneTenant, Directory!LooseSpec
=============================================================================
