--------------------------- MODULE ConnectionPool ---------------------------
(***************************************************************************)
(* One instance of TenantConnectionService: the pool of tenant             *)
(* connections, the calls that overlap on it and the connections the ORM   *)
(* strategy opens and destroys for it.                                     *)
(*                                                                         *)
(* Node runs one piece of JavaScript at a time, so an action below is what *)
(* runs between two awaits.  The awaits are the validation strategy's      *)
(* query or request, the strategy's createConnection and the strategy's    *)
(* destroyConnection.                                                      *)
(*                                                                         *)
(* A task is one asynchronous activation of the service: a call of         *)
(* getConnectionForSchema, removeConnection or closeAllConnections, or one *)
(* tick of the cleanup timer.  A connection is a TypeORM DataSource or a   *)
(* Drizzle database with its pg Pool.                                      *)
(***************************************************************************)
EXTENDS Naturals, FiniteSets, Sequences, SequencesExt

CONSTANTS
    Schemas,         \* schema names
    Unvalidated,     \* the names that skip validation: 'public', 'default'
    Public,          \* the name that skips the entity configuration: 'public'
    Requested,       \* the schemas the callers ask for (bound)
    Administered,    \* the schemas whose tenant row changes (bound)
    Closable,        \* somebody calls closeAllConnections (bound)
    Conns,           \* connection identities (bound on live connections)
    Tasks,           \* activations of the service alive at once (bound)
    MaxConnections,  \* poolConfig.maxConnections
    EnableCleanup,   \* poolConfig.enableCleanup
    OrmType,         \* "typeorm" or "drizzle"
    Validator,       \* "local", "remote" or "none" (no strategy injected)
    Configs,         \* values of a row's entityConfig.enabledEntities
    DefaultConfig,   \* ['user', 'role']
    AllEntities,     \* no entity list is handed to the ORM
    NoConfig,        \* a row without enabledEntities
    Absent,          \* no live row for the code
    NoAnswer,        \* the validation strategy has not answered yet
    NoSchema, NoConn,
    DestroyMayFail,  \* destroying an open connection may reject
    PathMayFail,     \* Drizzle's SET search_path may reject
    Overlap          \* FALSE: the callers serialise their calls, see MayStart

Rows == Configs \cup {NoConfig, Absent}

ASSUME NamesAssumption ==
    /\ Unvalidated \subseteq Schemas
    /\ Public \in Unvalidated
    /\ Requested \subseteq Schemas
    /\ Administered \subseteq Schemas
    /\ NoSchema \notin Schemas

ASSUME ConnsAssumption == NoConn \notin Conns

ASSUME OptionsAssumption ==
    /\ MaxConnections \in Nat \ {0}
    /\ EnableCleanup \in BOOLEAN
    /\ OrmType \in {"typeorm", "drizzle"}
    /\ Validator \in {"local", "remote", "none"}
    /\ {DestroyMayFail, PathMayFail, Overlap, Closable} \subseteq BOOLEAN

ASSUME ConfigsAssumption ==
    /\ NoAnswer \notin Rows
    /\ Absent \notin Configs \cup {NoConfig}

VARIABLES
    pool,      \* connectionPool: the Map's entries in insertion order
    timer,     \* cleanupTimer is running
    cstate,    \* what became of each connection
    cschema,   \* the schema each connection was opened for
    cents,     \* the entities each connection was opened with
    tenants,   \* the tenants table: the live row of each code
    pc,        \* where each task awaits
    req,       \* the schema the task was called with
    answer,    \* what the validation strategy answered
    todo,      \* the entries left to a task's loop; the head is being destroyed
    outcome,   \* how the destruction of the head proceeds
    closing,   \* the destructions a closeAllConnections awaits
    held,      \* the connection the call returned, while its caller uses it
    seen       \* history: the rows the tenant had since the call began

connVars == <<cstate, cschema, cents>>
loopVars == <<todo, outcome>>
callVars == <<pc, req, answer, held, seen>>
vars == <<pool, timer, connVars, tenants, callVars, loopVars, closing>>

CStates == {"unused", "open", "ending", "ended", "failed"}
Outcomes == {"none", "io", "done", "reject"}
Points == {"idle", "checking", "evicting", "loading", "creating", "using",
           "removing", "sweeping", "closing"}
Entries == [schema : Schemas, conn : Conns]

-----------------------------------------------------------------------------
(* The Map from schema to connection, as the sequence of its entries.      *)

Has(m, s) == \E i \in DOMAIN m : m[i].schema = s

KeyIndex(m, s) == CHOOSE i \in DOMAIN m : m[i].schema = s

MapGet(m, s) == m[KeyIndex(m, s)].conn

\* Setting a key that is there keeps its place in the order.
MapSet(m, s, c) ==
    LET e == [schema |-> s, conn |-> c]
    IN  IF Has(m, s) THEN [m EXCEPT ![KeyIndex(m, s)] = e] ELSE Append(m, e)

MapDelete(m, s) == IF Has(m, s) THEN RemoveAt(m, KeyIndex(m, s)) ELSE m

PoolConns == {pool[i].conn : i \in DOMAIN pool}

-----------------------------------------------------------------------------
(* The ORM strategies.                                                     *)

\* isInitialized, which DataSource.destroy clears when it has finished.
TypeOrmValid(c) == cstate[c] # "ended"

\* There is a Pool object.
DrizzleValid(c) == cstate[c] # "unused"

IsConnectionValid(c) == IF OrmType = "typeorm" THEN TypeOrmValid(c) ELSE DrizzleValid(c)

\* Fault: a destruction that has begun is begun again.
TypeOrmDestroy_Again(st) ==
    CASE st \in {"open", "ending"} -> "io"
      [] st = "ended" -> "done"
      [] OTHER -> "reject"

\* What destroyConnection does at once with a connection in state st: start
\* the I/O ("io"), return because the DataSource is not initialised ("done"),
\* or reject because the pg Pool behind it was told to end before ("reject").
TypeOrmDestroy(st) ==
    CASE st = "open" -> "io"
      [] st = "ended" -> "done"
      [] OTHER -> "reject"

DrizzleDestroy(st) == IF st = "open" THEN "io" ELSE "reject"

DestroyOutcome(cs, c) ==
    IF OrmType = "typeorm" THEN TypeOrmDestroy(cs[c]) ELSE DrizzleDestroy(cs[c])

\* The destructions that task t is waiting for.
AwaitedBy(t) ==
    closing[t] \cup (IF outcome[t] = "io" THEN {Head(todo[t]).conn} ELSE {})

Awaited(c) == \E t \in Tasks : c \in AwaitedBy(t)

Referenced(c) ==
    \/ c \in PoolConns
    \/ \E t \in Tasks : \/ held[t] = c
                        \/ c \in closing[t]
                        \/ \E i \in DOMAIN todo[t] : todo[t][i].conn = c

\* A new connection object: an identity never used, or one whose connection
\* ended and that nothing refers to any more.
FreeConns == {c \in Conns : cstate[c] \in {"unused", "ended"} /\ ~Referenced(c)}
FreshConn == CHOOSE c \in FreeConns : TRUE

OpenConn(c, s, es) ==
    /\ cstate'  = [cstate EXCEPT ![c] = "open"]
    /\ cschema' = [cschema EXCEPT ![c] = s]
    /\ cents'   = [cents EXCEPT ![c] = es]

-----------------------------------------------------------------------------
(* The initial state: an empty pool, the timer started by the constructor. *)

Init ==
    /\ pool = <<>>
    /\ timer = EnableCleanup
    /\ cstate = [c \in Conns |-> "unused"]
    /\ cschema = [c \in Conns |-> NoSchema]
    /\ cents = [c \in Conns |-> AllEntities]
    /\ tenants \in [Schemas -> Rows]
    /\ \A s \in Schemas \ Administered : tenants[s] = NoConfig
    /\ pc = [t \in Tasks |-> "idle"]
    /\ req = [t \in Tasks |-> NoSchema]
    /\ answer = [t \in Tasks |-> NoAnswer]
    /\ todo = [t \in Tasks |-> <<>>]
    /\ outcome = [t \in Tasks |-> "none"]
    /\ closing = [t \in Tasks |-> {}]
    /\ held = [t \in Tasks |-> NoConn]
    /\ seen = [t \in Tasks |-> {}]

Validates(s) == s \notin Unvalidated /\ Validator # "none"

\* Fault: the tenant's row is never asked for.
CreateStage_Skip(s) == "creating"

\* createConnection asks for the tenant's row, unless the schema is 'public'
\* or there is no strategy to ask.
CreateStage(s) ==
    IF s = Public \/ Validator = "none" THEN "creating" ELSE "loading"

\* Fault: no default for a row without a configuration.
EntitiesFor_NoDefault(s, row) == IF s = Public THEN AllEntities ELSE row

\* The entities a connection of schema s gets from the row findByCode answered.
\* Drizzle's strategy takes no entity list.
EntitiesFor(s, row) ==
    IF OrmType = "drizzle" \/ s = Public THEN AllEntities
    ELSE IF row \in Configs THEN row ELSE DefaultConfig

AtLimit(m) == Len(m) >= MaxConnections

\* Math.floor(maxConnections * 0.1)
CleanupBatch == MaxConnections \div 10

\* The snapshot cleanupOldConnections works through.
OldEntries(m) ==
    SubSeq(m, 1, IF CleanupBatch < Len(m) THEN CleanupBatch ELSE Len(m))

SweepDue == Len(pool) * 10 > MaxConnections * 8

\* An await whose promise is already settled resumes before Node takes up any
\* other event.
Quiet == \A t \in Tasks : outcome[t] \in {"none", "io"}

\* The callers' discipline when Overlap is FALSE: one call per schema at a
\* time, and closeAllConnections only when nothing else runs.
MayStart(t, s) ==
    /\ Quiet
    /\ pc[t] = "idle"
    /\ Overlap \/ \A u \in Tasks : /\ pc[u] # "closing"
                                   /\ pc[u] \in {"idle", "using"} \/ req[u] # s

\* The call of task t settles and leaves nothing behind.
Settles(t) ==
    /\ pc' = [pc EXCEPT ![t] = "idle"]
    /\ req' = [req EXCEPT ![t] = NoSchema]
    /\ answer' = [answer EXCEPT ![t] = NoAnswer]
    /\ held' = [held EXCEPT ![t] = NoConn]
    /\ seen' = [seen EXCEPT ![t] = {}]

\* The call of task t resolves to connection c.
Returns(t, c) ==
    /\ pc' = [pc EXCEPT ![t] = "using"]
    /\ answer' = [answer EXCEPT ![t] = NoAnswer]
    /\ held' = [held EXCEPT ![t] = c]
    /\ UNCHANGED <<req, seen>>

\* The call of task t goes on to await at point p.
Awaits(t, p) ==
    /\ pc' = [pc EXCEPT ![t] = p]
    /\ answer' = [answer EXCEPT ![t] = NoAnswer]
    /\ UNCHANGED <<req, held, seen>>

\* A loop calls destroyConnection for the head of q and awaits it, cs being
\* what has become of the connections so far.
DestroyHead(t, q, cs) ==
    LET c == Head(q).conn
        o == DestroyOutcome(cs, c)
    IN  /\ todo' = [todo EXCEPT ![t] = q]
        /\ outcome' = [outcome EXCEPT ![t] = o]
        /\ cstate' = IF o = "io" THEN [cs EXCEPT ![c] = "ending"] ELSE cs

EndLoop(t, cs) ==
    /\ todo' = [todo EXCEPT ![t] = <<>>]
    /\ outcome' = [outcome EXCEPT ![t] = "none"]
    /\ cstate' = cs

-----------------------------------------------------------------------------
(* getConnectionForSchema                                                  *)

StartGet(t, s) ==
    /\ MayStart(t, s)
    /\ pc' = [pc EXCEPT ![t] = "checking"]
    /\ req' = [req EXCEPT ![t] = s]
    /\ seen' = [seen EXCEPT ![t] = {tenants[s]}]
    /\ UNCHANGED <<answer, held, pool, timer, connVars, tenants, loopVars, closing>>

\* The moment the tenant's row is read for validateTenantExists; the call
\* resumes later, when the answer arrives.
ReadForCheck(t) ==
    /\ Quiet
    /\ pc[t] = "checking"
    /\ Validates(req[t])
    /\ answer[t] = NoAnswer
    /\ answer' = [answer EXCEPT ![t] = tenants[req[t]]]
    /\ UNCHANGED <<pc, req, held, seen, pool, timer, connVars, tenants, loopVars, closing>>

\* The row is read for findByCode.  The answer changes nothing but the call's
\* own state, so the call goes on to createConnection at once.
ReadForConfig(t) ==
    /\ Quiet
    /\ pc[t] = "loading"
    /\ pc' = [pc EXCEPT ![t] = "creating"]
    /\ answer' = [answer EXCEPT ![t] = tenants[req[t]]]
    /\ UNCHANGED <<req, held, seen, pool, timer, connVars, tenants, loopVars, closing>>

\* Fault: an error of the remote service lets everybody in.
ReadFails_Admits(t) ==
    /\ Quiet
    /\ pc[t] = "checking" /\ answer[t] = NoAnswer
    /\ answer' = [answer EXCEPT ![t] = NoConfig]
    /\ UNCHANGED <<pc, req, held, seen, pool, timer, connVars, tenants, loopVars, closing>>

\* The remote strategy turns every error into "no such tenant" and
\* "no such row"; the local ones let it reject the call.
ReadFails(t) ==
    /\ Quiet
    /\ \/ pc[t] = "checking" /\ Validates(req[t]) /\ answer[t] = NoAnswer
       \/ pc[t] = "loading"
    /\ IF Validator = "remote"
       THEN /\ pc' = [pc EXCEPT ![t] = IF @ = "loading" THEN "creating" ELSE @]
            /\ answer' = [answer EXCEPT ![t] = Absent]
            /\ UNCHANGED <<req, held, seen>>
       ELSE Settles(t)
    /\ UNCHANGED <<pool, timer, connVars, tenants, loopVars, closing>>

NotFound(t) ==
    /\ Quiet
    /\ pc[t] = "checking"
    /\ answer[t] = Absent
    /\ Settles(t)
    /\ UNCHANGED <<pool, timer, connVars, tenants, loopVars, closing>>

\* Fault: any answer admits the call.
Admitted_Any(t) ==
    /\ Quiet
    /\ pc[t] = "checking"
    /\ Validates(req[t]) => answer[t] # NoAnswer

\* The call may go on to the pool: the tenant was validated or needs not be.
Admitted(t) ==
    /\ Quiet
    /\ pc[t] = "checking"
    /\ Validates(req[t]) => answer[t] \notin {NoAnswer, Absent}

PoolHit(t) ==
    /\ Admitted(t)
    /\ Has(pool, req[t])
    /\ IsConnectionValid(MapGet(pool, req[t]))
    /\ Returns(t, MapGet(pool, req[t]))
    /\ UNCHANGED <<pool, timer, connVars, tenants, loopVars, closing>>

\* No entry, or an invalid one that is dropped: clean up first when the pool
\* is full, and go on to create a connection.
PoolMiss(t) ==
    /\ Admitted(t)
    /\ Has(pool, req[t]) => ~IsConnectionValid(MapGet(pool, req[t]))
    /\ pool' = MapDelete(pool, req[t])
    /\ IF AtLimit(pool') /\ CleanupBatch > 0
       THEN /\ Awaits(t, "evicting")
            /\ DestroyHead(t, OldEntries(pool'), cstate)
       ELSE /\ Awaits(t, CreateStage(req[t]))
            /\ UNCHANGED <<cstate, loopVars>>
    /\ UNCHANGED <<timer, cschema, cents, tenants, closing>>

\* Fault: the schema is kept in a field that all calls share.
CreateSucceeds_Shared(t) ==
    /\ Quiet
    /\ pc[t] = "creating"
    /\ FreeConns # {}
    /\ \E u \in Tasks :
          /\ req[u] # NoSchema
          /\ OpenConn(FreshConn, req[u], EntitiesFor(req[t], answer[t]))
    /\ pool' = MapSet(pool, req[t], FreshConn)
    /\ Returns(t, FreshConn)
    /\ UNCHANGED <<timer, tenants, loopVars, closing>>

CreateSucceeds(t) ==
    /\ Quiet
    /\ pc[t] = "creating"
    /\ FreeConns # {}
    /\ OpenConn(FreshConn, req[t], EntitiesFor(req[t], answer[t]))
    /\ pool' = MapSet(pool, req[t], FreshConn)
    /\ Returns(t, FreshConn)
    /\ UNCHANGED <<timer, tenants, loopVars, closing>>

\* When SET search_path rejects, Drizzle's strategy leaves behind a Pool with
\* a client checked out.
DrizzleLeaves(s) ==
    /\ OrmType = "drizzle"
    /\ PathMayFail
    /\ FreeConns # {}
    /\ OpenConn(FreshConn, s, AllEntities)

CreateFails(t) ==
    /\ Quiet
    /\ pc[t] = "creating"
    /\ Settles(t)
    /\ UNCHANGED connVars \/ DrizzleLeaves(req[t])
    /\ UNCHANGED <<pool, timer, tenants, loopVars, closing>>

\* The caller has finished with the connection.  It is not told to the pool.
Release(t) ==
    /\ Quiet
    /\ pc[t] = "using"
    /\ Settles(t)
    /\ UNCHANGED <<pool, timer, connVars, tenants, loopVars, closing>>

-----------------------------------------------------------------------------
(* cleanupOldConnections, performScheduledCleanup and removeConnection     *)

SweepTick(t) ==
    /\ Quiet
    /\ timer
    /\ pc[t] = "idle"
    /\ Overlap \/ \A u \in Tasks : pc[u] # "closing"
    /\ SweepDue
    /\ CleanupBatch > 0
    /\ pc' = [pc EXCEPT ![t] = "sweeping"]
    /\ DestroyHead(t, OldEntries(pool), cstate)
    /\ UNCHANGED <<req, answer, held, seen, pool, timer, cschema, cents, tenants, closing>>

StartRemove(t, s) ==
    /\ MayStart(t, s)
    /\ Has(pool, s)
    /\ pc' = [pc EXCEPT ![t] = "removing"]
    /\ req' = [req EXCEPT ![t] = s]
    /\ DestroyHead(t, <<[schema |-> s, conn |-> MapGet(pool, s)]>>, cstate)
    /\ UNCHANGED <<answer, held, seen, pool, timer, cschema, cents, tenants, closing>>

\* Fault: the loop's index does not move.
NextEntry_Stuck(t, cs) == DestroyHead(t, todo[t], cs) /\ UNCHANGED callVars

\* The loop of task t takes up the entry after the head.
NextEntry(t, cs) ==
    LET q == Tail(todo[t])
    IN  IF q # <<>> THEN DestroyHead(t, q, cs) /\ UNCHANGED callVars
        ELSE /\ EndLoop(t, cs)
             /\ IF pc[t] = "evicting" THEN Awaits(t, CreateStage(req[t]))
                ELSE Settles(t)

\* destroyConnection resolves: the key is deleted, whatever it maps to now.
DestroyResolves(t) ==
    LET e == Head(todo[t])
    IN  /\ outcome[t] = "done" \/ (outcome[t] = "io" /\ Quiet)
        /\ pool' = MapDelete(pool, e.schema)
        /\ NextEntry(t, IF outcome[t] = "io" THEN [cstate EXCEPT ![e.conn] = "ended"]
                        ELSE cstate)
        /\ UNCHANGED <<timer, cschema, cents, tenants, closing>>

\* Fault: the entry is deleted although its connection was not destroyed.
DestroyRejects_Deletes(t) ==
    LET e == Head(todo[t])
    IN  /\ outcome[t] = "reject" \/ (outcome[t] = "io" /\ DestroyMayFail /\ Quiet)
        /\ pool' = MapDelete(pool, e.schema)
        /\ NextEntry(t, IF outcome[t] = "io" THEN [cstate EXCEPT ![e.conn] = "failed"]
                        ELSE cstate)
        /\ UNCHANGED <<timer, cschema, cents, tenants, closing>>

\* destroyConnection rejects: the error is logged and the entry stays.
DestroyRejects(t) ==
    LET e == Head(todo[t])
    IN  /\ outcome[t] = "reject" \/ (outcome[t] = "io" /\ DestroyMayFail /\ Quiet)
        /\ NextEntry(t, IF outcome[t] = "io" THEN [cstate EXCEPT ![e.conn] = "failed"]
                        ELSE cstate)
        /\ UNCHANGED <<pool, timer, cschema, cents, tenants, closing>>

-----------------------------------------------------------------------------
(* closeAllConnections: all destructions start together; Promise.all       *)
(* rejects with the first that rejects, and then the pool is not cleared.  *)

StartClose(t) ==
    LET rejects == \E c \in PoolConns : DestroyOutcome(cstate, c) = "reject"
        begun   == {c \in PoolConns : DestroyOutcome(cstate, c) = "io"}
    IN  /\ Quiet
        /\ Closable
        /\ pc[t] = "idle"
        /\ Overlap \/ \A u \in Tasks : pc[u] \in {"idle", "using"}
        /\ timer' = FALSE
        /\ cstate' = [c \in Conns |-> IF c \in begun THEN "ending" ELSE cstate[c]]
        /\ IF rejects \/ begun = {}
           THEN /\ pool' = IF rejects THEN pool ELSE <<>>
                /\ UNCHANGED <<pc, closing>>
           ELSE /\ pc' = [pc EXCEPT ![t] = "closing"]
                /\ closing' = [closing EXCEPT ![t] = begun]
                /\ UNCHANGED pool
        /\ UNCHANGED <<req, answer, held, seen, cschema, cents, tenants, loopVars>>

CloseResolves(t, c) ==
    /\ Quiet
    /\ c \in closing[t]
    /\ cstate' = [cstate EXCEPT ![c] = "ended"]
    /\ closing' = [closing EXCEPT ![t] = @ \ {c}]
    /\ IF closing[t] = {c}
       THEN pool' = <<>> /\ Settles(t)
       ELSE UNCHANGED <<pool, callVars>>
    /\ UNCHANGED <<timer, cschema, cents, tenants, loopVars>>

\* Fault: the pool is cleared although a destruction failed.
CloseRejects_Clears(t, c) ==
    /\ Quiet
    /\ DestroyMayFail
    /\ c \in closing[t]
    /\ cstate' = [cstate EXCEPT ![c] = "failed"]
    /\ closing' = [closing EXCEPT ![t] = {}]
    /\ pool' = <<>>
    /\ Settles(t)
    /\ UNCHANGED <<timer, cschema, cents, tenants, loopVars>>

\* Fault: a failed destruction is not reported to closeAllConnections.
CloseRejects_Silent(t, c) ==
    /\ Quiet
    /\ DestroyMayFail
    /\ c \in closing[t]
    /\ cstate' = [cstate EXCEPT ![c] = "failed"]
    /\ closing' = [closing EXCEPT ![t] = @ \ {c}]
    /\ UNCHANGED <<pool, timer, cschema, cents, tenants, callVars, loopVars>>

CloseRejects(t, c) ==
    /\ Quiet
    /\ DestroyMayFail
    /\ c \in closing[t]
    /\ cstate' = [cstate EXCEPT ![c] = "failed"]
    /\ closing' = [closing EXCEPT ![t] = {}]
    /\ Settles(t)
    /\ UNCHANGED <<pool, timer, cschema, cents, tenants, loopVars>>

\* A destruction whose closeAllConnections has already rejected goes on.
DetachedSettles(c) ==
    /\ Quiet
    /\ cstate[c] = "ending"
    /\ ~Awaited(c)
    /\ \E st \in IF DestroyMayFail THEN {"ended", "failed"} ELSE {"ended"} :
          cstate' = [cstate EXCEPT ![c] = st]
    /\ UNCHANGED <<pool, timer, cschema, cents, tenants, callVars, loopVars, closing>>

-----------------------------------------------------------------------------
(* The admin module commits a new row, a new configuration or a removal.   *)

AdminCommit(s, row) ==
    /\ Quiet
    /\ tenants[s] # row
    /\ tenants' = [tenants EXCEPT ![s] = row]
    /\ seen' = [t \in Tasks |-> IF req[t] = s /\ pc[t] \notin {"idle", "removing"}
                                THEN seen[t] \cup {row} ELSE seen[t]]
    /\ UNCHANGED <<pool, timer, connVars, pc, req, answer, held, loopVars, closing>>

-----------------------------------------------------------------------------

Get(t) ==
    \/ ReadForCheck(t) \/ ReadForConfig(t) \/ ReadFails(t) \/ NotFound(t)
    \/ PoolHit(t) \/ PoolMiss(t) \/ CreateSucceeds(t) \/ CreateFails(t)

Destroy(t) == DestroyResolves(t) \/ DestroyRejects(t)

Close(t) == \E c \in Conns : CloseResolves(t, c) \/ CloseRejects(t, c)

Next ==
    \/ \E t \in Tasks :
          \/ \E s \in Requested : StartGet(t, s) \/ StartRemove(t, s)
          \/ Get(t)
          \/ Release(t)
          \/ SweepTick(t)
          \/ Destroy(t)
          \/ StartClose(t)
          \/ Close(t)
    \/ \E c \in Conns : DetachedSettles(c)
    \/ \E s \in Administered, row \in Rows : AdminCommit(s, row)

Spec == Init /\ [][Next]_vars

\* Queries, creations and destructions settle in the end, and Node takes up
\* every settled one although continuations (~Quiet) go first each time.
\* Callers need not call, timers need not tick, holders need not finish.
Fairness == \A t \in Tasks : SF_vars(Get(t) \/ Destroy(t) \/ Close(t))

FairSpec == Spec /\ Fairness

-----------------------------------------------------------------------------
(* Properties                                                              *)

\* Every variable has its type.
TypeOK ==
    /\ pool \in Seq(Entries)
    /\ timer \in BOOLEAN
    /\ cstate \in [Conns -> CStates]
    /\ cschema \in [Conns -> Schemas \cup {NoSchema}]
    /\ cents \in [Conns -> Configs \cup {DefaultConfig, AllEntities}]
    /\ tenants \in [Schemas -> Rows]
    /\ pc \in [Tasks -> Points]
    /\ req \in [Tasks -> Schemas \cup {NoSchema}]
    /\ answer \in [Tasks -> Rows \cup {NoAnswer}]
    /\ todo \in [Tasks -> Seq(Entries)]
    /\ outcome \in [Tasks -> Outcomes]
    /\ closing \in [Tasks -> SUBSET Conns]
    /\ held \in [Tasks -> Conns \cup {NoConn}]
    /\ seen \in [Tasks -> SUBSET Rows]

PoolRouted == \A i \in DOMAIN pool : cschema[pool[i].conn] = pool[i].schema

CallsRouted == \A t \in Tasks : pc[t] = "using" => cschema[held[t]] = req[t]

\* Tenant isolation: the pool maps a schema to a connection that was opened
\* for that schema, and no call ever hands out another tenant's connection,
\* whatever calls, evictions and shutdowns overlapped with it.
RoutedToOwnSchema == PoolRouted /\ CallsRouted

\* A call for a schema that needs validation returns a connection, pooled or
\* new, only if the tenant was there at some moment of that very call: an
\* entry that outlived its tenant admits nobody.
ServedOnlyIfExisted ==
    \A t \in Tasks : pc[t] = "using" /\ Validates(req[t]) =>
        \E row \in seen[t] : row # Absent

\* A call of getConnectionForSchema, until its caller is done with the result.
InCall(t) == pc[t] \in {"checking", "evicting", "loading", "creating", "using"}

\* The refinement mapping.
CheckedSchemas == {s \in Schemas : Validates(s)}
LiveSchemas == {s \in Schemas : tenants[s] # Absent}
AskedSchema == [t \in Tasks |-> IF InCall(t) THEN req[t] ELSE NoSchema]
MetTenant == [t \in Tasks |-> InCall(t) /\ \E row \in seen[t] : row # Absent]
ServedSchema ==
    [t \in Tasks |-> IF pc[t] = "using" THEN cschema[held[t]] ELSE NoSchema]

Routing == INSTANCE TenantRouting WITH
    Calls <- Tasks, Checked <- CheckedSchemas, live <- LiveSchemas,
    asked <- AskedSchema, met <- MetTenant, served <- ServedSchema

\* The pool implements the abstract routing service: pooling, evictions, sweeps,
\* removals, shutdowns and their failures are invisible to the callers, apart
\* from calls that reject.
ImplementsRouting == Routing!Spec

\* A connection is opened with the entities the tenant's row named at some
\* moment of the call that opens it, however long the call waited for an
\* eviction in between (with the local strategies, whose errors reject).
FreshEntities ==
    [][\A t \in Tasks :
          /\ pc[t] = "creating" /\ pc'[t] = "using"
          /\ Validator = "local"
          => cents'[held'[t]] \in {EntitiesFor(req[t], row) : row \in seen[t]}]_vars

\* No connection leaks: one that is open, or that could not be destroyed, is
\* in the pool, where a later call, cleanup, removal or shutdown finds it.
NoOrphan ==
    \A c \in Conns : cstate[c] \in {"open", "failed"} => c \in PoolConns

\* In this step a connection that is not ended drops out of the pool, or one
\* that is new is returned without being pooled.
Loses(c) ==
    /\ cstate'[c] \in {"open", "ending", "failed"}
    /\ c \notin PoolConns'
    /\ \/ c \in PoolConns
       \/ \E t \in Tasks : pc[t] = "creating" /\ pc'[t] = "using" /\ held'[t] = c

\* Another connection of the same schema takes the place of c, or was in the
\* hands of an eviction, a sweep or a removal, which delete by schema.
TwinOf(c) ==
    \E d \in Conns \ {c} :
       /\ cschema'[d] = cschema'[c]
       /\ \/ d \in PoolConns'
          \/ \E t \in Tasks : \E i \in DOMAIN todo[t] : todo[t][i].conn = d

\* Whatever a closeAllConnections has started to destroy has ended, so that it
\* clears the pool, with what was pooled since.
ShutdownSucceeds ==
    \E t \in Tasks : closing[t] # {} /\ \A c \in closing[t] : cstate'[c] = "ended"

\* The pool loses sight of a connection only in a race: of two connections of
\* one schema, or of a shutdown with calls.  A destruction that fails, or fails
\* within a batch, takes no entry that has not ended with it.
LostOnlyInRaces ==
    [][\A c \in Conns : Loses(c) => TwinOf(c) \/ ShutdownSucceeds]_vars

\* Whoever waits for destructions waits for ones that are under way, and alone:
\* calls, sweeps and shutdowns that meet at a connection do not end it twice, and
\* none of them is left waiting for what another has settled.
DestroyedOnce ==
    \A t \in Tasks :
       /\ pc[t] \in {"evicting", "removing", "sweeping", "closing"} =>
             AwaitedBy(t) # {} \/ outcome[t] \in {"done", "reject"}
       /\ \A c \in AwaitedBy(t) :
             /\ cstate[c] = "ending"
             /\ \A u \in Tasks : c \in AwaitedBy(u) => u = t

\* When a call has created a connection and another call for the same schema
\* has pooled one meanwhile, the pooled one is reused rather than replaced.
ReusesPooled ==
    [][\A t \in Tasks : pc[t] = "creating" /\ pc'[t] = "using" =>
          ~Has(pool, req[t])]_vars

\* Every call settles: it returns a connection, rejects or is done.
EveryCallSettles ==
    \A t \in Tasks : pc[t] \notin {"idle", "using"} ~> pc[t] \in {"idle", "using"}
=============================================================================
