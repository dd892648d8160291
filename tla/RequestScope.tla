---------------------------- MODULE RequestScope ----------------------------
(***************************************************************************)
(* An application with MultiTenantModule: how it is put together and how   *)
(* requests go through it, each with a context and a connection service of *)
(* its own.                                                                *)
(*                                                                         *)
(* A request is resolved by the middleware, then Nest instantiates what    *)
(* its handler injects: the factories of the providers run side by side,   *)
(* each asking the request's connection service for a connection, and the  *)
(* first that rejects fails the request while the others go on.  Then the  *)
(* handler queries, and the exception filter answers what was thrown.      *)
(*                                                                         *)
(* ConnectionPool has the steps inside getConnectionForSchema; here it     *)
(* takes two, one per answer it waits for.                                 *)
(***************************************************************************)
EXTENDS ErrorMapping, ModuleWiring

CONSTANTS
    Requests,      \* requests, each served once (bound)
    Messages,      \* what requests may carry (bound)
    Options,       \* the options an application may be built with (bound)
    Names,         \* schema names
    Administered,  \* the schemas whose tenant comes and goes (bound)
    MaxQueries,    \* queries of one handler that run at once (bound)
    DefaultPath,   \* the schemas a fresh client searches
    NoOptions, NoMessage, NoSchema, NoConn

Providers == {"TENANT_DATA_SOURCE", "TENANT_REPOSITORY", "TENANT_DRIZZLE_DB"}

SchemaOf(id) == IF id = Undefined THEN NoSchema ELSE SchemaNamingStrategy(id)

ASSUME RequestsAssumption ==
    /\ Administered \subseteq Names
    /\ NoSchema \notin Names
    /\ DefaultPath \notin Names \cup {NoSchema}
    /\ NoConn \notin Requests \X Providers
    /\ NoOptions \notin Options
    /\ MaxQueries \in Nat

ASSUME OptionsAssumption ==
    \A o \in Options :
       /\ o.wants # {}
       /\ o.wants \subseteq Providers
       /\ \A m \in Messages :
             SchemaOf(ResolvedTenant(Middleware(o), m, o.resolution)) \in Names \cup {NoSchema}

VARIABLES
    options,   \* the module's options, until the application has started
    app,       \* what was made of them
    live,      \* the schemas whose tenant exists
    phase,     \* how far each request is
    message,   \* what the middleware reads
    meant,     \* history: the schema of the tenant the request names
    ctx,       \* the schema in each tenant context
    wanted,    \* the schema the request's factories ask for
    stage,     \* what each of the factories awaits
    opened,    \* the schema of the connection each factory's call opened
    entry,     \* the pool of each connection service: whose connection it holds, by schema
    holds,     \* whose connection each factory was given
    seen,      \* history: was the tenant there or gone, at each moment of the
               \* calls, and did the database fail to say
    clients,   \* the clients of the request's pg Pool
    ran,       \* history: where the handler's queries ran, until it returns
    careful,   \* history: the handler's queries were all by entity (TypeORM), or one
               \* at a time while the first client was alive (Drizzle)
    reply      \* what the request was answered

bootVars == <<options, app>>
callVars == <<wanted, stage, opened, entry, holds, seen>>
queryVars == <<clients, ran, careful>>
vars == <<bootVars, live, phase, message, meant, ctx, callVars, queryVars, reply>>

Phases == {"new", "resolving", "routed", "injecting", "handling", "answered"}
Stages == {"none", "checking", "creating", "ready", "failed"}
Clients == [first : {"none", "idle", "busy", "gone"}, idle : 0..MaxQueries, busy : 0..MaxQueries]
Pg(first, idle, busy) == [first |-> first, idle |-> idle, busy |-> busy]
NoClients == Pg("none", 0, 0)

\* Fault: the filter answers and the request goes on.
Answer_Continues(r, response) ==
    /\ phase' = phase
    /\ reply' = [reply EXCEPT ![r] = response]

\* What happens to the request r itself, apart from its calls.
Answer(r, response) ==
    /\ phase' = [phase EXCEPT ![r] = "answered"]
    /\ reply' = [reply EXCEPT ![r] = response]

Ok == [message |-> "mapped", status |-> 200, code |-> "OK", category |-> "NONE",
       details |-> "none"]

NoReply == [message |-> "none", status |-> 0, code |-> "", category |-> "", details |-> ""]

\* The application that is running, or that the options make.
TheApp == IF options = NoOptions THEN app ELSE Assembled(options)

State(s, tenants) == IF s \in tenants THEN "there" ELSE "gone"

\* Schemas whose tenant must exist: all but 'default', when a strategy is
\* injected.
Validates(s) == TheApp # NoApp /\ TheApp.validation # "none" /\ s # Bare(DefaultId)

\* Fault: the context is a singleton.
ContextOf_Singleton(r) == CHOOSE q \in Requests : TRUE

\* The tenant context a request's middleware and providers are given: Nest
\* makes one per request, on Fastify too, where the middleware sees the raw one.
ContextOf(r) == r

\* The connection service a request's factories are given: as it injects the
\* context, it is made per request too, and its pool with it.
ServiceOf(r) == r

-----------------------------------------------------------------------------

Init ==
    /\ options \in Options
    /\ app = NoApp
    /\ live \in {Names \ absent : absent \in SUBSET Administered}
    /\ phase = [r \in Requests |-> "new"]
    /\ message = [r \in Requests |-> NoMessage]
    /\ meant = [r \in Requests |-> NoSchema]
    /\ ctx = [r \in Requests |-> NoSchema]
    /\ wanted = [r \in Requests |-> NoSchema]
    /\ stage = [r \in Requests |-> [k \in Providers |-> "none"]]
    /\ opened = [r \in Requests |-> [k \in Providers |-> NoSchema]]
    /\ entry = [r \in Requests |-> [s \in Names |-> NoConn]]
    /\ holds = [r \in Requests |-> [k \in Providers |-> NoConn]]
    /\ seen = [r \in Requests |-> {}]
    /\ clients = [r \in Requests |-> NoClients]
    /\ ran = [r \in Requests |-> {}]
    /\ careful = [r \in Requests |-> TRUE]
    /\ reply = [r \in Requests |-> NoReply]

\* The application starts, or fails to.
Boot ==
    /\ options # NoOptions
    /\ app' = Assembled(options)
    /\ options' = NoOptions
    /\ UNCHANGED <<live, phase, message, meant, ctx, callVars, queryVars, reply>>

Arrive(r, m) ==
    /\ options = NoOptions /\ app # NoApp
    /\ phase[r] = "new"
    /\ phase' = [phase EXCEPT ![r] = "resolving"]
    /\ message' = [message EXCEPT ![r] = m]
    /\ UNCHANGED <<bootVars, live, meant, ctx, callVars, queryVars, reply>>

\* Fault: next() is only called for a tenant.
Resolve_Silent(r) ==
    LET s == SchemaOf(ResolvedTenant(app.platform, message[r], app.resolution))
    IN  /\ phase[r] = "resolving"
        /\ s # NoSchema
        /\ phase' = [phase EXCEPT ![r] = "routed"]
        /\ message' = [message EXCEPT ![r] = NoMessage]
        /\ meant' = [meant EXCEPT ![r] = s]
        /\ ctx' = [ctx EXCEPT ![ContextOf(r)] = s]
        /\ UNCHANGED <<bootVars, live, callVars, queryVars, reply>>

\* use() of the middleware, from the answer of the resolver on.
Resolve(r) ==
    LET s == SchemaOf(ResolvedTenant(app.platform, message[r], app.resolution))
    IN  /\ phase[r] = "resolving"
        /\ phase' = [phase EXCEPT ![r] = "routed"]
        /\ message' = [message EXCEPT ![r] = NoMessage]
        /\ meant' = [meant EXCEPT ![r] = s]
        /\ ctx' = IF s = NoSchema THEN ctx ELSE [ctx EXCEPT ![ContextOf(r)] = s]
        /\ UNCHANGED <<bootVars, live, callVars, queryVars, reply>>

\* 'No tenant context available for repository (data source, database) creation'
NoContext(k) == Plain(IF k = "TENANT_DRIZZLE_DB" THEN {"database"} ELSE {})

\* The factories start.  Without a tenant in the context they throw.
Inject(r) ==
    LET s == ctx[ContextOf(r)]
    IN  /\ phase[r] = "routed"
        /\ IF s = NoSchema
           THEN /\ \E k \in app.wants : Answer(r, Response(NoContext(k)))
                /\ UNCHANGED <<wanted, stage, seen>>
           ELSE /\ phase' = [phase EXCEPT ![r] = "injecting"]
                /\ wanted' = [wanted EXCEPT ![r] = s]
                /\ stage' = [stage EXCEPT ![r] =
                                [k \in Providers |-> IF k \in app.wants THEN "checking" ELSE "none"]]
                /\ seen' = [seen EXCEPT ![r] = {State(s, live)}]
                /\ UNCHANGED reply
        /\ UNCHANGED <<bootVars, live, message, meant, ctx, opened, entry, holds, queryVars>>

\* A factory rejects, and with it the request unless it was answered before.
Rejects(r, k, error) ==
    /\ stage' = [stage EXCEPT ![r][k] = "failed"]
    /\ IF phase[r] = "injecting" THEN Answer(r, Response(error)) ELSE UNCHANGED <<phase, reply>>

\* The factories test which ORM the connection is of.
Fits(k) == (k = "TENANT_DRIZZLE_DB") <=> (app.orm = "drizzle")

\* Fault: a connection of the other ORM is dropped without an error.
Delivers_Silent(r, k, c) ==
    /\ stage' = [stage EXCEPT ![r][k] = IF Fits(k) THEN "ready" ELSE "failed"]
    /\ holds' = IF Fits(k) THEN [holds EXCEPT ![r][k] = c] ELSE holds
    /\ UNCHANGED <<phase, reply>>

\* The factory k gets the connection c.
Delivers(r, k, c) ==
    IF Fits(k)
    THEN /\ stage' = [stage EXCEPT ![r][k] = "ready"]
         /\ holds' = [holds EXCEPT ![r][k] = c]
         /\ UNCHANGED <<phase, reply>>
    ELSE Rejects(r, k, Plain({"connection"})) /\ UNCHANGED holds

\* Fault: every schema is admitted.
Admits_All(s) == s \in Names

Admits(s) == Validates(s) => s \in live

Pooled(r) == entry[ServiceOf(r)][wanted[r]]

\* The answer of the validation strategy, and the look into the pool.
Check(r, k) ==
    /\ stage[r][k] = "checking"
    /\ IF ~Admits(wanted[r]) THEN Rejects(r, k, Http(404)) /\ UNCHANGED holds
       ELSE IF Pooled(r) # NoConn THEN Delivers(r, k, Pooled(r))
       ELSE /\ stage' = [stage EXCEPT ![r][k] = "creating"]
            /\ UNCHANGED <<phase, reply, holds>>
    /\ UNCHANGED <<bootVars, live, message, meant, ctx, wanted, opened, entry, seen, queryVars>>

\* What the look-up of a local strategy rejects with: the server is out of
\* reach, has no free slot or cancels the query, or the tenants table is not
\* there.  Drizzle wraps them all, TypeORM those of a query that was sent.
LookupErrors ==
    IF app.orm = "drizzle" THEN {Drizzle(pg) : pg \in {"", "53300", "42P01"}}
    ELSE {Plain({}), Plain({"timeout"})} \cup
         {TypeOrm("QueryFailedError", pg) : pg \in {"57014", "42P01"}}

\* The query or the request of the validation strategy fails.  The remote one
\* answers that there is no such tenant.
CheckFails(r, k) ==
    /\ stage[r][k] = "checking"
    /\ Validates(wanted[r])
    /\ \/ /\ app.validation = "remote"
          /\ Rejects(r, k, Http(404))
          /\ UNCHANGED seen
       \/ /\ app.validation # "remote"
          /\ \E error \in LookupErrors : Rejects(r, k, error)
          /\ seen' = [seen EXCEPT ![r] = @ \cup {"error"}]
    /\ UNCHANGED <<bootVars, live, message, meant, ctx, wanted, opened, entry, holds, queryVars>>

\* createConnection resolves.  Drizzle's sets the search_path of the client it
\* tried the connection with.
Open(r, k) ==
    /\ stage[r][k] = "creating"
    /\ opened' = [opened EXCEPT ![r][k] = wanted[r]]
    /\ entry' = [entry EXCEPT ![ServiceOf(r)][wanted[r]] = <<r, k>>]
    /\ clients' = IF app.orm = "drizzle" THEN [clients EXCEPT ![r] = Pg("idle", @.idle, @.busy)]
                ELSE clients
    /\ Delivers(r, k, <<r, k>>)
    /\ UNCHANGED <<bootVars, live, message, meant, ctx, wanted, seen, ran, careful>>

\* A refused connection, a time-out, a server without a free slot, or no such
\* database; and, for Drizzle, a SET that rejects and leaves a Pool behind.
OpenErrors == {Plain({}), Plain({"timeout"}), Plain({"database"})}

OpenFails(r, k) ==
    /\ stage[r][k] = "creating"
    /\ \E error \in OpenErrors : Rejects(r, k, error)
    /\ opened' \in {opened} \cup
                   (IF app.orm = "drizzle" THEN {[opened EXCEPT ![r][k] = wanted[r]]} ELSE {})
    /\ UNCHANGED <<bootVars, live, message, meant, ctx, wanted, entry, holds, seen, queryVars>>

Handle(r) ==
    /\ phase[r] = "injecting"
    /\ \A k \in app.wants : stage[r][k] = "ready"
    /\ phase' = [phase EXCEPT ![r] = "handling"]
    /\ UNCHANGED <<bootVars, live, message, meant, ctx, callVars, queryVars, reply>>

-----------------------------------------------------------------------------
(* The handler's queries.                                                  *)

\* The schema the connection of a provider was opened for.
ConnSchema(r, k) == opened[holds[r][k][1]][holds[r][k][2]]

Running(r) == clients[r].busy + (IF clients[r].first = "busy" THEN 1 ELSE 0)

\* A query by entity, a repository's or a query builder's: TypeORM puts the
\* schema of the DataSource before the table's name.
TypeOrmQuery(r) ==
    /\ phase[r] = "handling"
    /\ app.orm = "typeorm"
    /\ \E k \in app.wants : ran' = [ran EXCEPT ![r] = @ \cup {ConnSchema(r, k)}]
    /\ UNCHANGED <<bootVars, live, phase, message, meant, ctx, callVars, clients, careful, reply>>

\* dataSource.query(...): the text goes to a client as it is, and nothing has
\* set the client's search_path.
TypeOrmRawQuery(r) ==
    /\ phase[r] = "handling"
    /\ app.orm = "typeorm"
    /\ ran' = [ran EXCEPT ![r] = @ \cup {DefaultPath}]
    /\ careful' = [careful EXCEPT ![r] = FALSE]
    /\ UNCHANGED <<bootVars, live, phase, message, meant, ctx, callVars, clients, reply>>

\* A query goes to an idle client of the Pool, and to a new one when none is
\* idle.  Only the first has the tenant's search_path.
DrizzleQuery(r) ==
    LET c == clients[r]
    IN  /\ phase[r] = "handling"
        /\ app.orm = "drizzle"
        /\ Running(r) < MaxQueries
        /\ careful' = [careful EXCEPT ![r] = @ /\ Running(r) = 0 /\ c.first = "idle"]
        /\ \/ /\ c.first = "idle"
              /\ clients' = [clients EXCEPT ![r] = Pg("busy", c.idle, c.busy)]
              /\ ran' = [ran EXCEPT ![r] = @ \cup {ConnSchema(r, "TENANT_DRIZZLE_DB")}]
           \/ /\ c.idle > 0
              /\ clients' = [clients EXCEPT ![r] = Pg(c.first, c.idle - 1, c.busy + 1)]
              /\ ran' = [ran EXCEPT ![r] = @ \cup {DefaultPath}]
           \/ /\ c.idle = 0 /\ c.first # "idle"
              /\ clients' = [clients EXCEPT ![r] = Pg(c.first, c.idle, c.busy + 1)]
              /\ ran' = [ran EXCEPT ![r] = @ \cup {DefaultPath}]
        /\ UNCHANGED <<bootVars, live, phase, message, meant, ctx, callVars, reply>>

QueryEnds(r) ==
    LET c == clients[r]
    IN  /\ \/ c.first = "busy" /\ clients' = [clients EXCEPT ![r] = Pg("idle", c.idle, c.busy)]
           \/ c.busy > 0 /\ clients' = [clients EXCEPT ![r] = Pg(c.first, c.idle + 1, c.busy - 1)]
        /\ UNCHANGED <<bootVars, live, phase, message, meant, ctx, callVars, ran, careful, reply>>

\* idleTimeoutMillis: the Pool drops a client that has been idle for 30 s.
IdleOut(r) ==
    LET c == clients[r]
    IN  /\ phase[r] = "handling"
        /\ \/ c.first = "idle" /\ clients' = [clients EXCEPT ![r] = Pg("gone", c.idle, c.busy)]
           \/ c.idle > 0 /\ clients' = [clients EXCEPT ![r] = Pg(c.first, c.idle - 1, c.busy)]
        /\ UNCHANGED <<bootVars, live, phase, message, meant, ctx, callVars, ran, careful, reply>>

\* The handler returns, or a query of it fails: the table is not there.  The
\* queries it did not wait for are not followed any further.
Finish(r) ==
    /\ phase[r] = "handling"
    /\ \E response \in {Ok, Response(IF app.orm = "drizzle" THEN Drizzle("42P01")
                                     ELSE TypeOrm("QueryFailedError", "42P01"))} :
          Answer(r, response)
    /\ clients' = [clients EXCEPT ![r] = NoClients]
    /\ ran' = [ran EXCEPT ![r] = {}]
    /\ careful' = [careful EXCEPT ![r] = TRUE]
    /\ UNCHANGED <<bootVars, live, message, meant, ctx, callVars>>

-----------------------------------------------------------------------------

\* The admin service creates or removes a tenant.
AdminChange(s) ==
    /\ live' = IF s \in live THEN live \ {s} ELSE live \cup {s}
    /\ seen' = [r \in Requests |-> IF phase[r] \in {"injecting", "handling"} /\ meant[r] = s
                                   THEN seen[r] \cup {State(s, live')} ELSE seen[r]]
    /\ UNCHANGED <<bootVars, phase, message, meant, ctx, wanted, stage, opened, entry, holds,
                   queryVars, reply>>

CallGoes(r, k) == Check(r, k) \/ CheckFails(r, k) \/ Open(r, k) \/ OpenFails(r, k)

Goes(r) == Resolve(r) \/ Inject(r) \/ Handle(r) \/ QueryEnds(r)

Next ==
    \/ Boot
    \/ \E r \in Requests :
          \/ \E m \in Messages : Arrive(r, m)
          \/ Goes(r)
          \/ \E k \in Providers : CallGoes(r, k)
          \/ TypeOrmQuery(r) \/ TypeOrmRawQuery(r) \/ DrizzleQuery(r) \/ IdleOut(r) \/ Finish(r)
    \/ \E s \in Administered : AdminChange(s)

Spec == Init /\ [][Next]_vars

\* Timers and sockets answer what a request waits for, one way or the other,
\* and a handler returns at some point.
Fairness ==
    /\ WF_vars(Boot)
    /\ \A r \in Requests :
          /\ WF_vars(Goes(r))
          /\ WF_vars(Finish(r))
          /\ \A k \in Providers : WF_vars(CallGoes(r, k))

FairSpec == Spec /\ Fairness

-----------------------------------------------------------------------------
(* Properties.                                                             *)

Schemas == Names \cup {NoSchema}
Connections == (Requests \X Providers) \cup {NoConn}

\* The type invariant.
TypeOK ==
    /\ options \in Options \cup {NoOptions}
    /\ app = NoApp \/ app.orm \in {"typeorm", "drizzle"}
    /\ live \subseteq Names
    /\ phase \in [Requests -> Phases]
    /\ message \in [Requests -> Messages \cup {NoMessage}]
    /\ meant \in [Requests -> Schemas]
    /\ ctx \in [Requests -> Schemas]
    /\ wanted \in [Requests -> Schemas]
    /\ stage \in [Requests -> [Providers -> Stages]]
    /\ opened \in [Requests -> [Providers -> Schemas]]
    /\ entry \in [Requests -> [Names -> Connections]]
    /\ holds \in [Requests -> [Providers -> Connections]]
    /\ seen \in [Requests -> SUBSET {"there", "gone", "error"}]
    /\ clients \in [Requests -> Clients]
    /\ ran \in [Requests -> SUBSET (Names \cup {DefaultPath})]
    /\ careful \in [Requests -> BOOLEAN]
    /\ reply = [r \in Requests |-> reply[r]]
    /\ \A r \in Requests : (reply[r] = NoReply) <=> (phase[r] # "answered")

\* The schemas that are served without asking count as living tenants.
Unasked == {s \in Names : ~Validates(s)}

Served(r) == phase[r] \in {"injecting", "handling"}

\* What the parts of the application make of the abstract service's state.
LiveNames == live \cup Unasked

AskedName == [r \in Requests |-> IF Served(r) THEN meant[r] ELSE NoSchema]

MetTenant == [r \in Requests |->
                 Served(r) /\ ("there" \in seen[r] \/ meant[r] \in Unasked)]

ServedName == [r \in Requests |->
                 IF phase[r] = "handling" THEN ConnSchema(r, CHOOSE k \in app.wants : TRUE)
                 ELSE NoSchema]

Routing == INSTANCE TenantRouting WITH
    Calls <- Requests, Schemas <- Names, Checked <- Names,
    live <- LiveNames, asked <- AskedName, met <- MetTenant, served <- ServedName

\* Middleware, contexts, providers and connection services together route like
\* the abstract service: a handler only gets connections of the tenant its own
\* request names, and only if that tenant existed while its connections were
\* made, whichever requests ran beside it and whatever failed.
ImplementsRouting == Routing!Spec

\* A handler's queries run in the schema of its own request.  With TypeORM
\* that is only so for queries by entity, and with Drizzle for one at a time on
\* the client the pool was opened with; the others search the default path, but
\* never another tenant's.
QueriesConfined ==
    \A r \in Requests :
       ran[r] \subseteq {meant[r]} \cup
                        (IF careful[r] THEN {} ELSE {DefaultPath})

\* A request that waits for its factories waits for ones that are running or
\* have delivered, and for each that the handler wants: it is never left waiting
\* for one that failed, whatever became of the others.
WaitsForFactories ==
    \A r \in Requests : phase[r] = "injecting" =>
       \A k \in app.wants : stage[r][k] \in {"checking", "creating", "ready"}

\* The answer a fits what r has met.
Fitting(r, a) ==
    /\ /\ phase[r] = "injecting" /\ Validates(meant[r])
       /\ seen'[r] \subseteq {"gone"}
       => a.code = "NOT_FOUND"
    /\ a.code = "NOT_FOUND" =>
          /\ Validates(meant[r])
          /\ "gone" \in seen[r] \/ app.validation = "remote"
    /\ meant[r] = NoSchema => a.status # 200

\* Answers fit what happened: a request whose tenant was absent all along is
\* answered NOT_FOUND, unless a look-up failed, however its factories'
\* failures meet; NOT_FOUND is never the answer to one whose tenant was there
\* all along, but by the remote strategy; a request without a tenant is never
\* served.
AnswersFit ==
    [][\A r \in Requests :
          reply[r] = NoReply /\ reply'[r] # NoReply => Fitting(r, reply'[r])]_vars

\* A tenant is looked up before it is served, unless the application was built
\* with forRoot, asked for a 'custom' strategy and then gave none.
StartsValidated ==
    [][(app = NoApp /\ app' # NoApp /\ app'.validation = "none") =>
          /\ options.entry = "forRoot"
          /\ options.validation = "custom"
          /\ "TENANT_VALIDATION_STRATEGY" \notin options.given]_vars

\* Every request is answered.
EveryRequestAnswered ==
    \A r \in Requests : phase[r] = "resolving" ~> phase[r] = "answered"

\* "All queries scoped to tenant schema", with Drizzle.
QueriesScoped ==
    \A r \in Requests :
       app # NoApp /\ app.orm = "drizzle" => ran[r] \subseteq {meant[r]}

\* "Connections are reused across requests": a request that looks for a
\* connection finds the one that another request's handler is using.
ConnectionsReused ==
    [][\A r, q \in Requests, k \in Providers :
          /\ stage[r][k] = "checking" /\ stage'[r][k] = "creating"
          => ~(phase[q] = "handling" /\ meant[q] = wanted[r])]_vars
=============================================================================
