# Verification of nestjs-multitenant

TLA+ models, TLC runs and TLAPS proofs about the schema-per-tenant connection
management of `nestjs-multitenant` (the program's code is under `src/src/`; paths
below are relative to it unless they start with `src/`).

A request names a tenant; middleware resolves it and puts it in a request-scoped
context; a naming strategy turns the tenant into a PostgreSQL schema name; the
connection service finds or opens a connection for that schema, through TypeORM or
Drizzle, with the entities the tenant's row in the admin database enables; the
admin module creates, changes and removes those rows; an exception filter answers
what was thrown on the way.

## 1. Inventory

| component | state | operations | correct when |
|---|---|---|---|
| Connection pool, `core/services/tenant-connection.service.ts` | Map schema → connection, cleanup timer | `getConnectionForSchema`, `removeConnection`, `closeAllConnections`, timer sweep, eviction at the limit | a caller gets its own schema's connection, only if the tenant exists; an open connection is lost only in a race; calls settle |
| ORM strategies, `core/strategies/orm/*` | the open connections (a DataSource; a pg Pool of 20 clients) | create, validity test, destroy | an ended connection is not valid; no query runs in another tenant's schema; a failed creation leaves nothing open |
| Validation strategies, `core/strategies/validation/*` | none | `validateTenantExists`, `findByCode` | an answer is about the code that was asked; an error admits nobody |
| Tenant admin, `admin/services/*`, `admin/entities`, `admin/schema` | the tenants table, the schemas of the database | create, update, remove, activate, deactivate, find, stats | codes unique; a created tenant is provisioned; a removed tenant stays removed |
| Tenant context and naming, `core/services/tenant-context.service.ts`, `multi-tenant-config.service.ts` | tenant and schema of one request | `setContext`, naming strategies | two tenants do not share a schema; the factories name the schema the context names |
| Middleware, `core/middleware/*` | none (writes the context) | resolve the tenant from header, subdomain, JWT or a custom function | no request runs under another's tenant; a resolver that fails does not hang the request |
| Request-scoped providers, `core/providers/*`, `core/decorators/*` | one connection service per request | DataSource, repository and database factories | a handler gets connections of its request's tenant, all of them or none |
| Entity registry, `config/*`, `core/utils/entity-registry.utils.ts` | registered entity classes, presets | register, look up, presets, `getEntityClasses`, `processEntityConfig` | a connection serves what one configuration of its tenant enables, of those it had while it was being opened |
| Errors, `core/exceptions/*` | none | classification, filter, logger | an answer fits what happened |
| Module wiring, `multi-tenant.module.ts`, `admin/admin.module.ts` | none | choice of providers from the options | what starts is complete, and validates |
| Migration helper, helpers of providers, DTOs, constants, `index.ts` | none | | |

How they interact. Middleware calls the context, once per request. The providers
take the schema name from the context and call the pool. The pool calls the
validation strategy (which reads the tenants table, directly or over HTTP), then
the ORM strategy. The admin services share nothing with the pool but the tenants
table: no admin operation calls `removeConnection`, so a pooled connection outlives
its tenant. The timer calls the pool from outside any request. Because the context
is request-scoped, whatever injects it is too, the connection service included: Nest
makes one of each per request.

What is hard. Node runs one piece of JavaScript at a time, and every `await` lets
others in: the pool tests, then awaits, then acts, in four places; a destruction
may fail in the middle of a loop; the row that was validated may change before it
is used; `Promise.all` gives up while its members go on, and so does Nest with the
factories of one request; the admin services check and then insert; the registry
forgets at a restart what the table remembers. `PROJECT.json` lists each such place
as a hazard, at its line.

## 2. The modules

| module | what it is |
|---|---|
| `TenantRouting` | abstract specification: a call for a schema ends with a connection of it or is refused, and a tenant's schema is only served if the tenant was there at some moment of the call |
| `ConnectionPool` | one instance of the connection service, with its ORM and validation strategies and the tenants table as its environment; implements `TenantRouting` |
| `TenantDirectory` | abstract specification of the admin services: a code is never used, then names a tenant, then is gone |
| `TenantAdmin` | both admin services, query by query; Drizzle's implements `TenantDirectory` |
| `TenantNaming` | ids, codes and schema names in the four places that build them |
| `TenantResolution` | both middlewares as functions of a request and the configuration |
| `ModuleWiring` | `forRoot`, `forRootAsync`, `buildAsyncConfig` as functions of the options |
| `ErrorMapping` | the exception filter as a function of an error |
| `RequestScope` | composes the four above: an application boots, and requests go through middleware, context, factories, connection services, handlers and filter beside each other and beside an administrator; implements `TenantRouting` |
| `EntityRegistry` | registry, presets, rows' entity configurations and the entities of connections, through restarts |
| `ConnectionPoolProofs`, `PoolOwnershipProofs`, `RoutingProofs`, `TenantAdminProofs`, `TenantNamingProofs`, `RequestScopeProofs`, `RequestOutcomeProofs`, `EntityRegistryProofs` | the theorems, section 8 |
| `MC*` | instances for TLC |

`EXTENDS`: `RequestScope` ← `ErrorMapping`, `ModuleWiring` ← `TenantResolution` ←
`TenantNaming`. `TenantRouting` and `TenantDirectory` are instantiated.

Two modules model the connection service. `ConnectionPool` has every await of it
and any number of calls on one instance, as in an application that makes its own
singleton or calls it from a worker; `RequestScope` has one instance per request,
with the calls of that request's factories only, which never reach the limit or a
sweep, and takes `getConnectionForSchema` in two steps. Both refine the same
abstract service, so that what callers may rely on is said once.

## 3. ConnectionPool

### Correspondence

| TLA+ | code |
|---|---|
| `pool` | `connectionPool`, a Map, as the sequence of its entries in insertion order; `MapSet` keeps the place of a key that is there, as JavaScript does, because the cleanups go by that order |
| `timer` | `cleanupTimer` |
| `pc`, `req`, `answer`, `todo`, `outcome`, `held` | where a call awaits and its locals: the schema, what the validation strategy answered, the rest of the snapshot its loop goes through, how the current destruction goes, the connection it returned while the caller uses it |
| `closing` | the destructions a `closeAllConnections` awaits in Promise.all |
| `cstate` | a connection's life: `open`, `ending` (destruction has begun), `ended`, `failed` (destruction rejected) |
| `cschema`, `cents` | what the connection was opened for and with |
| `tenants` | the row of each code that the local strategies would find (`deletedAt` null), or `Absent` |
| `seen` | history: the rows the tenant had since the call began; no guard reads it |

An action is the code between two awaits. `StartGet` begins a call;
`ReadForCheck`/`ReadForConfig`/`ReadFails` are the moment the database is read or
the request fails; `NotFound`, `PoolHit`, `PoolMiss` are the three ways the call
goes on after validation (lines 82–105); `CreateSucceeds`/`CreateFails` settle the
strategy's `createConnection` (108–114). `DestroyResolves`/`DestroyRejects` settle
one destruction of a loop (the eviction's, the sweep's, or `removeConnection`'s,
which is a loop of one) and take up the next entry, all without an await in
between. Destruction begins synchronously, so the connection is `ending` from the
step that starts it. When `destroyConnection` returns or throws without I/O, its
continuation is a microtask: it runs before Node takes up anything else, which is
what the guard `Quiet` of all other actions says. `Release` is the caller dropping
its connection; it tells the pool nothing. `AdminCommit` is the only action of the
environment: another process, or the admin module, commits a row.

External behaviour, modelled from its use: a pg Pool whose `end` was called rejects
a second call; a DataSource stays `isInitialized` until its `destroy` has finished.

`Overlap = FALSE` restricts the callers, not the service: one call per schema at a
time and no shutdown beside other calls. The code does not enforce it; the runs
that assume it show what the service promises to callers that do.

Not in the model: a retry of a failed DataSource `destroy` (the connection counts as
`failed` and a second destroy rejects), `getConnectionPoolStats` (reads only), the
connections' own queries.

### Properties and runs

| run | what it shows |
|---|---|
| `pool_overlap` | TypeORM with local validation, a full pool of 20: two overlapping calls for one schema, each of which may evict a batch of two first, a removal, a row that changes, destructions that fail: `ServedOnlyIfExisted`, `FreshEntities` (the entities are those of a row the call met, though it waited for an eviction), `DestroyedOnce` (whoever waits for a destruction waits alone, and for one that is under way), `LostOnlyInRaces` |
| `pool_drizzle` | Drizzle with remote validation, whose errors read as "no such tenant", removals and shutdowns that overlap calls: `RoutedToOwnSchema` (isolation, through replaced, ended and reopened connections), `ImplementsRouting` (the pool implements the abstract service), `DestroyedOnce`, `LostOnlyInRaces` |
| `pool_serial` | `NoOrphan` and `EveryCallSettles` at a full pool of 10: sweeps, evictions and failures lose no open connection as long as each schema's calls are serialised, and no call hangs |
| `pool_shutdown` | `NoOrphan` and `EveryCallSettles` with a shutdown that fails half-way, after which the pool must keep what has not ended |
| `pool_replaces` (violated) | a unit test's comment says the later of two calls reuses the pooled connection; it replaces it |

That a returned connection is not ended is no property here. With TypeORM it is the
test of `PoolHit` itself, and with Drizzle it is false: `isConnectionValid` is true of
an ended pool (section 9). A connection whose destruction has begun is returned by
both. Nor does the limit hold: `maxConnections` below 10 makes the batch of 10%
empty, so that a single caller outgrows it. It also fails at 10 and
above when calls overlap (they evict the same entry and each adds its own) or when
the oldest entry cannot be destroyed (every later eviction tries that one again).
The documentation's "auto-cleanup idle connections" is insertion order in the code,
as its own comment admits: a sweep may take a connection in use.

Two properties are about connections that leak. `LostOnlyInRaces` is unconditional
(`DestroyedOnce` is too): an open connection drops out of the pool only in a step where
another connection of the same schema takes its place or was in the hands of an
eviction, a sweep or a removal, or where a shutdown clears the pool with what was
added since it began. So a destruction that rejects, at any place of a batch, takes
no other entry with it. `NoOrphan`, that nothing is lost at all, is only so
where these races cannot happen, and the runs of it exclude them:

* the callers serialise each schema's calls (`Overlap = FALSE`), which the code does
  not do: a request's own factories ask for one schema side by side. With overlapping
  calls `pool_replaces` shows the loss;
* under TypeORM a batch has one entry at most, that is limits below 20. In a longer
  batch a later entry of the snapshot may have been replaced while an earlier one was
  being destroyed. Destroying an ended DataSource resolves at once, and the key that
  is then deleted already maps to the new connection. The default limit of 50 makes
  batches of five, so the loss is real there;
* under Drizzle `SET search_path` succeeds; a rejected one leaves a Pool behind
  that was never in the pool, which `LostOnlyInRaces` does not speak of either.

### Bounds

Two calls at a time, and one or two identities of connections beside a full pool: every hazard
listed is a race of two activations, and a third only repeats one of the two roles.
`pool_drizzle` asks for one schema that is validated and one that is not, and
`pool_drizzle` and `pool_shutdown` have three connections, so that one
call's connection, the one that replaced it and one that is ending exist together.
The batch of 10% is empty below a limit of 10, so the cleanup
runs start from a full pool (`WarmInit`), the state that many calls lead to: of 10
in `pool_serial`, where the batch is one entry, and of 20 in `pool_overlap`, where it is
two, the least in which a loop goes on after an entry that failed and an entry waits in a
snapshot while another is destroyed. There the one schema both calls ask for is a tenant that
is not in the pool, so that both evict and both create; a tenant that comes and goes is the
same one. `pool_overlap` has no shutdowns and `pool_drizzle` no evictions. The remote
strategy runs in `pool_drizzle` only; `pool_serial` and `pool_shutdown`
leave validation out, one more query whose failure rejects the call.
Connections are reused as identities once they have ended and nothing refers to
them, so the runs do not stop when identities run out.

### Fairness

`Fairness` is strong fairness, per task, of the steps that settle its query, creation
or destruction: the database answers or the driver times out (drivers set connection
timeouts; a query without timeout that hangs for ever is outside the model), and
Node takes up each settled promise. Strong, because `Quiet` disables these steps for
the instant of each microtask, again and again. Callers, the timer and the
holders of connections are not fair.

## 4. TenantAdmin and TenantDirectory

`rows` is the tenants table (a row's code, status, deletedAt and entityConfig; the
other columns behave like entityConfig), `schemas` the schemas that were created.
For each call, `pc` is the query it awaits, `op` the method, `target` the row it
found, `entity` the values it is about to write; `reply` is what the call that
settled in the last step answered. Every query commits on its own; nothing in the
services opens a transaction around a read and a write.

| action | code |
|---|---|
| `CheckCode` | `create` up to its insert: the look-up, the conflict, the schema-name test, `processEntityConfig` |
| `Insert`, `CreateSchema` | the insert, which the unique constraint may refuse, and `createTenantSchema` |
| `FindOne` | `findOne` and what `update`, `remove`, `activate`, `deactivate` do before they write |
| `Reload`, `Write` | TypeORM's `save` reads the row again and writes the columns that differ; Drizzle's `set` writes the columns given, at once |
| `QueryFails` | any query rejects; what was committed stays (a crash of the process leaves the same state) |

`undefined` is a value of the model because the code relies on it: both ORMs leave
an undefined column alone, which is why `activate`'s `deletedAt = undefined` clears
nothing, and why it does not bring a removed tenant back.

External behaviour: TypeORM's `find` methods leave out rows whose DeleteDateColumn
is set, its `save` loads the row including such rows and compares column by column.

`DirectoryView` maps the table to what `validateTenantExists` and `findByCode` find.

| run | what it shows |
|---|---|
| `admin_drizzle` | Drizzle implements `TenantDirectory` under overlap and failures; a create that succeeds has its schema. That a removed tenant stays away is part of the directory |
| `admin_typeorm` | with TypeORM each step still changes one tenant only (what `ConnectionPool` assumes of its environment, `AdminCommit`), and only an update in flight revives a removed tenant |
| `admin_revived` (violated) | `src/docs/docs/examples/admin-api.md:107`, "preventing access": an update in flight undoes the deactivation |

`RevivedOnlyByUpdate` and `RemovedStaysRemoved`, which `admin_revived` refutes, are the
two halves of one finding:
removal is not final with TypeORM, and an update in flight is the only way back.
`Overlap = FALSE` restricts the callers and not the service: one call at a time for
each row, while calls for different rows and creates overlap as they like. Then
removal is final with TypeORM too, which the theorems `Finality` and `Implementation`
say for all constants (section 8) and no run repeats.

Bounds: two calls (each hazard is a race of two), two ids and two valid codes, so
that a code can be taken by a live and by a removed row while the other row must not
change; two configurations, so that a stale one is told apart; one status a dto asks
for besides `active`, since the guards tell only `active` and `inactive` apart.
`admin_drizzle` adds a code that is no schema name.

`CreatedIsProvisioned` is about a create that answers with its tenant. One that fails at
`CREATE SCHEMA` leaves a row without a schema, and its retry meets the conflict
(section 9).

Left out: `findAll` and `getStats`, which read in several queries and change
nothing; custom settings, which `processEntityConfig` merges into the value read.

## 5. TenantRouting: what the library promises

`TenantRouting` is all a caller may rely on. A call asks for a schema (`Ask`), is
served a connection of that schema (`Serve`) or not, and leaves (`Leave`); tenants
come and go beside it (`Change`). A schema in `Checked` is served only if its tenant
was there at some moment since the call asked (`met`). Pooling, evictions, the order
of two calls and every failure are invisible, apart from calls that are not served.

| abstract | in `ConnectionPool` | in `RequestScope` |
|---|---|---|
| a call | a task inside `getConnectionForSchema`, until its caller lets go | a request whose factories run or whose handler does |
| `asked` | `req` | `meant`: the tenant the request names, not what some context holds |
| `met` | a row in `seen` that is not `Absent` | `"there"` in `seen`, or a schema nobody validates |
| `served` | the schema of the connection held | the schema of what the factories delivered |
| `live` | codes with a row | tenants that are there, and the schemas served without asking |

"Now" is not promised and cannot be: the tenant may be removed between the answer of
the validation query and the return of the call. The abstract specification says
exactly that.

## 6. RequestScope, and the functions it is built from

An application is built from options (`Boot`), then serves requests. A request goes
`new → resolving → routed → injecting → handling → answered`.

| TLA+ | code |
|---|---|
| `Boot`, `Assembled` (ModuleWiring) | the module definition of `forRoot`, `forRootAsync` or `buildAsyncConfig`, and what Nest can instantiate of it |
| `Arrive`, `Resolve`, `ResolvedTenant` (TenantResolution) | `use()` of either middleware: resolver, default tenant, `setContext`, `next()` |
| `ctx`, `ContextOf` | the request-scoped `TenantContextService`; on Fastify the middleware is registered by the same `consumer.apply` |
| `Inject` | Nest instantiates the handler's providers side by side; the factories throw without a context |
| `Check`, `CheckFails` | the validation strategy's answer and the look into the pool (`tenant-connection.service.ts` 82–105); what a look-up rejects with (`LookupErrors`) depends on the ORM: Drizzle wraps every error, TypeORM lets a refused connection through as it is, and the remote strategy makes each a `NotFoundException` |
| `Open`, `OpenFails` | `createConnection`, which for Drizzle leaves a Pool open when `SET search_path` rejects |
| `Rejects`, `Delivers` | the first rejection answers the request, the other factories go on; a factory refuses a connection of the other ORM |
| `TypeOrmQuery` | a query by entity: TypeORM qualifies the table with the DataSource's schema |
| `TypeOrmRawQuery` | `dataSource.query(...)`: the text runs as it is, on a client whose search path nobody has set (`getMultiTenantDatabaseConfig` gives `schema` only) |
| `DrizzleQuery`, `QueryEnds`, `IdleOut` | a pg Pool hands a query to an idle client or opens another; only the client `createConnection` used has the tenant's `search_path` |
| `Finish`, `Answer`, `Response` (ErrorMapping) | the handler returns or throws, and the exception filter answers; the histories of the request's queries (`ran`, `careful`) end with it |
| `AdminChange` | a tenant is created or removed beside all this |

**TenantNaming.** An id is a sequence of characters, of which only their class is
kept: what `/[^a-z0-9]/` and `toLowerCase` do to them. `SchemaNamingStrategy` is the
context's, `FactorySchema` the by-id factories', `AdminSchema` the admin service's.

**TenantResolution.** The four strategies (header, subdomain, JWT, custom), the
`trim`s, the fallbacks and the resolver that throws; what Fastify's adapter passes
on to a custom resolver differs from the whole request. `atob` and `JSON.parse` are
a token's `claims`; the case of header names is left to Node, which lowers it.

**ModuleWiring.** Which validation and ORM strategies and which admin service the
three entry points choose, which tokens they can inject, and whether the
application starts. A given `ORM_STRATEGY` is taken to be of the type `orm.type`
names. The migrations `ADMIN_DATABASE` runs at the start are left out.

**ErrorMapping.** The order of the filter's tests (HTTP, tenant, TypeORM, Drizzle, plain)
and the tables of PostgreSQL codes, names and words. Of an error only
what the filter looks at is kept.

### Runs

| run | what it shows |
|---|---|
| `requests` | the properties below |
| `requests_unscoped` (violated) | `src/docs/docs/core-concepts/architecture.md:247`, "All queries scoped to tenant schema": with Drizzle a second query at once, or one after 30 s of silence, runs on a client with the default search path |
| `requests_reuse` (violated) | `src/docs/docs/core-concepts/architecture.md:193`, "Connections are reused across requests": the service injects the request-scoped context, so each request has a service and a pool of its own |

* `ImplementsRouting`: a handler only gets connections of the tenant its own request
  names, all it injects or none, and only if that tenant was there.
* `QueriesConfined`: no query runs in *another tenant's* schema. One may run in the
  default path, but not while the request is `careful`: with TypeORM, while
  it has only queried by entity; with Drizzle, while its queries went one at a time and
  the first client lived.
* `AnswersFit`: a request whose tenant was absent all along, and none of whose
  look-ups failed, is answered `NOT_FOUND`; `NOT_FOUND` is answered only where the
  tenant was absent at some moment or by the remote strategy, whose errors read as "no
  such tenant"; a request without a tenant is never served. It is about the code and not the
  status, because a missing table is 404 too (`UNDEFINED_TABLE`). A failed
  look-up (`"error"` in `seen`) is answered 500, 503 or 404 `UNDEFINED_TABLE`, whether the tenant
  exists or not: the error decides, and the property asks nothing more of it.
* `WaitsForFactories`: a request that waits for its factories waits for running ones
  only; the first that fails ends the wait, and the late ones are not waited for.
* `StartsValidated`: the one way to start without validation is `forRoot` with
  `'custom'` and no strategy given.
* `EveryRequestAnswered`: no request hangs whose resolver and factories settle, whether they
  resolve or reject. A custom resolver whose promise never settles does hang its
  request: the middleware sets no time limit.

Bounds. Two requests: each hazard is one request's doing seen by another. Four
messages: one that names tenant *a* by its header and *b* by everything else, one
that names *a* by everything but its header, one that names nobody, one of
`default`; so any strategy that is confused with another routes differently. Options:
six applications whose requests differ, and 54 variants for the wiring, some of which
do not start. One tenant comes and goes, one stays, one schema (`default`) is not validated.
Two queries at once are enough to meet a second client. A request's pool has at most
one key for the factories that go by the context, so neither the limit nor a sweep
is reached; handlers that use by-id factories over many tenants are
`ConnectionPool`'s case.

Fairness is weak, per request and per factory: what a request awaits is answered one
way or the other (a custom resolver settles, a driver times out), handlers return,
and the application starts or fails to.

## 7. EntityRegistry

`registry` (the names with a class), `presets`, the rows' entity configurations
(`rows`; `drafts` are those computed by `processEntityConfig` and not yet saved),
`conns` (the entities each pooled connection was opened with) and `opening`, the call that
is about to open one. `met` (the configurations the row had during that call) and
`validated` are histories. `Register`, `RegisterPreset` and `Configure` are the
functions of `entity.registry.ts` and `configureEntityRegistry`; `Process` and `Save`
are the two halves of a create or an update; `Restart` loses the registry and the
presets, not the rows. A connection is opened in the steps the code awaits in: `Ask` sends
`findByCode`, `Load` is the database reading the row, `Start` takes the answer and goes through
`createConnection` to `DataSource.initialize`, with the classes the registry has then, and
`Opened` pools it. Anything may come between them, a `Save` above all; `OpenFails` ends
the call instead, and `Close` is whatever takes the connection out of the pool.

`Inherited` are the names that every JavaScript object has: `validateEntityNames` tests
with `in`, which finds them, so that they are accepted and have no entity.

`registry.cfg` has two entities that may be registered, presets that list nothing or one
of them beside a name nobody registers (what a class name in a preset comes to), one
inherited name and one tenant (tenants only share the registry). `MaxMet` = 2: at most
two configurations are met in one call, so that a save comes between; a third would play
the second's role.

* `ServedAsEnabled`: a connection has the entities of *one* configuration that the row had
  while the call was under way, never a mixture: no entity it does not name, and all of its
  names that a request listed one by one and that were accepted since the process
  started. It need not be the row's present configuration, not even at the moment the call
  returns: a save after `Load` is missed. It is not so for presets, which nobody
  validates: a preset with a class name serves nothing of it. The fallback to all
  entities in `getMultiTenantDatabaseConfig` does not reach a connection, because
  the strategy overwrites that list.

Which tenants have a row, and which connections the pool holds, is the matter of
`TenantAdmin` and `ConnectionPool`.

## 8. Proofs

Every theorem holds for all values of the constants that satisfy the named
assumptions of the modules (types of the constants, and markers such as `NoConn` that
are no ordinary values); TLC evaluates these assumptions in the runs.

**ConnectionPoolProofs**: `TypeCorrectness`, `Isolation` (`RoutedToOwnSchema`),
`Admission` (`ServedOnlyIfExisted`). `TypeOK` is not inductive: that a call which is
`using` holds a connection and that a loop whose `outcome` is set has a head need
each other; `TypeInv` adds them. For isolation, a connection that is pooled or held
must not be recycled (`FreeConns`), and the lemmas on `MapGet`, `MapSet` and
`MapDelete` say that a look-up returns an entry of the key asked for. `AdmissionInv`
says that every call past validation has seen a live row, through evictions, loads
and creations, and that an answer other than `Absent` was one of the rows seen.

**PoolOwnershipProofs**, three theorems about connections rather than calls, without any
condition on callers or limits:

* `Freshness` (`FreshEntities`), from `RowIsSeen`: the row a creating call goes by is in
  `seen`.
* `LostInRaces` (`LostOnlyInRaces`). `TodoRouted`, with isolation, says that an
  entry of an old snapshot and a pooled entry of the same connection have the same key, and
  `DoneHasEnded` that a destruction that counts as done has ended its connection. A
  loop deletes by key: what goes is then either the connection it has ended, or another one
  of the same schema, which is the race. The lemmas `MapDeleteKeeps` and `MapSetKeeps` say
  that every other entry stays.
* `OneDestroyer` (`DestroyedOnce`), from
  `WaitInv`: a task has a destruction in hand exactly inside a loop and waits for a set
  of them exactly inside `closeAllConnections`, and each is `ending` and awaited by
  nobody else. `TaskAwaits` is the one argument behind all steps: a task comes to wait
  only for what was `open` and it begins to destroy, and it settles only its own.

**RoutingProofs**: `Refinement`, `Spec => ImplementsRouting`, from `PoolInv`, the three
invariants together. Each step is `Ask`, `Serve`, `Leave` or `Change` of its call, or
hidden from every caller (`HiddenFromCaller`). That nothing a caller holds is
reopened for another schema (`HeldKept`) is what keeps `served` still.

**RequestScopeProofs**: `RequestTypes` and `Confinement` (`QueriesConfined`), from
`RequestInv`: contexts hold the tenant of their own request (`Contexts`), factories ask
for it (`Wants`), what a request's pool and factories hold was opened by that request
for that schema (`Possession`), a handler runs only when all its factories are done
(`Handled`), before two queries overlap no client but the first exists (`Clean`), and a
call past validation saw the tenant (`Admitted`). `Untouched` says that a request that
has not started its factories has nothing yet, without which `Possession` does not survive
`Inject`.

**RequestOutcomeProofs**, on top of it: `Composition`, `Spec => ImplementsRouting` for
whole applications, from `RequestInv` and `Delivered` (what a handler is given is of
its tenant); `Answering` (`AnswersFit`), by the answers to each error that can reach
the filter (`Answers`): only the `Http(404)` of a look-up that found nobody, or that
the remote strategy could not make, gets the code `NOT_FOUND`; and `Validated` (`StartsValidated`),
by cases on the options.
`Awaiting` (`WaitsForFactories`) is the part of `EveryRequestAnswered` that needs no
fairness: no request waits for something that is not going on.

**TenantAdminProofs**: `AdminTypes`, `Provisioned` (`CreatedIsProvisioned`), `Revivals`
(`RevivedOnlyByUpdate`), `Finality` (`RemovedStaysRemoved`), `Implementation`
(`ImplementsDirectory`) and `OneTenantChanges` (`ChangesOneTenant` where no update
carries a code). `AdminInv` joins the types to `Unique` (no two rows with one code),
`Pending` (what a call awaits fits its method, and the row it is going to write
exists), `OnlyUpdatesRevive` (only TypeORM's `update` carries a null `deletedAt`) and
`CodesAreKept`. Uniqueness makes the `CHOOSE` of `DirectoryView` mean one row
(`ViewOfHeld`); then a write changes what is found of one code (`OneRowChanges`).
`Finality` and `Implementation` assume `NeverRevives`: Drizzle, or calls for one row
that do not overlap (the latter theorem also that TypeORM's updates carry no code).
For TypeORM they rest on `FoundIsLive`: where the calls for one row are serialised, the
row a call found is still live when it writes, and no other call has it as target.

**TenantNamingProofs**: `SanitizedIsCode`, `CodesNameOneSchema`, `CodesKeepApart`,
`OthersCollide`: among tenant codes the naming strategy is injective and agrees with
the admin service and the factories; every other id is routed to the tenant of a
code. `DefaultNamesTwoSchemas` is the exception of `'default'`.

**EntityRegistryProofs**: `RegistryTypes` and `EnabledAreServed` (`ServedAsEnabled`),
from `RegistryInv`: names that were accepted stay registered while the process lives, in
saved rows, in drafts and in the configurations met; and what a call that has loaded
its row goes by, or has given to the DataSource, is of one configuration met.

`Finality` is the positive side of a property that a run refutes (`admin_revived`): it
says for which callers, or which ORM, what the document promises is so.

Only model-checked: the liveness properties `EveryCallSettles` and
`EveryRequestAnswered`, since fairness is out of the prover's reach, and `NoOrphan`, which
holds under the restrictions of its runs only (section 3); what holds of leaks without
them is `LostInRaces`. Every other property
of a passing run is stated by a theorem, some under the conditions named above, which
are those of the run or weaker. `OneDestroyer` and `Awaiting` say of both liveness
properties what safety can: nobody waits for what is not under way.

## 9. Disagreements between code and documents

With a run: `pool_replaces`, `admin_revived`, `requests_unscoped`, `requests_reuse`.

Without one, since a run would only restate the line. Pool and strategies:

* Drizzle's `isConnectionValid` returns true for an ended pool
  (`core/strategies/orm/drizzle.strategy.ts:85`, comment "not ended"), so the pool goes
  on returning it.
* A raw query on the injected DataSource, as `src/docs/docs/api-reference/decorators.md:146` and
  `src/README.md:464` show it, searches the default path and not the tenant's schema:
  `core/strategies/orm/typeorm.strategy.ts:46` and `config/database.config.ts:91` set `schema`
  only. `TypeOrmRawQuery` models it.
* `maxConnections` below 10 evicts nothing, and the pool grows past what
  `core/interfaces/typeorm.interface.ts:14` calls the maximum; it also does when calls
  overlap, and when the oldest entry cannot be destroyed.
* A connection in the pool is not told when its tenant's entities change or its tenant
  is removed.
* The Drizzle admin database takes its address from `DB_*`, tenant connections from
  the options.

Admin:

* TypeORM's `update` may change the code, which `UpdateTenantDto` inherits; the schema
  is not renamed.
* A deactivated tenant is soft-deleted and cannot be activated again; the unit test
  (`src/test/unit/admin/services/tenant-admin.service.test.ts:702`) mocks the row.
* With TypeORM, creating the code of a removed tenant is answered "bad request" and not
  a conflict. With Drizzle, `activate` succeeds on a tenant removed after it was found.
* Code `default` gets schema `tenant_default`, while requests of `default` go,
  unvalidated, to schema `default`.
* When `CREATE SCHEMA` fails after the insert, the create rejects and leaves a live tenant
  without a schema, and a retry is refused as a conflict
  (`admin/services/tenant-admin.service.ts:99`).
* Names such as `constructor` pass `validateEntityNames`, which tests with `in`
  (`config/entity.registry.ts:111`), and serve nothing.
* `processEntityConfig` leaves a stale `preset` beside `enabledEntities`; after a
  restart, entities that are not registered again are silently dropped.

Requests, errors, wiring:

* A missing context is a plain `Error` and answered 500; the documentation says 400
  (`src/docs/docs/guides/exception-handling.md:126`), and nothing throws
  `NoTenantContextError`.
* A failure to connect (53300, ECONNREFUSED) reaches the filter as a plain error and is
  answered 500, not 503 (`src/docs/docs/guides/exception-handling.md:196`).
* A provider of the wrong ORM is answered 503, because its message has the word
  "connection". Category `CONNECTION` for 502–504 and the details of
  `TenantValidationError` are never produced; two errors are constructed with their message
  in the place of the code.
* `jwtClaimName` defaults to `tenantId`, not `tenant`
  (`core/interfaces/tenant.interface.ts:64`).
* `buildAsyncConfig` mounts the admin controller even when its service is undefined;
  `entityRegistry` and `defaultEntityPresets` in the options are not consumed.
* The by-id factories do not sanitise the id.

## 10. Not modelled

* Logging, the structured logger's lines, Swagger decorators, DTO validation, response headers:
  no state, no control that a property could be about.
* `findAll`, `getStats`, `getConnectionPoolStats`: they only read.
* `drizzle-migration.helper.ts` and the migrations of `ADMIN_DATABASE`: calls of an external
  tool. A missing folder stops the application, other errors are logged.
* Factories of providers and controllers, constants, `index.ts`: declarations.
* PostgreSQL, HTTP and the drivers: only the outcomes the code tells apart.
