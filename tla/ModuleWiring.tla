---------------------------- MODULE ModuleWiring ----------------------------
(***************************************************************************)
(* MultiTenantModule: which providers the options of forRoot, forRootAsync *)
(* and buildAsyncConfig put together, and whether Nest can start the       *)
(* application with them.                                                  *)
(*                                                                         *)
(* Options are a record:                                                   *)
(*   entry         "forRoot", "forRootAsync" or "buildAsync"               *)
(*   orm           orm.type, or Undefined                                  *)
(*   built         ormType, buildAsyncConfig's own copy of it              *)
(*   validation    validationStrategy, or Undefined                        *)
(*   admin         enableAdminModule is not false                          *)
(*   mounts        buildAsyncConfig's enableAdminController                *)
(*   given         the tokens whose provider the application gives         *)
(*                 (customProviders, or the async options' providers)      *)
(*   controllers   the application gives controllers of its own            *)
(*   available     what the application's imports provide                  *)
(*   url           remoteServiceUrl is given                               *)
(*   platform      "express", "fastify" or other                           *)
(*   resolution    tenantResolution, or Undefined                          *)
(*   wants         the providers a handler injects                         *)
(***************************************************************************)
EXTENDS TenantResolution

CONSTANT NoApp   \* the application did not start

\* options.orm?.type || 'typeorm'
OrmTypeOf(o) == IF o.orm = Undefined THEN "typeorm" ELSE o.orm

\* moduleOptions.validationStrategy || 'local'
StrategyOf(o) == IF o.validation = Undefined THEN "local" ELSE o.validation

Async(o) == o.entry # "forRoot"

\* What the module's own imports add to the application's: the admin
\* repository, with forRoot's local validation or the helper's imports.
Available(o) ==
    o.available \cup
    IF \/ o.entry = "forRoot" /\ OrmTypeOf(o) = "typeorm" /\ StrategyOf(o) = "local"
       \/ o.entry = "buildAsync" /\ o.built = "typeorm"
    THEN {"TENANT_ADMIN_REPOSITORY"} ELSE {}

\* ADMIN_DATABASE is a provider of Drizzle's local validation, and always with
\* forRootAsync.
AdminDatabase(o) ==
    Async(o) \/ (OrmTypeOf(o) = "drizzle" /\ StrategyOf(o) = "local")

\* The switch over the ORM, in resolveOrmStrategy and in forRootAsync.
OrmStrategy(o) ==
    IF "ORM_STRATEGY" \in o.given THEN "given"
    ELSE IF OrmTypeOf(o) \in {"typeorm", "drizzle"} THEN OrmTypeOf(o)
    ELSE "throws"

\* Where local validation reads the tenants; it cannot start without.
LocalValidation(o) ==
    IF OrmTypeOf(o) = "drizzle"
    THEN IF AdminDatabase(o) THEN "local" ELSE "throws"
    ELSE IF OrmTypeOf(o) = "typeorm" /\ "TENANT_ADMIN_REPOSITORY" \in Available(o)
         THEN "local" ELSE "throws"

\* resolveValidationStrategy.  'custom' leaves the token undefined for
\* customProviders to override; everything unknown is local.
StaticValidation(o) ==
    IF "TENANT_VALIDATION_STRATEGY" \in o.given THEN "given"
    ELSE CASE o.validation = "remote" ->
                  IF "HttpService" \in o.available THEN "remote" ELSE "throws"
           [] o.validation = "custom" -> "none"
           [] OTHER -> LocalValidation(o)

\* Fault: without a provider, 'custom' leaves the token undefined.
AsyncValidation_Lenient(o) ==
    IF "TENANT_VALIDATION_STRATEGY" \in o.given THEN "given"
    ELSE CASE StrategyOf(o) = "remote" -> "remote"
           [] StrategyOf(o) = "local" -> LocalValidation(o)
           [] OTHER -> "none"

\* The factory of forRootAsync.
AsyncValidation(o) ==
    IF "TENANT_VALIDATION_STRATEGY" \in o.given THEN "given"
    ELSE CASE StrategyOf(o) = "remote" ->
                  IF "HttpService" \in o.available /\ o.url THEN "remote" ELSE "throws"
           [] StrategyOf(o) = "local" -> LocalValidation(o)
           [] OTHER -> "throws"

ValidationStrategy(o) == IF Async(o) THEN AsyncValidation(o) ELSE StaticValidation(o)

\* forRoot provides the admin service with local validation only, unless the
\* application gives its own.
StaticAdmin(o) ==
    IF "TENANT_ADMIN_SERVICE" \in o.given THEN "given"
    ELSE IF StrategyOf(o) # "local" \/ ~o.admin \/ OrmTypeOf(o) \notin {"typeorm", "drizzle"}
         THEN "none"
    ELSE IF OrmTypeOf(o) = "typeorm" /\ "DataSource" \notin o.available
         THEN "throws"
    ELSE OrmTypeOf(o)

\* The factory of forRootAsync, which may leave the token undefined.
AsyncAdmin(o) ==
    IF "TENANT_ADMIN_SERVICE" \in o.given THEN "given"
    ELSE IF ~o.admin \/ StrategyOf(o) # "local" THEN "undefined"
    ELSE CASE OrmTypeOf(o) = "typeorm" ->
                  IF {"TENANT_ADMIN_REPOSITORY", "DataSource"} \subseteq Available(o)
                  THEN "typeorm" ELSE "throws"
           [] OrmTypeOf(o) = "drizzle" -> "drizzle"
           [] OTHER -> "undefined"

AdminService(o) == IF Async(o) THEN AsyncAdmin(o) ELSE StaticAdmin(o)

\* TenantAdminController is mounted by forRoot beside the admin service it
\* made, and by buildAsyncConfig whenever it is not switched off.
AdminRoutes(o) ==
    CASE o.entry = "forRoot" -> StaticAdmin(o) \in {"typeorm", "drizzle"} /\ ~o.controllers
      [] o.entry = "buildAsync" -> o.mounts
      [] OTHER -> FALSE

\* The request-scoped providers of the module.  The application registers
\* repositories itself.
Injectable(o) ==
    {"TENANT_REPOSITORY"} \cup
    IF Async(o) THEN {"TENANT_DATA_SOURCE", "TENANT_DRIZZLE_DB"}
    ELSE CASE OrmTypeOf(o) = "typeorm" -> {"TENANT_DATA_SOURCE"}
           [] OrmTypeOf(o) = "drizzle" -> {"TENANT_DRIZZLE_DB"}
           [] OTHER -> {}

\* configure: every platform that is not Fastify gets Express's middleware.
Middleware(o) == IF o.platform = "fastify" THEN "fastify" ELSE "express"

\* Every singleton is made when the application starts; one factory that throws
\* or one token without a provider stops it.
Starts(o) ==
    /\ "throws" \notin {OrmStrategy(o), ValidationStrategy(o), AdminService(o)}
    /\ o.wants \subseteq Injectable(o)

\* What requests see of an application that started.
Assembled(o) ==
    IF ~Starts(o) THEN NoApp
    ELSE [orm |-> IF OrmTypeOf(o) = "drizzle" THEN "drizzle" ELSE "typeorm",
          validation |-> ValidationStrategy(o),
          platform |-> Middleware(o),
          resolution |-> o.resolution,
          wants |-> o.wants]
=============================================================================
