--------------------------- MODULE EntityRegistry ---------------------------
(***************************************************************************)
(* The registry of entities of one process, the entity configurations that *)
(* the admin services compute from it and store in the tenants table, and  *)
(* the entities TypeOrmStrategy opens a tenant's connection with.          *)
(*                                                                         *)
(* The registry lives in memory: a restart empties it, the rows stay.  An  *)
(* entity is registered under its formatted name, a preset lists names as  *)
(* they are given.  Nothing but names matters here, so that the registry   *)
(* is the set of the names it has a class for.                             *)
(*                                                                         *)
(* The validation strategy is a local one: findByCode reads the row that   *)
(* the admin services write.  A tenant has one opening call at a time;     *)
(* calls that overlap are ConnectionPool's.                                *)
(***************************************************************************)
EXTENDS Naturals, FiniteSets

CONSTANTS
    Tenants,   \* tenants (bound)
    Keys,      \* the names entities are registered with
    NameOf,    \* formatKeyToEntityName
    Names,     \* names in rows, presets and requests
    Inherited, \* names every JavaScript object has: 'constructor' and the like
    Presets,
    Contents,  \* what an application's own presets may list (bound)
    MaxMet,    \* configurations a row has during one call (bound)
    NoRow, NoPreset, NoDraft, NoConn, NoCall

\* Fault: the default presets list the entities' class names.
DefaultPreset_ClassNames(p) ==
    CASE p = "basic" -> {"User", "Role"}
      [] p = "userOnly" -> {"User"}
      [] p = "roleOnly" -> {"Role"}
      [] OTHER -> {}

\* DEFAULT_TENANT_ENTITY_PRESETS; getPreset answers [] for any other.
DefaultPreset(p) ==
    CASE p = "basic" -> {"user", "role"}
      [] p = "userOnly" -> {"user"}
      [] p = "roleOnly" -> {"role"}
      [] OTHER -> {}

\* An entityConfig: its enabledEntities, and whether this process validated
\* them by name (history).
EntityConfigs == [enabled : SUBSET Names, validated : BOOLEAN]

\* A getTenantConnection on its way to a connection: it waits for the row, it
\* has the row's names, or it waits for DataSource.initialize with the
\* entities it gave it.
Calls == [at : {"asked", "loaded", "started"}, names : SUBSET Names]

ASSUME NamesAssumption ==
    /\ NameOf \in [Keys -> Names]
    /\ {"user", "role"} \subseteq Names
    /\ Inherited \subseteq Names
    /\ Contents \subseteq SUBSET Names
    /\ {"basic", "full"} \subseteq Presets
    /\ NoPreset \notin Presets
    /\ NoRow \notin EntityConfigs
    /\ NoDraft \notin EntityConfigs
    /\ \A names \in SUBSET Names : names # NoConn
    /\ NoCall \notin Calls

VARIABLES
    registry,  \* the names that have a class
    presets,
    rows,      \* the entityConfig of each tenant's row
    drafts,    \* the entityConfig that a create or update is about to save
    conns,     \* the entities of each tenant's connection
    opening,   \* the call that is opening each tenant's connection
    met        \* history: the configurations the row had during that call

vars == <<registry, presets, rows, drafts, conns, opening, met>>

\* enabledEntities, and whether the process validated them.
Config(names, validated) == [enabled |-> names, validated |-> validated]

Dtos == [entityPreset : Presets \cup {NoPreset}, enabledEntities : SUBSET Names]

Init ==
    /\ registry = {}
    /\ presets = [p \in Presets |-> DefaultPreset(p)]
    /\ rows = [t \in Tenants |-> NoRow]
    /\ drafts = [t \in Tenants |-> NoDraft]
    /\ conns = [t \in Tenants |-> NoConn]
    /\ opening = [t \in Tenants |-> NoCall]
    /\ met = [t \in Tenants |-> {}]

-----------------------------------------------------------------------------

\* Fault: the entities registered before are forgotten.
Registering_Replaces(keys) == {NameOf[k] : k \in keys}

\* The registry after registerEntity or registerEntities.
Registering(keys) == registry \cup {NameOf[k] : k \in keys}

\* Both recompute the preset 'full'.
Register(keys) ==
    /\ registry' = Registering(keys)
    /\ presets' = [presets EXCEPT !["full"] = Registering(keys)]
    /\ UNCHANGED <<rows, drafts, conns, opening, met>>

\* Presets are stored as they are given, 'full' too.
RegisterPreset(p, names) ==
    /\ presets' = [presets EXCEPT ![p] = names]
    /\ UNCHANGED <<registry, rows, drafts, conns, opening, met>>

\* configureEntityRegistry: first the entities, then the presets.
Configure(keys, p, names) ==
    /\ registry' = Registering(keys)
    /\ presets' = [presets EXCEPT !["full"] = Registering(keys), ![p] = names]
    /\ UNCHANGED <<rows, drafts, conns, opening, met>>

-----------------------------------------------------------------------------

Existing(t) == IF rows[t] = NoRow THEN Config({}, FALSE) ELSE rows[t]

\* validateEntityNames finds a name that is not 'in' the registry: neither
\* registered nor inherited from Object.prototype.
Refused(dto) == ~(dto.enabledEntities \subseteq registry \cup Inherited)

\* processEntityConfig: names given one by one outdo the preset, a preset
\* without names changes nothing, and nothing becomes 'basic'.
Processed(t, dto) ==
    LET preset == IF dto.entityPreset = NoPreset THEN {} ELSE presets[dto.entityPreset]
        chosen == IF dto.enabledEntities # {} THEN Config(dto.enabledEntities, TRUE)
                  ELSE IF preset # {} THEN Config(preset, FALSE)
                  ELSE Existing(t)
    IN  IF chosen.enabled = {} THEN Config(presets["basic"], FALSE) ELSE chosen

\* A create or an update up to its save.
Process(t, dto) ==
    /\ drafts[t] = NoDraft
    /\ ~Refused(dto)
    /\ drafts' = [drafts EXCEPT ![t] = Processed(t, dto)]
    /\ UNCHANGED <<registry, presets, rows, conns, opening, met>>

\* The save commits.  Neither the pooled connection nor the call that is
\* opening one is told.
Save(t) ==
    LET seen == IF opening[t] = NoCall THEN met[t] ELSE met[t] \cup {drafts[t]}
    IN  /\ drafts[t] # NoDraft
        /\ opening[t] # NoCall => Cardinality(seen) <= MaxMet
        /\ rows' = [rows EXCEPT ![t] = drafts[t]]
        /\ drafts' = [drafts EXCEPT ![t] = NoDraft]
        /\ met' = [met EXCEPT ![t] = seen]
        /\ UNCHANGED <<registry, presets, conns, opening>>

-----------------------------------------------------------------------------

\* getEntityClasses passes names without a class over; what it finds under an
\* inherited name is no entity.
Entities(enabled) == enabled \cap registry

\* A validated call finds no connection in the pool, and findByCode asks for
\* the tenant's row.
Ask(t) ==
    /\ rows[t] # NoRow
    /\ conns[t] = NoConn /\ opening[t] = NoCall
    /\ opening' = [opening EXCEPT ![t] = [at |-> "asked", names |-> {}]]
    /\ met' = [met EXCEPT ![t] = {rows[t]}]
    /\ UNCHANGED <<registry, presets, rows, drafts, conns>>

\* The database reads the row.
Load(t) ==
    /\ opening[t] # NoCall /\ opening[t].at = "asked"
    /\ opening' = [opening EXCEPT ![t] = [at |-> "loaded", names |-> rows[t].enabled]]
    /\ UNCHANGED <<registry, presets, rows, drafts, conns, met>>

\* Its answer arrives, and TypeOrmStrategy.createConnection goes up to its
\* await: it takes the classes from the registry as it is now.  Its own list
\* replaces the one of getMultiTenantDatabaseConfig, whose fallback for no
\* names is every entity file.
Start(t) ==
    /\ opening[t] # NoCall /\ opening[t].at = "loaded"
    /\ opening' = [opening EXCEPT ![t] =
                     [at |-> "started", names |-> Entities(opening[t].names)]]
    /\ UNCHANGED <<registry, presets, rows, drafts, conns, met>>

\* DataSource.initialize resolves, and the pool keeps the connection.
Opened(t) ==
    /\ opening[t] # NoCall /\ opening[t].at = "started"
    /\ conns' = [conns EXCEPT ![t] = opening[t].names]
    /\ opening' = [opening EXCEPT ![t] = NoCall]
    /\ UNCHANGED <<registry, presets, rows, drafts, met>>

\* findByCode or DataSource.initialize rejects, and so does the call.
OpenFails(t) ==
    /\ opening[t] # NoCall
    /\ opening' = [opening EXCEPT ![t] = NoCall]
    /\ met' = [met EXCEPT ![t] = {}]
    /\ UNCHANGED <<registry, presets, rows, drafts, conns>>

\* The pool gives the connection up.
Close(t) ==
    /\ conns[t] # NoConn
    /\ conns' = [conns EXCEPT ![t] = NoConn]
    /\ met' = [met EXCEPT ![t] = {}]
    /\ UNCHANGED <<registry, presets, rows, drafts, opening>>

\* The process restarts; a save may have been under way.
Restart ==
    /\ registry' = {}
    /\ presets' = [p \in Presets |-> DefaultPreset(p)]
    /\ rows' = [t \in Tenants |-> IF rows[t] = NoRow THEN NoRow
                                  ELSE [rows[t] EXCEPT !.validated = FALSE]]
    /\ drafts' = [t \in Tenants |-> NoDraft]
    /\ conns' = [t \in Tenants |-> NoConn]
    /\ opening' = [t \in Tenants |-> NoCall]
    /\ met' = [t \in Tenants |-> {}]

Next ==
    \/ \E keys \in SUBSET Keys \ {{}} : Register(keys)
    \/ \E p \in Presets, names \in Contents : RegisterPreset(p, names)
    \/ \E keys \in SUBSET Keys, p \in Presets, names \in Contents : Configure(keys, p, names)
    \/ \E t \in Tenants :
          \/ \E dto \in Dtos : Process(t, dto)
          \/ Save(t) \/ Ask(t) \/ Load(t) \/ Start(t) \/ Opened(t) \/ OpenFails(t)
          \/ Close(t)
    \/ Restart

Spec == Init /\ [][Next]_vars

-----------------------------------------------------------------------------
(* Properties.                                                             *)

\* The type invariant.
TypeOK ==
    /\ registry \subseteq Names
    /\ presets \in [Presets -> SUBSET Names]
    /\ rows \in [Tenants -> EntityConfigs \cup {NoRow}]
    /\ drafts \in [Tenants -> EntityConfigs \cup {NoDraft}]
    /\ conns \in [Tenants -> (SUBSET Names) \cup {NoConn}]
    /\ opening \in [Tenants -> Calls \cup {NoCall}]
    /\ met \in [Tenants -> SUBSET EntityConfigs]

\* A connection is opened as one configuration enables that the tenant's row
\* had while the call was under way: it has no entity which that one does not
\* name, not even when it names none, and all of its names when they were
\* accepted one by one since the process started (but for inherited names,
\* which are accepted and have no entity).  That is so in whatever order
\* entities and presets are registered and rows saved, even in the middle of
\* the call.
ServedAsEnabled ==
    \A t \in Tenants :
       conns[t] # NoConn =>
          \E config \in met[t] :
             /\ conns[t] \subseteq config.enabled
             /\ config.validated => config.enabled \ Inherited \subseteq conns[t]
=============================================================================
