------------------------ MODULE EntityRegistryProofs ------------------------
(***************************************************************************)
(* What tenants' connections are opened with, proved for any entities,     *)
(* presets and tenants.                                                    *)
(***************************************************************************)
EXTENDS EntityRegistry, TLAPS

\* A configuration whose names were accepted: they stay registered while the
\* process lives.
Held(config) == config.validated => config.enabled \subseteq registry \cup Inherited

\* That is so whether the row has it, had it during a call, or is about to.
AcceptedStayRegistered ==
    \A t \in Tenants :
       /\ rows[t] # NoRow => Held(rows[t])
       /\ drafts[t] # NoDraft => Held(drafts[t])
       /\ \A config \in met[t] : Held(config)

\* The set of entities is the one that a configuration enables.
Fits(entities, config) ==
    /\ entities \subseteq config.enabled
    /\ config.validated => config.enabled \ Inherited \subseteq entities

\* A call knows of the row what it was at one of the call's moments, and no
\* connection is pooled meanwhile.
CallsKnowRows ==
    \A t \in Tenants :
       opening[t] # NoCall =>
          /\ conns[t] = NoConn
          /\ rows[t] # NoRow /\ rows[t] \in met[t]
          /\ opening[t].at = "loaded" =>
                \E config \in met[t] : opening[t].names = config.enabled
          /\ opening[t].at = "started" =>
                \E config \in met[t] : Fits(opening[t].names, config)

RegistryInv ==
    /\ TypeOK
    /\ AcceptedStayRegistered
    /\ CallsKnowRows
    /\ ServedAsEnabled

\* The presets and the registry have their types after a registration.
LEMMA RegisteringType ==
    ASSUME TypeOK, NEW keys \in SUBSET Keys
    PROVE  /\ Registering(keys) \subseteq Names
           /\ registry \subseteq Registering(keys)
BY NamesAssumption DEF TypeOK, Registering

\* Defaults are sets of names.
LEMMA DefaultType == \A p \in Presets : DefaultPreset(p) \subseteq Names
BY NamesAssumption DEF DefaultPreset

\* What a create or an update stores is a configuration, and its names are
\* registered when the dto's were validated or the row's had been.
LEMMA ProcessedConfig ==
    ASSUME TypeOK, AcceptedStayRegistered, NEW t \in Tenants, NEW dto \in Dtos, ~Refused(dto)
    PROVE  /\ Processed(t, dto) \in EntityConfigs
           /\ Held(Processed(t, dto))
<1>1. rows[t] # NoRow => rows[t] \in EntityConfigs
  BY DEF TypeOK
<1>2. /\ Existing(t) \in EntityConfigs
      /\ Held(Existing(t))
  BY <1>1 DEF Existing, Config, EntityConfigs, AcceptedStayRegistered, Held
<1>3. /\ dto.entityPreset # NoPreset => presets[dto.entityPreset] \subseteq Names
      /\ presets["basic"] \subseteq Names
      /\ dto.enabledEntities \subseteq Names
  BY NamesAssumption DEF TypeOK, Dtos
<1>4. dto.enabledEntities \subseteq registry \cup Inherited
  BY DEF Refused
<1> DEFINE preset == IF dto.entityPreset = NoPreset THEN {} ELSE presets[dto.entityPreset]
           chosen == IF dto.enabledEntities # {} THEN Config(dto.enabledEntities, TRUE)
                     ELSE IF preset # {} THEN Config(preset, FALSE)
                     ELSE Existing(t)
<1>5. preset \subseteq Names
  BY <1>3
<1>6. /\ chosen \in EntityConfigs
      /\ Held(chosen)
  BY <1>2, <1>3, <1>4, <1>5 DEF Config, EntityConfigs, Held
<1>7. /\ Config(presets["basic"], FALSE) \in EntityConfigs
      /\ Held(Config(presets["basic"], FALSE))
  BY <1>3 DEF Config, EntityConfigs, Held
<1>8. Processed(t, dto) = IF chosen.enabled = {} THEN Config(presets["basic"], FALSE) ELSE chosen
  BY DEF Processed
<1> QED
  BY <1>6, <1>7, <1>8

\* A configuration whose names are registered is served as it enables.
LEMMA EntitiesFit ==
    ASSUME NEW config \in EntityConfigs, Held(config)
    PROVE  Fits(Entities(config.enabled), config)
BY DEF Held, Fits, Entities, EntityConfigs

\* The invariant holds initially.
LEMMA RegistryInit == Init => RegistryInv
<1> SUFFICES ASSUME Init PROVE RegistryInv
  OBVIOUS
<1>1. TypeOK
  BY DefaultType DEF Init, TypeOK
<1>2. AcceptedStayRegistered /\ CallsKnowRows /\ ServedAsEnabled
  BY DEF Init, AcceptedStayRegistered, CallsKnowRows, ServedAsEnabled
<1> QED
  BY <1>1, <1>2 DEF RegistryInv

\* A registration keeps the invariant: the registry only grows.
LEMMA RegistrationKeeps ==
    ASSUME RegistryInv,
           registry \subseteq registry', registry' \subseteq Names,
           presets' \in [Presets -> SUBSET Names],
           UNCHANGED <<rows, drafts, conns, opening, met>>
    PROVE  RegistryInv'
<1>1. TypeOK'
  BY DEF RegistryInv, TypeOK
<1>2. AcceptedStayRegistered'
  BY DEF RegistryInv, AcceptedStayRegistered, Held
<1>3. CallsKnowRows' /\ ServedAsEnabled'
  BY DEF RegistryInv, CallsKnowRows, Fits, ServedAsEnabled
<1> QED
  BY <1>1, <1>2, <1>3 DEF RegistryInv

\* A step of a tenant's own call keeps the invariant when it leaves the call
\* knowing one of the configurations it met, and these are the row's or were
\* met before.
LEMMA CallKeeps ==
    ASSUME RegistryInv, NEW t \in Tenants,
           NEW o \in Calls, opening' = [opening EXCEPT ![t] = o],
           NEW x \in SUBSET EntityConfigs, met' = [met EXCEPT ![t] = x],
           rows[t] # NoRow, rows[t] \in x,
           \A config \in x : Held(config),
           o.at = "loaded" => \E config \in x : o.names = config.enabled,
           o.at = "started" => \E config \in x : Fits(o.names, config),
           conns[t] = NoConn,
           UNCHANGED <<registry, presets, rows, drafts, conns>>
    PROVE  RegistryInv'
<1>1. TypeOK'
  BY DEF RegistryInv, TypeOK
<1>2. AcceptedStayRegistered'
  BY DEF RegistryInv, TypeOK, AcceptedStayRegistered, Held
<1>3. CallsKnowRows'
  BY DEF RegistryInv, TypeOK, CallsKnowRows, Fits
<1>4. ServedAsEnabled'
  BY DEF RegistryInv, TypeOK, ServedAsEnabled
<1> QED
  BY <1>1, <1>2, <1>3, <1>4 DEF RegistryInv

\* Every step keeps the invariant.
LEMMA RegistryStep == RegistryInv /\ [Next]_vars => RegistryInv'
<1> SUFFICES ASSUME RegistryInv, [Next]_vars PROVE RegistryInv'
  OBVIOUS
<1> USE DEF RegistryInv
<1>1. ASSUME NEW keys \in SUBSET Keys, Register(keys) PROVE RegistryInv'
  <2>1. presets' \in [Presets -> SUBSET Names]
    BY <1>1, RegisteringType DEF Register, TypeOK
  <2> QED
    BY <1>1, <2>1, RegisteringType, RegistrationKeeps DEF Register
<1>2. ASSUME NEW p \in Presets, NEW names \in Contents, RegisterPreset(p, names)
      PROVE  RegistryInv'
  <2>1. presets' \in [Presets -> SUBSET Names]
    BY <1>2, NamesAssumption DEF RegisterPreset, TypeOK
  <2> QED
    BY <1>2, <2>1, RegistrationKeeps DEF RegisterPreset, TypeOK
<1>3. ASSUME NEW keys \in SUBSET Keys, NEW p \in Presets, NEW names \in Contents,
             Configure(keys, p, names)
      PROVE  RegistryInv'
  <2>1. presets' \in [Presets -> SUBSET Names]
    BY <1>3, RegisteringType, NamesAssumption DEF Configure, TypeOK
  <2> QED
    BY <1>3, <2>1, RegisteringType, RegistrationKeeps DEF Configure
<1>4. ASSUME NEW t \in Tenants, NEW dto \in Dtos, Process(t, dto) PROVE RegistryInv'
  <2>1. /\ drafts' = [drafts EXCEPT ![t] = Processed(t, dto)]
        /\ Processed(t, dto) \in EntityConfigs
        /\ Held(Processed(t, dto))
        /\ UNCHANGED <<registry, presets, rows, conns, opening, met>>
    BY <1>4, ProcessedConfig DEF Process
  <2>2. TypeOK'
    BY <2>1 DEF TypeOK
  <2>3. AcceptedStayRegistered'
    BY <2>1 DEF TypeOK, AcceptedStayRegistered, Held
  <2>4. CallsKnowRows' /\ ServedAsEnabled'
    BY <2>1 DEF CallsKnowRows, Fits, ServedAsEnabled
  <2> QED
    BY <2>2, <2>3, <2>4
<1>5. ASSUME NEW t \in Tenants, Save(t) PROVE RegistryInv'
  <2> DEFINE seen == IF opening[t] = NoCall THEN met[t] ELSE met[t] \cup {drafts[t]}
  <2>1. /\ drafts[t] \in EntityConfigs /\ drafts[t] # NoRow /\ drafts[t] # NoDraft
        /\ rows' = [rows EXCEPT ![t] = drafts[t]]
        /\ drafts' = [drafts EXCEPT ![t] = NoDraft]
        /\ met' = [met EXCEPT ![t] = seen]
        /\ UNCHANGED <<registry, presets, conns, opening>>
    BY <1>5, NamesAssumption DEF Save, TypeOK
  <2>2. /\ seen \in SUBSET EntityConfigs
        /\ met[t] \subseteq seen
        /\ opening[t] # NoCall => drafts[t] \in seen
        /\ \A config \in seen : Held(config)
    BY <2>1 DEF TypeOK, AcceptedStayRegistered
  <2> HIDE DEF seen
  <2>3. TypeOK'
    BY <2>1, <2>2 DEF TypeOK
  <2>4. AcceptedStayRegistered'
    BY <2>1, <2>2 DEF TypeOK, AcceptedStayRegistered, Held
  <2>5. CallsKnowRows'
    BY <2>1, <2>2 DEF TypeOK, CallsKnowRows, Fits
  <2>6. ServedAsEnabled'
    BY <2>1, <2>2 DEF TypeOK, ServedAsEnabled
  <2> QED
    BY <2>3, <2>4, <2>5, <2>6
<1>6. ASSUME NEW t \in Tenants, Ask(t) PROVE RegistryInv'
  <2>1. [at |-> "asked", names |-> {}] \in Calls
    BY DEF Calls
  <2>2. {rows[t]} \in SUBSET EntityConfigs /\ Held(rows[t])
    BY <1>6 DEF Ask, TypeOK, AcceptedStayRegistered
  <2> QED
    BY <1>6, <2>1, <2>2, CallKeeps DEF Ask
<1>7. ASSUME NEW t \in Tenants, Load(t) PROVE RegistryInv'
  <2> DEFINE o == [at |-> "loaded", names |-> rows[t].enabled]
  <2>1. /\ rows[t] # NoRow /\ rows[t] \in met[t] /\ rows[t] \in EntityConfigs
        /\ conns[t] = NoConn
        /\ met[t] \in SUBSET EntityConfigs
        /\ \A config \in met[t] : Held(config)
    BY <1>7 DEF Load, TypeOK, CallsKnowRows, AcceptedStayRegistered
  <2>2. o \in Calls
    BY <2>1 DEF Calls, EntityConfigs
  <2> QED
    BY <1>7, <2>1, <2>2, CallKeeps DEF Load, TypeOK
<1>8. ASSUME NEW t \in Tenants, Start(t) PROVE RegistryInv'
  <2>1. PICK config \in met[t] : opening[t].names = config.enabled
    BY <1>8 DEF Start, CallsKnowRows
  <2>2. /\ config \in EntityConfigs /\ Held(config)
        /\ met[t] \in SUBSET EntityConfigs
        /\ \A c \in met[t] : Held(c)
        /\ rows[t] # NoRow /\ rows[t] \in met[t]
        /\ conns[t] = NoConn
    BY <1>8, <2>1 DEF Start, TypeOK, CallsKnowRows, AcceptedStayRegistered
  <2>3. Fits(Entities(opening[t].names), config)
    BY <2>1, <2>2, EntitiesFit
  <2>4. Entities(opening[t].names) \subseteq Names
    BY <2>1, <2>2 DEF Entities, EntityConfigs
  <2> DEFINE o == [at |-> "started", names |-> Entities(opening[t].names)]
  <2>5. o \in Calls
    BY <2>4 DEF Calls
  <2> QED
    BY <1>8, <2>1, <2>2, <2>3, <2>5, CallKeeps DEF Start, TypeOK
<1>9. ASSUME NEW t \in Tenants, Opened(t) PROVE RegistryInv'
  <2>1. /\ opening[t].names \subseteq Names
        /\ \E config \in met[t] : Fits(opening[t].names, config)
    BY <1>9 DEF Opened, TypeOK, Calls, CallsKnowRows
  <2>2. TypeOK'
    BY <1>9, <2>1 DEF Opened, TypeOK
  <2>3. AcceptedStayRegistered'
    BY <1>9 DEF Opened, AcceptedStayRegistered, Held
  <2>4. CallsKnowRows'
    BY <1>9 DEF Opened, TypeOK, CallsKnowRows, Fits
  <2>5. ServedAsEnabled'
    BY <1>9, <2>1 DEF Opened, TypeOK, ServedAsEnabled, Fits
  <2> QED
    BY <2>2, <2>3, <2>4, <2>5
<1>10. ASSUME NEW t \in Tenants, OpenFails(t) PROVE RegistryInv'
  <2>1. TypeOK' /\ AcceptedStayRegistered' /\ CallsKnowRows'
    BY <1>10 DEF OpenFails, TypeOK, AcceptedStayRegistered, Held, CallsKnowRows, Fits
  <2>2. ServedAsEnabled'
    BY <1>10 DEF OpenFails, TypeOK, CallsKnowRows, ServedAsEnabled
  <2> QED
    BY <2>1, <2>2
<1>11. ASSUME NEW t \in Tenants, Close(t) PROVE RegistryInv'
  <2>1. opening[t] = NoCall
    BY <1>11 DEF Close, CallsKnowRows
  <2>2. TypeOK' /\ AcceptedStayRegistered' /\ ServedAsEnabled'
    BY <1>11 DEF Close, TypeOK, AcceptedStayRegistered, Held, ServedAsEnabled
  <2>3. CallsKnowRows'
    BY <1>11, <2>1 DEF Close, TypeOK, CallsKnowRows, Fits
  <2> QED
    BY <2>2, <2>3
<1>12. ASSUME Restart PROVE RegistryInv'
  <2>1. \A t \in Tenants : rows[t] # NoRow =>
           /\ rows'[t] \in EntityConfigs
           /\ ~rows'[t].validated
    <3>1. TAKE t \in Tenants
    <3>2. HAVE rows[t] # NoRow
    <3>3. rows[t] \in EntityConfigs
      BY <3>2 DEF TypeOK
    <3>4. rows'[t] = [rows[t] EXCEPT !.validated = FALSE]
      BY <1>12, <3>2 DEF Restart
    <3> QED
      BY <3>3, <3>4 DEF EntityConfigs
  <2>2. TypeOK'
    <3>1. rows' \in [Tenants -> EntityConfigs \cup {NoRow}]
      BY <1>12, <2>1 DEF Restart
    <3> QED
      BY <1>12, <3>1, DefaultType DEF Restart, TypeOK
  <2>3. AcceptedStayRegistered'
    BY <1>12, <2>1 DEF Restart, AcceptedStayRegistered, Held
  <2>4. CallsKnowRows' /\ ServedAsEnabled'
    BY <1>12 DEF Restart, CallsKnowRows, ServedAsEnabled
  <2> QED
    BY <2>2, <2>3, <2>4
<1>13. CASE UNCHANGED vars
  BY <1>13 DEF vars, TypeOK, AcceptedStayRegistered, Held, CallsKnowRows, Fits, ServedAsEnabled
<1> QED
  BY <1>1, <1>2, <1>3, <1>4, <1>5, <1>6, <1>7, <1>8, <1>9, <1>10, <1>11, <1>12, <1>13 DEF Next

LEMMA RegistryInvariance == Spec => []RegistryInv
<1> QED
  BY RegistryInit, RegistryStep, PTL DEF Spec

\* Every variable of the registry keeps its type.
THEOREM RegistryTypes == Spec => []TypeOK
<1>1. RegistryInv => TypeOK
  BY DEF RegistryInv
<1> QED
  BY <1>1, RegistryInvariance, PTL

\* A connection has the entities of a configuration that its tenant's row had
\* while it was being opened, and all of them when they were accepted by
\* name; whatever is registered, saved and restarted meanwhile.
THEOREM EnabledAreServed == Spec => []ServedAsEnabled
<1>1. RegistryInv => ServedAsEnabled
  BY DEF RegistryInv
<1> QED
  BY <1>1, RegistryInvariance, PTL
=============================================================================
