---------------------------- MODULE RoutingProofs ----------------------------
(***************************************************************************)
(* ConnectionPool implements TenantRouting, for every value of its         *)
(* constants: each step of the pool is a step of the routing service or    *)
(* changes nothing that its callers see.                                   *)
(***************************************************************************)
EXTENDS ConnectionPoolProofs

\* The three invariants the refinement rests on.
PoolInv == TypeInv /\ RoutedToOwnSchema /\ AdmissionInv

RoutingVars == <<LiveSchemas, AskedSchema, MetTenant, ServedSchema>>

RoutingStep == Routing!Next \/ UNCHANGED RoutingVars

\* No step reopens a connection somebody uses.
HeldKept == \A u \in Tasks : pc[u] = "using" => cschema'[held[u]] = cschema[held[u]]

SameCall(u) ==
    /\ pc'[u] = pc[u] /\ req'[u] = req[u]
    /\ held'[u] = held[u] /\ seen'[u] = seen[u]

-----------------------------------------------------------------------------

\* What the mapping makes of the state of one call.
LEMMA MappedCall ==
    ASSUME TypeInv, NEW t \in Tasks
    PROVE  /\ AskedSchema[t] = IF InCall(t) THEN req[t] ELSE NoSchema
           /\ MetTenant[t] = (InCall(t) /\ WasThere(t))
           /\ ServedSchema[t] = IF pc[t] = "using" THEN cschema[held[t]] ELSE NoSchema
           /\ InCall(t) => req[t] \in Schemas /\ req[t] # NoSchema
BY NamesAssumption DEF AskedSchema, MetTenant, ServedSchema, WasThere, TypeInv, CallTypeOK

\* Call u stays as it is, or moves between stages its caller cannot tell apart.
Hidden(u) ==
    \/ SameCall(u)
    \/ /\ InCall(u) <=> InCall(u)'
       /\ InCall(u) => req'[u] = req[u] /\ seen'[u] = seen[u]
       /\ pc[u] # "using" /\ pc'[u] # "using"

\* Steps that are hidden from every caller are not seen at all.
LEMMA HiddenFromCaller ==
    ASSUME UNCHANGED tenants, HeldKept,
           \A u \in Tasks : Hidden(u)
    PROVE  UNCHANGED RoutingVars
<1>1. ASSUME NEW u \in Tasks
      PROVE  /\ InCall(u) = InCall(u)'
             /\ InCall(u) => req'[u] = req[u] /\ seen'[u] = seen[u]
             /\ (pc[u] = "using") = (pc'[u] = "using")
             /\ pc[u] = "using" => cschema'[held'[u]] = cschema[held[u]]
  BY DEF Hidden, SameCall, InCall, HeldKept
<1>2. AskedSchema' = AskedSchema
  BY <1>1 DEF AskedSchema
<1>3. MetTenant' = MetTenant
  <2>1. ASSUME NEW u \in Tasks
        PROVE  (InCall(u) /\ \E row \in seen[u] : row # Absent)
               = (InCall(u) /\ \E row \in seen[u] : row # Absent)'
    BY <1>1
  <2> QED
    BY <2>1 DEF MetTenant
<1>4. ServedSchema' = ServedSchema
  BY <1>1 DEF ServedSchema
<1> QED
  BY <1>2, <1>3, <1>4 DEF RoutingVars, LiveSchemas

\* A call that settles leaves the routing service, if it was in it.
LEMMA SettlesLeaves ==
    ASSUME TypeInv, UNCHANGED tenants, HeldKept, NEW t \in Tasks, Settles(t)
    PROVE  RoutingStep
<1>1. /\ pc'[t] = "idle"
      /\ \A u \in Tasks \ {t} : SameCall(u)
  BY DEF Settles, SameCall, TypeInv, CallTypeOK
<1>2. CASE InCall(t)
  <2>1. AskedSchema' = [AskedSchema EXCEPT ![t] = NoSchema]
    BY <1>1 DEF AskedSchema, InCall, SameCall
  <2>2. MetTenant' = [MetTenant EXCEPT ![t] = FALSE]
    <3>1. ASSUME NEW u \in Tasks
          PROVE  (InCall(u) /\ \E row \in seen[u] : row # Absent)'
                 = IF u = t THEN FALSE
                   ELSE (InCall(u) /\ \E row \in seen[u] : row # Absent)
      BY <1>1 DEF InCall, SameCall
    <3> QED
      BY <3>1 DEF MetTenant
  <2>3. ServedSchema' = [ServedSchema EXCEPT ![t] = NoSchema]
    BY <1>1 DEF ServedSchema, SameCall, HeldKept
  <2>4. AskedSchema[t] # NoSchema
    BY <1>2, MappedCall
  <2> QED
    BY <2>1, <2>2, <2>3, <2>4
    DEF RoutingStep, Routing!Next, Routing!Leave, LiveSchemas
<1>3. CASE ~InCall(t)
  <2>1. ~InCall(t)' /\ pc[t] # "using" /\ pc'[t] # "using"
    BY <1>1, <1>3 DEF InCall
  <2>2. \A u \in Tasks : Hidden(u)
    BY <1>1, <1>3, <2>1 DEF Hidden
  <2>3. UNCHANGED RoutingVars
    BY <2>2, HiddenFromCaller
  <2> QED
    BY <2>3 DEF RoutingStep
<1> QED
  BY <1>2, <1>3

\* A call that goes on to wait elsewhere is not seen to move.
LEMMA AwaitsHidden ==
    ASSUME TypeInv, UNCHANGED tenants, HeldKept, NEW t \in Tasks,
           InCall(t), pc[t] # "using",
           NEW p \in {"evicting", "loading", "creating"}, Awaits(t, p)
    PROVE  RoutingStep
<1>1. /\ InCall(t)' /\ pc'[t] # "using" /\ req'[t] = req[t] /\ seen'[t] = seen[t]
      /\ \A u \in Tasks \ {t} : SameCall(u)
  BY DEF Awaits, SameCall, InCall, TypeInv, CallTypeOK
<1>2. \A u \in Tasks : Hidden(u)
  BY <1>1 DEF Hidden
<1>3. UNCHANGED RoutingVars
  BY <1>2, HiddenFromCaller
<1> QED
  BY <1>3 DEF RoutingStep

\* A call that returns a connection of its own schema is served.
LEMMA ReturnsServes ==
    ASSUME PoolInv, PoolInv', UNCHANGED tenants, HeldKept, NEW t \in Tasks,
           InCall(t), pc[t] # "using", NEW c \in Conns, Returns(t, c),
           Validates(req[t]) => WasThere(t)
    PROVE  RoutingStep
<1>1. /\ pc'[t] = "using" /\ req'[t] = req[t] /\ seen'[t] = seen[t] /\ InCall(t)'
      /\ \A u \in Tasks \ {t} : SameCall(u)
  BY DEF Returns, SameCall, InCall, PoolInv, TypeInv, CallTypeOK
<1>2. cschema'[held'[t]] = req[t]
  BY <1>1 DEF PoolInv, RoutedToOwnSchema, CallsRouted
<1>3. AskedSchema' = AskedSchema
  BY <1>1 DEF AskedSchema, SameCall, InCall
<1>4. MetTenant' = MetTenant
  <2>1. ASSUME NEW u \in Tasks
        PROVE  (InCall(u) /\ \E row \in seen[u] : row # Absent)'
               = (InCall(u) /\ \E row \in seen[u] : row # Absent)
    BY <1>1 DEF InCall, SameCall
  <2> QED
    BY <2>1 DEF MetTenant
<1>5. ServedSchema' = [ServedSchema EXCEPT ![t] = req[t]]
  BY <1>1, <1>2 DEF ServedSchema, SameCall, HeldKept
<1>6. /\ AskedSchema[t] = req[t] /\ req[t] # NoSchema
      /\ ServedSchema[t] = NoSchema
      /\ req[t] \in CheckedSchemas => MetTenant[t]
  BY MappedCall DEF PoolInv, CheckedSchemas
<1> QED
  BY <1>3, <1>4, <1>5, <1>6
  DEF RoutingStep, Routing!Next, Routing!Serve, LiveSchemas

\* A step that changes nothing of any call is not seen.
LEMMA CallsHidden ==
    ASSUME UNCHANGED <<tenants, callVars>>, HeldKept
    PROVE  RoutingStep
<1>1. \A u \in Tasks : Hidden(u)
  BY DEF Hidden, SameCall, callVars
<1>2. UNCHANGED RoutingVars
  BY <1>1, HiddenFromCaller
<1> QED
  BY <1>2 DEF RoutingStep

\* What a loop does when it moves on is not seen, but a removal's end.
LEMMA NextEntryHidden ==
    ASSUME TypeInv, UNCHANGED tenants, HeldKept, NEW t \in Tasks, NEW cs,
           NextEntry(t, cs)
    PROVE  RoutingStep
<1>1. CASE UNCHANGED callVars
  BY <1>1, CallsHidden
<1>2. CASE Settles(t)
  BY <1>2, SettlesLeaves
<1>3. CASE pc[t] = "evicting" /\ Awaits(t, CreateStage(req[t]))
  <2>1. CreateStage(req[t]) \in {"evicting", "loading", "creating"}
    BY DEF CreateStage
  <2>2. InCall(t) /\ pc[t] # "using"
    BY <1>3 DEF InCall
  <2> QED
    BY <1>3, <2>1, <2>2, AwaitsHidden
<1> QED
  BY <1>1, <1>2, <1>3 DEF NextEntry

\* Opening a connection nobody refers to reopens no connection in use.
LEMMA OpenKeepsHeld ==
    ASSUME TypeInv, FreeConns # {}, NEW s, NEW es, OpenConn(FreshConn, s, es)
    PROVE  HeldKept
<1>1. FreshConn \in Conns /\ ~Referenced(FreshConn)
  BY FreshConnIsConn DEF FreeConns, FreshConn
<1>2. \A u \in Tasks : held[u] # FreshConn
  BY <1>1 DEF Referenced
<1> QED
  BY <1>1, <1>2 DEF HeldKept, OpenConn, TypeInv, ConnTypeOK

\* A step that opens nothing reopens no connection in use.
LEMMA UnchangedKeepsHeld == ASSUME UNCHANGED cschema PROVE HeldKept
BY DEF HeldKept

\* The initial states are initial states of the routing service.
LEMMA InitRouted == Init => Routing!Init
<1> SUFFICES ASSUME Init PROVE Routing!Init
  OBVIOUS
<1>1. LiveSchemas \subseteq Schemas
  BY DEF LiveSchemas
<1>2. \A t \in Tasks : pc[t] = "idle" /\ ~InCall(t)
  BY DEF Init, InCall
<1> QED
  BY <1>1, <1>2 DEF Routing!Init, AskedSchema, MetTenant, ServedSchema

LEMMA NextRefines ==
    PoolInv /\ PoolInv' /\ [Next]_vars => RoutingStep
<1> SUFFICES ASSUME PoolInv, PoolInv', [Next]_vars
             PROVE  RoutingStep
  OBVIOUS
<1>a. TypeInv /\ TypeInv'
  BY DEF PoolInv
<1>1. ASSUME NEW t \in Tasks, NEW s \in Requested, StartGet(t, s)
      PROVE  RoutingStep
  <2>1. /\ UNCHANGED <<tenants, cschema>>
        /\ ~InCall(t) /\ pc[t] # "using"
        /\ pc'[t] = "checking" /\ InCall(t)'
        /\ req'[t] = s /\ seen'[t] = {tenants[s]}
        /\ \A u \in Tasks \ {t} : SameCall(u)
    BY <1>1, <1>a
    DEF StartGet, MayStart, connVars, SameCall, InCall, TypeInv, CallTypeOK
  <2>2. AskedSchema' = [AskedSchema EXCEPT ![t] = s] /\ AskedSchema[t] = NoSchema
    BY <2>1 DEF AskedSchema, SameCall, InCall
  <2>3. MetTenant' = [MetTenant EXCEPT ![t] = s \in LiveSchemas]
    <3>1. s \in LiveSchemas <=> tenants[s] # Absent
      BY NamesAssumption DEF LiveSchemas
    <3>2. ASSUME NEW u \in Tasks
          PROVE  (InCall(u) /\ \E row \in seen[u] : row # Absent)'
                 = IF u = t THEN s \in LiveSchemas
                   ELSE (InCall(u) /\ \E row \in seen[u] : row # Absent)
      <4>1. CASE u = t
        <5>1. (InCall(t) /\ \E row \in seen[t] : row # Absent)' <=> s \in LiveSchemas
          BY <2>1, <3>1
        <5> QED
          BY <4>1, <5>1
      <4>2. CASE u # t
        BY <2>1, <4>2 DEF SameCall, InCall
      <4> QED
        BY <4>1, <4>2
    <3> QED
      BY <3>2 DEF MetTenant
  <2>4. ServedSchema' = ServedSchema
    BY <2>1 DEF ServedSchema, SameCall
  <2>5. s \in Schemas
    BY NamesAssumption
  <2> QED
    BY <2>1, <2>2, <2>3, <2>4, <2>5
    DEF RoutingStep, Routing!Next, Routing!Ask, LiveSchemas
<1>2. ASSUME NEW t \in Tasks, NEW s \in Requested, StartRemove(t, s)
      PROVE  RoutingStep
  <2>1. /\ pc[t] = "idle" /\ pc'[t] = "removing"
        /\ \A u \in Tasks \ {t} : SameCall(u)
        /\ UNCHANGED <<tenants, cschema>>
    BY <1>2, <1>a DEF StartRemove, MayStart, SameCall, TypeInv, CallTypeOK
  <2>2. \A u \in Tasks : Hidden(u)
    BY <2>1 DEF Hidden, InCall
  <2> QED
    BY <2>1, <2>2, HiddenFromCaller, UnchangedKeepsHeld DEF RoutingStep
<1>3. ASSUME NEW t \in Tasks, Get(t)
      PROVE  RoutingStep
  <2>1. CASE ReadForCheck(t) \/ ReadForConfig(t)
    <3>1. /\ UNCHANGED <<tenants, cschema>>
          /\ InCall(t) /\ InCall(t)' /\ pc[t] # "using" /\ pc'[t] # "using"
          /\ UNCHANGED <<req, seen, held>>
          /\ \A u \in Tasks \ {t} : pc'[u] = pc[u]
      BY <2>1, <1>a
      DEF ReadForCheck, ReadForConfig, connVars, InCall, TypeInv, CallTypeOK
    <3>2. \A u \in Tasks : Hidden(u)
      BY <3>1 DEF Hidden, SameCall
    <3> QED
      BY <3>1, <3>2, HiddenFromCaller, UnchangedKeepsHeld DEF RoutingStep
  <2>2. CASE ReadFails(t)
    <3>1. UNCHANGED <<tenants, cschema>>
      BY <2>2 DEF ReadFails, connVars
    <3>2. CASE Validator = "remote"
      <4>1. /\ InCall(t) /\ InCall(t)' /\ pc[t] # "using" /\ pc'[t] # "using"
            /\ UNCHANGED <<req, seen, held>>
            /\ \A u \in Tasks \ {t} : pc'[u] = pc[u]
        BY <2>2, <3>2, <1>a DEF ReadFails, InCall, TypeInv, CallTypeOK
      <4>2. \A u \in Tasks : Hidden(u)
        BY <4>1 DEF Hidden, SameCall
      <4> QED
        BY <3>1, <4>2, HiddenFromCaller, UnchangedKeepsHeld DEF RoutingStep
    <3>3. CASE Validator # "remote"
      BY <2>2, <3>1, <3>3, <1>a, SettlesLeaves, UnchangedKeepsHeld DEF ReadFails
    <3> QED
      BY <3>2, <3>3
  <2>3. CASE NotFound(t)
    BY <2>3, <1>a, SettlesLeaves, UnchangedKeepsHeld DEF NotFound, connVars
  <2>4. CASE PoolHit(t)
    <3>1. /\ Admitted(t) /\ pc[t] # "using" /\ MapGet(pool, req[t]) \in Conns
          /\ UNCHANGED <<tenants, cschema>>
      BY <2>4, <1>a, MapGetFacts DEF PoolHit, Admitted, connVars, TypeInv
    <3>2. InCall(t) /\ (Validates(req[t]) => WasThere(t))
      BY <3>1, AdmittedWasThere DEF PoolInv
    <3> QED
      BY <2>4, <3>1, <3>2, ReturnsServes, UnchangedKeepsHeld DEF PoolHit
  <2>5. CASE PoolMiss(t)
    <3>1. /\ InCall(t) /\ pc[t] # "using"
          /\ UNCHANGED <<tenants, cschema>>
          /\ \E p \in {"evicting", "loading", "creating"} : Awaits(t, p)
      BY <2>5 DEF PoolMiss, Admitted, InCall, CreateStage
    <3> QED
      BY <3>1, <1>a, AwaitsHidden, UnchangedKeepsHeld
  <2>6. CASE CreateSucceeds(t)
    <3>1. /\ pc[t] = "creating" /\ InCall(t) /\ FreeConns # {}
          /\ OpenConn(FreshConn, req[t], EntitiesFor(req[t], answer[t]))
          /\ Returns(t, FreshConn) /\ UNCHANGED tenants /\ FreshConn \in Conns
      BY <2>6, FreshConnIsConn DEF CreateSucceeds, InCall
    <3>2. HeldKept
      BY <3>1, <1>a, OpenKeepsHeld
    <3>3. Validates(req[t]) => WasThere(t)
      BY <3>1 DEF PoolInv, AdmissionInv
    <3> QED
      BY <3>1, <3>2, <3>3, ReturnsServes
  <2>7. CASE CreateFails(t)
    <3>1. HeldKept
      <4>1. CASE UNCHANGED connVars
        BY <4>1, UnchangedKeepsHeld DEF connVars
      <4>2. CASE DrizzleLeaves(req[t])
        BY <4>2, <1>a, OpenKeepsHeld DEF DrizzleLeaves
      <4> QED
        BY <2>7, <4>1, <4>2 DEF CreateFails
    <3> QED
      BY <2>7, <3>1, <1>a, SettlesLeaves DEF CreateFails
  <2> QED
    BY <1>3, <2>1, <2>2, <2>3, <2>4, <2>5, <2>6, <2>7 DEF Get
<1>4. ASSUME NEW t \in Tasks, Release(t)
      PROVE  RoutingStep
  BY <1>4, <1>a, SettlesLeaves, UnchangedKeepsHeld DEF Release, connVars
<1>5. ASSUME NEW t \in Tasks, SweepTick(t)
      PROVE  RoutingStep
  <2>1. /\ pc[t] = "idle" /\ pc'[t] = "sweeping"
        /\ \A u \in Tasks \ {t} : SameCall(u)
        /\ UNCHANGED <<tenants, cschema>>
    BY <1>5, <1>a DEF SweepTick, SameCall, TypeInv, CallTypeOK
  <2>2. \A u \in Tasks : Hidden(u)
    BY <2>1 DEF Hidden, InCall
  <2> QED
    BY <2>1, <2>2, HiddenFromCaller, UnchangedKeepsHeld DEF RoutingStep
<1>6. ASSUME NEW t \in Tasks, Destroy(t)
      PROVE  RoutingStep
  <2>1. UNCHANGED <<tenants, cschema>> /\ \E cs : NextEntry(t, cs)
    BY <1>6 DEF Destroy, DestroyResolves, DestroyRejects
  <2> QED
    BY <2>1, <1>a, NextEntryHidden, UnchangedKeepsHeld
<1>7. ASSUME NEW t \in Tasks, StartClose(t)
      PROVE  RoutingStep
  <2>1. /\ pc[t] = "idle" /\ pc'[t] \in {"idle", "closing"}
        /\ \A u \in Tasks \ {t} : SameCall(u)
        /\ UNCHANGED <<tenants, cschema>>
    BY <1>7, <1>a DEF StartClose, SameCall, TypeInv, CallTypeOK
  <2>2. \A u \in Tasks : Hidden(u)
    BY <2>1 DEF Hidden, InCall
  <2> QED
    BY <2>1, <2>2, HiddenFromCaller, UnchangedKeepsHeld DEF RoutingStep
<1>8. ASSUME NEW t \in Tasks, Close(t)
      PROVE  RoutingStep
  <2>1. UNCHANGED <<tenants, cschema>> /\ (Settles(t) \/ UNCHANGED callVars)
    BY <1>8 DEF Close, CloseResolves, CloseRejects
  <2> QED
    BY <2>1, <1>a, SettlesLeaves, CallsHidden, UnchangedKeepsHeld
<1>9. ASSUME NEW c \in Conns, DetachedSettles(c)
      PROVE  RoutingStep
  BY <1>9, CallsHidden, UnchangedKeepsHeld DEF DetachedSettles
<1>10. ASSUME NEW s \in Administered, NEW row \in Rows, AdminCommit(s, row)
       PROVE  RoutingStep
  <2>1. /\ UNCHANGED <<pc, req, held, cschema>>
        /\ tenants' = [tenants EXCEPT ![s] = row]
        /\ \A u \in Tasks : seen'[u] = IF req[u] = s /\ pc[u] \notin {"idle", "removing"}
                                       THEN seen[u] \cup {row} ELSE seen[u]
    BY <1>10 DEF AdminCommit, connVars
  <2>2. LiveSchemas' = IF row # Absent THEN LiveSchemas \cup {s} ELSE LiveSchemas \ {s}
    BY <2>1, <1>a, NamesAssumption DEF LiveSchemas, TypeInv
  <2>3. AskedSchema' = AskedSchema /\ ServedSchema' = ServedSchema
    BY <2>1 DEF AskedSchema, ServedSchema, InCall
  <2>4. ASSUME NEW u \in Tasks
        PROVE  (InCall(u) /\ \E r \in seen[u] : r # Absent)'
               = (MetTenant[u] \/ (AskedSchema[u] = s /\ s \in LiveSchemas'))
    <3>1. InCall(u)' <=> InCall(u)
      BY <2>1 DEF InCall
    <3>2. MetTenant[u] = (InCall(u) /\ \E r \in seen[u] : r # Absent)
      BY DEF MetTenant
    <3>3. AskedSchema[u] = s <=> InCall(u) /\ req[u] = s
      BY <1>a, MappedCall, NamesAssumption
    <3>4. s \in LiveSchemas' <=> row # Absent
      BY <2>2, NamesAssumption
    <3>5. InCall(u) /\ req[u] = s => seen'[u] = seen[u] \cup {row}
      BY <2>1 DEF InCall
    <3>6. InCall(u) /\ req[u] # s => seen'[u] = seen[u]
      BY <2>1
    <3>7. (InCall(u) /\ \E r \in seen[u] : r # Absent)'
          <=> (InCall(u) /\ \E r \in seen[u] : r # Absent)
              \/ (InCall(u) /\ req[u] = s /\ row # Absent)
      BY <3>1, <3>5, <3>6
    <3> QED
      BY <3>2, <3>3, <3>4, <3>7
  <2>5. MetTenant' =
            [u \in Tasks |-> MetTenant[u] \/ (AskedSchema[u] = s /\ s \in LiveSchemas')]
    BY <2>4 DEF MetTenant
  <2>6. s \in Schemas
    BY NamesAssumption
  <2> QED
    BY <2>2, <2>3, <2>5, <2>6 DEF RoutingStep, Routing!Next, Routing!Change
<1>11. CASE UNCHANGED vars
  BY <1>11, CallsHidden, UnchangedKeepsHeld DEF vars, connVars
<1> QED
  BY <1>1, <1>2, <1>3, <1>4, <1>5, <1>6, <1>7, <1>8, <1>9, <1>10, <1>11 DEF Next

\* The pool implements the abstract routing service for any number of schemas,
\* calls and connections, any limit of the pool and any validator: whatever is
\* evicted, swept, removed, shut down or fails, a caller only ever sees its call
\* served with its own schema, and only when its tenant was there.
THEOREM Refinement == Spec => ImplementsRouting
<1>1. PoolInv /\ PoolInv' /\ [Next]_vars => [Routing!Next]_(Routing!vars)
  BY NextRefines DEF RoutingStep, RoutingVars, Routing!vars
<1>2. Init => AdmissionInv
  BY DEF Init, AdmissionInv, InCall
<1>3. PoolInv <=> TypeInv /\ RoutedToOwnSchema /\ AdmissionInv
  BY DEF PoolInv
<1>4. TypeInv /\ AdmissionInv /\ [Next]_vars => AdmissionInv'
  BY NextAdmission
<1> QED
  BY <1>1, <1>2, <1>3, <1>4, Typed, Isolation, InitRouted, PTL
  DEF Spec, ImplementsRouting, Routing!Spec
=============================================================================
