------------------------ MODULE RequestOutcomeProofs ------------------------
(***************************************************************************)
(* What a request gets and what it is answered, for every value of the     *)
(* constants: RequestScope implements TenantRouting (injecting asks,       *)
(* handling is being served, and answering leaves), the exception filter's *)
(* answer fits what the request has met, no application starts that        *)
(* serves tenants without looking them up, but the one case that           *)
(* StartsValidated names, and no request waits for a factory that is not   *)
(* running.                                                                *)
(***************************************************************************)
EXTENDS RequestScopeProofs

RoutingVars == <<LiveNames, AskedName, MetTenant, ServedName>>

RoutingStep == Routing!Next \/ UNCHANGED RoutingVars

\* What a handler is given first is of its tenant.
Delivered ==
    \A r \in Requests :
       phase[r] = "handling" => ConnSchema(r, CHOOSE k \in app.wants : TRUE) = meant[r]

LEMMA InvDelivered == RequestInv => Delivered
<1> SUFFICES ASSUME RequestInv, NEW r \in Requests, phase[r] = "handling"
             PROVE  ConnSchema(r, CHOOSE k \in app.wants : TRUE) = meant[r]
  BY DEF Delivered
<1>1. app.wants # {} /\ \A k \in app.wants : ConnSchema(r, k) = meant[r]
  BY HandlersConnections
<1> QED
  BY <1>1

\* Whether r met its tenant, in the terms of the mapping.
Met(r) == Served(r) /\ ("there" \in seen[r] \/ meant[r] \in Unasked)

\* What callers see of a request does not change.
Hidden(q) ==
    /\ Served(q)' = Served(q)
    /\ (phase'[q] = "handling") = (phase[q] = "handling")
    /\ Served(q) => /\ meant'[q] = meant[q]
                    /\ "there" \in seen'[q] <=> "there" \in seen[q]

\* Nor do the schemas that are served to everyone.
LEMMA SameUnasked ==
    ASSUME UNCHANGED bootVars
    PROVE  Unasked' = Unasked
BY SameApp DEF Unasked

\* Steps that are hidden from every request's caller are not seen at all.
LEMMA HiddenSteps ==
    ASSUME Delivered, Delivered', UNCHANGED live, Unasked' = Unasked,
           \A q \in Requests : Hidden(q)
    PROVE  RoutingStep
<1>1. LiveNames' = LiveNames
  BY DEF LiveNames
<1>2. AskedName' = AskedName
  BY DEF AskedName, Hidden
<1>3. MetTenant' = MetTenant
  <2>1. ASSUME NEW q \in Requests PROVE Met(q)' = Met(q)
    BY DEF Met, Hidden
  <2> QED
    BY <2>1 DEF MetTenant, Met
<1>4. ServedName' = ServedName
  <2>1. ASSUME NEW q \in Requests, phase[q] = "handling"
        PROVE  ConnSchema(q, CHOOSE k \in app.wants : TRUE)'
               = ConnSchema(q, CHOOSE k \in app.wants : TRUE)
    BY <2>1 DEF Delivered, Hidden, Served
  <2> QED
    BY <2>1 DEF ServedName, Hidden
<1> QED
  BY <1>1, <1>2, <1>3, <1>4 DEF RoutingStep, RoutingVars

\* Where only r is seen to change.
LEMMA OthersStay ==
    ASSUME Delivered, Delivered', Unasked' = Unasked, NEW r \in Requests,
           \A q \in Requests \ {r} : Hidden(q)
    PROVE  \A q \in Requests \ {r} :
              /\ AskedName'[q] = AskedName[q]
              /\ MetTenant'[q] = MetTenant[q]
              /\ ServedName'[q] = ServedName[q]
<1> SUFFICES ASSUME NEW q \in Requests \ {r}
             PROVE  /\ AskedName'[q] = AskedName[q]
                    /\ MetTenant'[q] = MetTenant[q]
                    /\ ServedName'[q] = ServedName[q]
  OBVIOUS
<1>1. AskedName'[q] = AskedName[q]
  BY DEF AskedName, Hidden
<1>2. MetTenant'[q] = MetTenant[q]
  <2>1. Met(q)' = Met(q)
    BY DEF Met, Hidden
  <2>2. MetTenant[q] = Met(q) /\ MetTenant'[q] = Met(q)'
    BY DEF MetTenant, Met
  <2> QED
    BY <2>1, <2>2
<1>3. ServedName'[q] = ServedName[q]
  BY DEF ServedName, Delivered, Hidden, Served
<1> QED
  BY <1>1, <1>2, <1>3

\* A request that is answered leaves.
LEMMA AnswerLeaves ==
    ASSUME RequestInv, Delivered, Delivered', NEW r \in Requests, Served(r),
           phase' = [phase EXCEPT ![r] = "answered"],
           UNCHANGED <<bootVars, live, meant>>,
           \A q \in Requests \ {r} : seen'[q] = seen[q]
    PROVE  RoutingStep
<1>1. \A q \in Requests \ {r} : Hidden(q)
  BY DEF RequestInv, TypeOK, Hidden, Served
<1>2. Unasked' = Unasked
  BY SameUnasked
<1>3. phase'[r] = "answered"
  BY DEF RequestInv, TypeOK
<1>4. AskedName[r] # NoSchema
  BY RequestsAssumption DEF AskedName, Served, RequestInv, Handled
<1>5. AskedName'[r] = NoSchema /\ MetTenant'[r] = FALSE /\ ServedName'[r] = NoSchema
  BY <1>3 DEF AskedName, MetTenant, ServedName, Served
<1>6. AskedName' = [AskedName EXCEPT ![r] = NoSchema]
  BY <1>1, <1>2, <1>5, OthersStay DEF AskedName
<1>7. MetTenant' = [MetTenant EXCEPT ![r] = FALSE]
  BY <1>1, <1>2, <1>5, OthersStay DEF MetTenant
<1>8. ServedName' = [ServedName EXCEPT ![r] = NoSchema]
  <2>1. /\ ServedName = [q \in Requests |-> ServedName[q]]
        /\ ServedName' = [q \in Requests |-> ServedName'[q]]
    BY DEF ServedName
  <2>2. \A q \in Requests \ {r} : ServedName'[q] = ServedName[q]
    BY <1>1, <1>2, OthersStay
  <2> QED
    BY <1>5, <2>1, <2>2
<1>9. Routing!Leave(r)
  BY <1>2, <1>4, <1>6, <1>7, <1>8 DEF Routing!Leave, LiveNames
<1> QED
  BY <1>9 DEF RoutingStep, Routing!Next

\* A handler that starts is served.
LEMMA HandleServes ==
    ASSUME RequestInv, Delivered, Delivered', NEW r \in Requests, Handle(r)
    PROVE  RoutingStep
<1>1. /\ phase[r] = "injecting" /\ \A k \in app.wants : stage[r][k] = "ready"
      /\ phase' = [phase EXCEPT ![r] = "handling"]
      /\ UNCHANGED <<bootVars, live, meant, seen>>
  BY DEF Handle, callVars
<1>2. phase'[r] = "handling" /\ \A q \in Requests \ {r} : phase'[q] = phase[q]
  BY <1>1 DEF RequestInv, TypeOK
<1>3. Unasked' = Unasked
  BY <1>1, SameUnasked
<1>4. \A q \in Requests \ {r} : Hidden(q)
  BY <1>1, <1>2 DEF Hidden, Served
<1>5. meant[r] \in Names /\ meant[r] # NoSchema
  BY <1>1, RequestsAssumption DEF RequestInv, Handled
<1>6. Met(r)
  <2>1. app # NoApp
    BY <1>1 DEF RequestInv, Apps
  <2>2. PICK k \in app.wants : k \in Providers
    BY <2>1, AppWants DEF RequestInv
  <2>3. Validates(meant[r]) => "there" \in seen[r]
    BY <1>1, <2>2 DEF RequestInv, Admitted, Served
  <2> QED
    BY <1>1, <1>5, <2>3 DEF Met, Served, Unasked
<1>7. AskedName[r] = meant[r] /\ MetTenant[r] /\ ServedName[r] = NoSchema
  BY <1>1, <1>6 DEF AskedName, MetTenant, Met, ServedName, Served
<1>8. AskedName' = AskedName
  BY <1>1, <1>2 DEF AskedName, Served
<1>9. MetTenant' = MetTenant
  <2>1. ASSUME NEW q \in Requests PROVE Met(q)' = Met(q)
    BY <1>1, <1>2, <1>3 DEF Met, Served
  <2> QED
    BY <2>1 DEF MetTenant, Met
<1>10. ServedName' = [ServedName EXCEPT ![r] = AskedName[r]]
  <2>1. /\ ServedName = [q \in Requests |-> ServedName[q]]
        /\ ServedName' = [q \in Requests |-> ServedName'[q]]
    BY DEF ServedName
  <2>2. \A q \in Requests \ {r} : ServedName'[q] = ServedName[q]
    BY <1>3, <1>4, OthersStay
  <2>3. ServedName'[r] = meant[r]
    BY <1>1, <1>2 DEF ServedName, Delivered
  <2> QED
    BY <1>7, <2>1, <2>2, <2>3
<1>11. Routing!Serve(r)
  BY <1>1, <1>3, <1>5, <1>7, <1>8, <1>9, <1>10 DEF Routing!Serve, LiveNames
<1> QED
  BY <1>11 DEF RoutingStep, Routing!Next

\* Injecting asks for the request's tenant, if it has one.
LEMMA InjectAsks ==
    ASSUME RequestInv, Delivered, Delivered', NEW r \in Requests, Inject(r)
    PROVE  RoutingStep
<1>1. /\ phase[r] = "routed" /\ ctx[ContextOf(r)] = meant[r]
      /\ UNCHANGED <<bootVars, live, meant>>
  BY DEF Inject, RequestInv, Contexts, ContextOf
<1>2. Unasked' = Unasked
  BY <1>1, SameUnasked
<1>3. CASE meant[r] = NoSchema
  <2>1. /\ phase' = [phase EXCEPT ![r] = "answered"]
        /\ UNCHANGED seen
    <3>1. PICK k \in app.wants : Answer(r, Response(NoContext(k)))
      BY <1>1, <1>3 DEF Inject
    <3> QED
      BY <1>1, <1>3, <3>1 DEF Inject, Answer
  <2>2. \A q \in Requests : Hidden(q)
    BY <1>1, <2>1 DEF Hidden, Served, RequestInv, TypeOK
  <2> QED
    BY <1>1, <1>2, <2>2, HiddenSteps
<1>4. CASE meant[r] # NoSchema
  <2>1. /\ phase' = [phase EXCEPT ![r] = "injecting"]
        /\ seen' = [seen EXCEPT ![r] = {State(meant[r], live)}]
    BY <1>1, <1>4 DEF Inject
  <2>2. /\ phase'[r] = "injecting" /\ seen'[r] = {State(meant[r], live)}
        /\ \A q \in Requests \ {r} : phase'[q] = phase[q] /\ seen'[q] = seen[q]
    BY <2>1 DEF RequestInv, TypeOK
  <2>3. \A q \in Requests \ {r} : Hidden(q)
    BY <1>1, <2>2 DEF Hidden, Served
  <2>4. meant[r] \in Names
    BY <1>4 DEF RequestInv, TypeOK, Schemas
  <2>5. AskedName[r] = NoSchema /\ ServedName[r] = NoSchema
    BY <1>1 DEF AskedName, ServedName, Served
  <2>6. AskedName'[r] = meant[r] /\ ServedName'[r] = NoSchema
    BY <1>1, <2>2 DEF AskedName, ServedName, Served
  <2>7. MetTenant'[r] = (meant[r] \in LiveNames)
    <3>1. Met(r)' = (meant[r] \in LiveNames)
      BY <1>1, <1>2, <2>2 DEF Met, Served, State, LiveNames
    <3>2. MetTenant'[r] = Met(r)'
      BY DEF MetTenant, Met
    <3> QED
      BY <3>1, <3>2
  <2>8. AskedName' = [AskedName EXCEPT ![r] = meant[r]]
    BY <1>2, <2>3, <2>6, OthersStay DEF AskedName
  <2>9. MetTenant' = [MetTenant EXCEPT ![r] = meant[r] \in LiveNames]
    BY <1>2, <2>3, <2>7, OthersStay DEF MetTenant
  <2>10. ServedName' = ServedName
    <3>1. /\ ServedName = [q \in Requests |-> ServedName[q]]
          /\ ServedName' = [q \in Requests |-> ServedName'[q]]
      BY DEF ServedName
    <3>2. \A q \in Requests \ {r} : ServedName'[q] = ServedName[q]
      BY <1>2, <2>3, OthersStay
    <3> QED
      BY <2>5, <2>6, <3>1, <3>2
  <2>11. Routing!Ask(r, meant[r])
    BY <1>1, <1>2, <2>5, <2>8, <2>9, <2>10 DEF Routing!Ask, LiveNames
  <2> QED
    BY <2>4, <2>11 DEF RoutingStep, Routing!Next
<1> QED
  BY <1>3, <1>4

\* A step of one factory leaves its request where it is, or answers it.
LEMMA CallsAnswer ==
    ASSUME NEW r \in Requests, NEW k \in Providers, CallGoes(r, k)
    PROVE  \/ UNCHANGED phase
           \/ phase[r] = "injecting" /\ phase' = [phase EXCEPT ![r] = "answered"]
<1>1. ASSUME NEW e, Rejects(r, k, e)
      PROVE  \/ UNCHANGED phase
             \/ phase[r] = "injecting" /\ phase' = [phase EXCEPT ![r] = "answered"]
  BY <1>1 DEF Rejects, Answer
<1>2. ASSUME NEW c, Delivers(r, k, c)
      PROVE  \/ UNCHANGED phase
             \/ phase[r] = "injecting" /\ phase' = [phase EXCEPT ![r] = "answered"]
  BY <1>1, <1>2 DEF Delivers
<1>3. CASE Check(r, k)
  BY <1>1, <1>2, <1>3 DEF Check
<1>4. CASE CheckFails(r, k)
  BY <1>1, <1>4 DEF CheckFails
<1>5. CASE Open(r, k)
  BY <1>2, <1>5 DEF Open
<1>6. CASE OpenFails(r, k)
  BY <1>1, <1>6 DEF OpenFails
<1> QED
  BY <1>3, <1>4, <1>5, <1>6 DEF CallGoes

\* A factory's call rejects the request, or is not seen to go on.
LEMMA CallsHidden ==
    ASSUME RequestInv, Delivered, Delivered', NEW r \in Requests, NEW k \in Providers,
           CallGoes(r, k)
    PROVE  RoutingStep
<1>1. /\ UNCHANGED <<bootVars, live, meant>>
      /\ \A q \in Requests \ {r} : seen'[q] = seen[q]
      /\ "there" \in seen'[r] <=> "there" \in seen[r]
  BY DEF CallGoes, Check, CheckFails, Open, OpenFails, RequestInv, TypeOK
<1>2. \/ UNCHANGED phase
      \/ phase[r] = "injecting" /\ phase' = [phase EXCEPT ![r] = "answered"]
  BY CallsAnswer
<1>3. CASE UNCHANGED phase
  <2>1. \A q \in Requests : Hidden(q)
    BY <1>1, <1>3 DEF Hidden, Served
  <2> QED
    BY <1>1, <2>1, SameUnasked, HiddenSteps
<1>4. CASE phase[r] = "injecting" /\ phase' = [phase EXCEPT ![r] = "answered"]
  BY <1>1, <1>4, AnswerLeaves DEF Served
<1> QED
  BY <1>2, <1>3, <1>4

\* A tenant that comes or goes.
LEMMA AdminChanges ==
    ASSUME RequestInv, Delivered, Delivered', NEW s \in Administered, AdminChange(s)
    PROVE  RoutingStep
<1>1. /\ live' = IF s \in live THEN live \ {s} ELSE live \cup {s}
      /\ \A q \in Requests : seen'[q] = IF Served(q) /\ meant[q] = s
                                         THEN seen[q] \cup {State(s, live')} ELSE seen[q]
      /\ UNCHANGED <<bootVars, phase, meant, opened, holds>>
  BY DEF AdminChange, Served
<1>2. Unasked' = Unasked
  BY <1>1, SameUnasked
<1>3. s \in Names /\ s # NoSchema
  BY RequestsAssumption
<1>4. LiveNames' \in {LiveNames \cup {s}, LiveNames \ {s}}
  <2>1. CASE s \in Unasked
    BY <1>1, <1>2, <2>1 DEF LiveNames
  <2>2. CASE s \notin Unasked
    BY <1>1, <1>2, <2>2 DEF LiveNames
  <2> QED
    BY <2>1, <2>2
<1>5. AskedName' = AskedName
  BY <1>1 DEF AskedName, Served
<1>6. ServedName' = ServedName
  <2>1. /\ ServedName = [q \in Requests |-> ServedName[q]]
        /\ ServedName' = [q \in Requests |-> ServedName'[q]]
    BY DEF ServedName
  <2>2. ASSUME NEW q \in Requests PROVE ServedName'[q] = ServedName[q]
    BY <1>1 DEF ServedName, Delivered
  <2> QED
    BY <2>1, <2>2
<1>7. ASSUME NEW q \in Requests
      PROVE  Met(q)' = (Met(q) \/ (AskedName[q] = s /\ s \in LiveNames'))
  <2>1. AskedName[q] = s <=> Served(q) /\ meant[q] = s
    BY <1>3 DEF AskedName
  <2>2. Served(q)' <=> Served(q)
    BY <1>1 DEF Served
  <2>3. CASE Served(q) /\ meant[q] = s
    <3>1. seen'[q] = seen[q] \cup {State(s, live')}
      BY <1>1, <2>3
    <3>2. "there" \in seen'[q] <=> "there" \in seen[q] \/ s \in live'
      BY <3>1 DEF State
    <3> QED
      BY <1>1, <1>2, <2>1, <2>2, <2>3, <3>2 DEF Met, LiveNames
  <2>4. CASE ~(Served(q) /\ meant[q] = s)
    <3>1. seen'[q] = seen[q]
      BY <1>1, <2>4
    <3> QED
      BY <1>1, <1>2, <2>1, <2>2, <2>4, <3>1 DEF Met
  <2> QED
    BY <2>3, <2>4
<1>8. MetTenant' = [q \in Requests |-> MetTenant[q] \/ (AskedName[q] = s /\ s \in LiveNames')]
  BY <1>7 DEF MetTenant, Met
<1>9. Routing!Change(s)
  BY <1>4, <1>5, <1>6, <1>8 DEF Routing!Change
<1> QED
  BY <1>3, <1>9 DEF RoutingStep, Routing!Next

\* Steps before the factories start, and those inside a handler.
LEMMA QuietSteps ==
    ASSUME RequestInv, Delivered, Delivered',
           \/ Boot
           \/ \E r \in Requests : \/ \E m \in Messages : Arrive(r, m)
                                 \/ Resolve(r) \/ QueryEnds(r)
                                 \/ TypeOrmQuery(r) \/ TypeOrmRawQuery(r)
                                 \/ DrizzleQuery(r) \/ IdleOut(r)
           \/ UNCHANGED vars
    PROVE  RoutingStep
<1> USE DEF bootVars, callVars, queryVars
<1>1. CASE Boot
  <2>1. TheApp' = TheApp
    BY <1>1 DEF Boot, TheApp
  <2>2. Unasked' = Unasked
    BY <2>1 DEF Unasked, Validates
  <2>3. \A q \in Requests : Hidden(q)
    BY <1>1 DEF Boot, Hidden, Served
  <2> QED
    BY <1>1, <2>2, <2>3, HiddenSteps DEF Boot
<1>2. ASSUME NEW r \in Requests, NEW m \in Messages, Arrive(r, m) PROVE RoutingStep
  <2>1. \A q \in Requests : Hidden(q)
    BY <1>2 DEF Arrive, Hidden, Served, RequestInv, TypeOK
  <2> QED
    BY <1>2, <2>1, SameUnasked, HiddenSteps DEF Arrive
<1>3. ASSUME NEW r \in Requests, Resolve(r) PROVE RoutingStep
  <2>1. PICK s : /\ phase[r] = "resolving"
                 /\ phase' = [phase EXCEPT ![r] = "routed"]
                 /\ meant' = [meant EXCEPT ![r] = s]
                 /\ UNCHANGED <<bootVars, live, seen>>
    BY <1>3 DEF Resolve
  <2>2. \A q \in Requests : Hidden(q)
    BY <2>1 DEF Hidden, Served, RequestInv, TypeOK
  <2> QED
    BY <2>1, <2>2, SameUnasked, HiddenSteps
<1>4. ASSUME NEW r \in Requests,
             QueryEnds(r) \/ TypeOrmQuery(r) \/ TypeOrmRawQuery(r) \/ DrizzleQuery(r) \/ IdleOut(r)
      PROVE  RoutingStep
  <2>1. UNCHANGED <<bootVars, live, phase, meant, seen>>
    BY <1>4 DEF QueryEnds, TypeOrmQuery, TypeOrmRawQuery, DrizzleQuery, IdleOut
  <2>2. \A q \in Requests : Hidden(q)
    BY <2>1 DEF Hidden, Served
  <2> QED
    BY <2>1, <2>2, SameUnasked, HiddenSteps
<1>5. CASE UNCHANGED vars
  <2>1. UNCHANGED <<bootVars, live, phase, meant, seen>>
    BY <1>5 DEF vars
  <2>2. \A q \in Requests : Hidden(q)
    BY <2>1 DEF Hidden, Served
  <2> QED
    BY <2>1, <2>2, SameUnasked, HiddenSteps
<1> QED
  BY <1>1, <1>2, <1>3, <1>4, <1>5

LEMMA StepRefines ==
    RequestInv /\ Delivered /\ Delivered' /\ [Next]_vars => RoutingStep
<1> SUFFICES ASSUME RequestInv, Delivered, Delivered', [Next]_vars PROVE RoutingStep
  OBVIOUS
<1>1. ASSUME NEW r \in Requests, Inject(r) PROVE RoutingStep
  BY <1>1, InjectAsks
<1>2. ASSUME NEW r \in Requests, Handle(r) PROVE RoutingStep
  BY <1>2, HandleServes
<1>3. ASSUME NEW r \in Requests, NEW k \in Providers, CallGoes(r, k) PROVE RoutingStep
  BY <1>3, CallsHidden
<1>4. ASSUME NEW r \in Requests, Finish(r) PROVE RoutingStep
  <2>1. phase[r] = "handling" /\ UNCHANGED <<bootVars, live, meant, seen>>
    BY <1>4 DEF Finish, callVars
  <2>2. phase' = [phase EXCEPT ![r] = "answered"]
    BY <1>4 DEF Finish, Answer
  <2> QED
    BY <2>1, <2>2, AnswerLeaves DEF Served
<1>5. ASSUME NEW s \in Administered, AdminChange(s) PROVE RoutingStep
  BY <1>5, AdminChanges
<1> QED
  BY <1>1, <1>2, <1>3, <1>4, <1>5, QuietSteps DEF Next, Goes

LEMMA InitRefines == Init => Routing!Init
<1> SUFFICES ASSUME Init PROVE Routing!Init
  OBVIOUS
<1>1. LiveNames \subseteq Names
  BY DEF Init, LiveNames, Unasked
<1>2. \A r \in Requests : phase[r] = "new"
  BY DEF Init
<1>3. /\ AskedName = [r \in Requests |-> NoSchema]
      /\ ServedName = [r \in Requests |-> NoSchema]
  BY <1>2 DEF AskedName, ServedName, Served
<1>4. MetTenant = [r \in Requests |-> FALSE]
  BY <1>2 DEF MetTenant, Served
<1> QED
  BY <1>1, <1>3, <1>4 DEF Routing!Init

\* Middleware, contexts, providers and connection services implement the
\* abstract routing service, for any number of requests and whatever they carry,
\* any options of the module and any tenants that come and go: a handler only
\* starts with connections of the tenant its own request names, and only when
\* that tenant was there while they were made.
THEOREM Composition == Spec => ImplementsRouting
<1>1. RequestInv /\ Delivered /\ Delivered' /\ [Next]_vars => [Routing!Next]_(Routing!vars)
  BY StepRefines DEF RoutingStep, RoutingVars, Routing!vars
<1> QED
  BY <1>1, InitRefines, Invariance, InvDelivered, PTL
  DEF Spec, ImplementsRouting, Routing!Spec

-----------------------------------------------------------------------------
(* Answers, and what starts.                                               *)

\* Applications that start without a validation strategy.
LEMMA Unvalidated ==
    ASSUME NEW o, Assembled(o) # NoApp, Assembled(o).validation = "none"
    PROVE  /\ o.entry = "forRoot" /\ o.validation = "custom"
           /\ "TENANT_VALIDATION_STRATEGY" \notin o.given
<1>1. ValidationStrategy(o) = "none"
  BY DEF Assembled
<1>2. LocalValidation(o) # "none"
  BY DEF LocalValidation
<1>3. ~Async(o)
  BY <1>1, <1>2 DEF ValidationStrategy, AsyncValidation
<1>4. StaticValidation(o) = "none"
  BY <1>1, <1>3 DEF ValidationStrategy
<1>5. o.validation = "custom" /\ "TENANT_VALIDATION_STRATEGY" \notin o.given
  BY <1>2, <1>4 DEF StaticValidation
<1> QED
  BY <1>3, <1>5 DEF Async

\* All steps but one leave the application alone.
LEMMA OnlyBoot == [Next]_vars => Boot \/ UNCHANGED app
<1> USE DEF bootVars
<1>1. ASSUME NEW r \in Requests, Goes(r) PROVE UNCHANGED app
  BY <1>1 DEF Goes, Resolve, Inject, Handle, QueryEnds
<1>2. ASSUME NEW r \in Requests, NEW k \in Providers, CallGoes(r, k) PROVE UNCHANGED app
  BY <1>2 DEF CallGoes, Check, CheckFails, Open, OpenFails
<1>3. ASSUME NEW r \in Requests,
             \/ \E m \in Messages : Arrive(r, m)
             \/ TypeOrmQuery(r) \/ TypeOrmRawQuery(r) \/ DrizzleQuery(r) \/ IdleOut(r) \/ Finish(r)
      PROVE  UNCHANGED app
  BY <1>3 DEF Arrive, TypeOrmQuery, TypeOrmRawQuery, DrizzleQuery, IdleOut, Finish
<1>4. ASSUME NEW s \in Administered, AdminChange(s) PROVE UNCHANGED app
  BY <1>4 DEF AdminChange
<1>5. UNCHANGED vars => UNCHANGED app
  BY DEF vars
<1> QED
  BY <1>1, <1>2, <1>3, <1>4, <1>5 DEF Next

\* Whatever the options are, an application that starts looks tenants up, or is
\* forRoot's with the 'custom' strategy and none given: StartsValidated.
THEOREM Validated == Spec => StartsValidated
<1>1. [Next]_vars =>
        [(app = NoApp /\ app' # NoApp /\ app'.validation = "none") =>
            /\ options.entry = "forRoot"
            /\ options.validation = "custom"
            /\ "TENANT_VALIDATION_STRATEGY" \notin options.given]_vars
  BY OnlyBoot, Unvalidated DEF Boot
<1> QED
  BY <1>1, PTL DEF Spec, StartsValidated

-----------------------------------------------------------------------------

\* No error of a database, a driver or a factory is answered like a tenant that
\* is not there, and none like a request that was served.
LEMMA ErrorAnswers ==
    ASSUME NEW e, e.class \in {"plain", "typeorm", "drizzle"}
    PROVE  Response(e).code # "NOT_FOUND" /\ Response(e).status # 200
<1> DEFINE Other(mapping) == mapping.code # "NOT_FOUND" /\ mapping.status # 200
<1>1. \A pg : Other(PgMapping(pg))
  BY DEF PgMapping, Mapping, DatabaseError
<1>2. Other(DatabaseError)
  BY DEF Mapping, DatabaseError
<1>3. Other(MapDatabaseError(e))
  BY <1>1, <1>2 DEF MapDatabaseError, Mapping
<1>4. Other(MappingOf(e))
  BY <1>3 DEF MappingOf, Mapping
<1>5. Response(e).code = MappingOf(e).code /\ Response(e).status = MappingOf(e).status
  BY DEF Response
<1> QED
  BY <1>4, <1>5

\* The classes of the errors that stop a request's factories and handlers.
LEMMA ErrorClasses ==
    /\ \A words : Plain(words).class = "plain"
    /\ \A pg : Drizzle(pg).class = "drizzle"
    /\ \A name, pg : TypeOrm(name, pg).class = "typeorm"
BY DEF Plain, Drizzle, TypeOrm

\* The answers to a tenant that is not there, and to a request that was served.
LEMMA Answers == Response(Http(404)).code = "NOT_FOUND" /\ Ok.code # "NOT_FOUND"
BY DEF Response, MappingOf, Mapping, Http, MapNestJSHttpError, CodeFromStatus, Ok

\* Every request that a step answers is answered as it should be.
AllFit ==
    \A r \in Requests : reply[r] = NoReply /\ reply'[r] # NoReply => Fitting(r, reply'[r])

LEMMA OneAnswerFits ==
    ASSUME RequestInv, NEW r \in Requests, NEW a, Answer(r, a), Fitting(r, a)
    PROVE  AllFit
<1>1. reply' = [reply EXCEPT ![r] = a] /\ reply = [q \in Requests |-> reply[q]]
  BY DEF Answer, RequestInv, TypeOK
<1>2. reply'[r] = a /\ \A q \in Requests \ {r} : reply'[q] = reply[q]
  BY <1>1
<1> QED
  BY <1>2 DEF AllFit

\* A rejection does, when its error fits what the call has met.
LEMMA RejectionFits ==
    ASSUME RequestInv, NEW r \in Requests, NEW k \in Providers, NEW e,
           stage[r][k] # "none", Rejects(r, k, e),
           Served(r) /\ Validates(meant[r]) /\ seen'[r] \subseteq {"gone"} =>
              Response(e).code = "NOT_FOUND",
           Served(r) /\ Response(e).code = "NOT_FOUND" =>
              Validates(meant[r]) /\ ("gone" \in seen[r] \/ app.validation = "remote")
    PROVE  AllFit
<1>1. CASE phase[r] = "injecting"
  <2>1. Answer(r, Response(e))
    BY <1>1 DEF Rejects
  <2>2. meant[r] # NoSchema
    BY RequestsAssumption DEF RequestInv, Wants
  <2>3. Fitting(r, Response(e))
    BY <1>1, <2>2 DEF Fitting, Served
  <2> QED
    BY <2>1, <2>3, OneAnswerFits
<1>2. CASE phase[r] # "injecting"
  BY <1>2 DEF Rejects, AllFit
<1> QED
  BY <1>1, <1>2

LEMMA InjectFits ==
    ASSUME RequestInv, NEW r \in Requests, Inject(r)
    PROVE  AllFit
<1>1. phase[r] = "routed" /\ ctx[ContextOf(r)] = meant[r]
  BY DEF Inject, RequestInv, Contexts, ContextOf
<1>2. CASE meant[r] = NoSchema
  <2>1. PICK k \in app.wants : Answer(r, Response(NoContext(k)))
    BY <1>1, <1>2 DEF Inject
  <2>2. Response(NoContext(k)).code # "NOT_FOUND" /\ Response(NoContext(k)).status # 200
    BY ErrorAnswers, ErrorClasses DEF NoContext
  <2>3. Fitting(r, Response(NoContext(k)))
    BY <1>1, <2>2 DEF Fitting
  <2> QED
    BY <2>1, <2>3, OneAnswerFits
<1>3. CASE meant[r] # NoSchema
  <2>1. UNCHANGED reply
    BY <1>1, <1>3 DEF Inject
  <2> QED
    BY <2>1 DEF AllFit
<1> QED
  BY <1>2, <1>3

\* A connection of the wrong ORM, or one that could not be opened, for a tenant
\* that was there.
LEMMA PlainFits ==
    ASSUME RequestInv, NEW r \in Requests, NEW k \in Providers, NEW words,
           stage[r][k] # "none", Rejects(r, k, Plain(words)),
           Served(r) /\ Validates(meant[r]) => "there" \in seen[r],
           UNCHANGED seen
    PROVE  AllFit
<1>1. Response(Plain(words)).code # "NOT_FOUND"
  BY ErrorAnswers, ErrorClasses
<1> QED
  BY <1>1, RejectionFits

LEMMA CheckFits ==
    ASSUME RequestInv, NEW r \in Requests, NEW k \in Providers, Check(r, k)
    PROVE  AllFit
<1>1. stage[r][k] # "none" /\ wanted[r] = meant[r] /\ UNCHANGED seen
  BY DEF Check, RequestInv, Wants
<1>2. Served(r) => State(meant[r], live) \in seen[r]
  BY DEF RequestInv, Admitted
<1>3. CASE ~Admits(wanted[r])
  <2>1. Rejects(r, k, Http(404))
    BY <1>3 DEF Check
  <2>2. Validates(meant[r]) /\ (Served(r) => "gone" \in seen[r])
    BY <1>1, <1>2, <1>3 DEF Admits, State
  <2> QED
    BY <1>1, <2>1, <2>2, Answers, RejectionFits
<1>4. CASE Admits(wanted[r])
  <2>1. Served(r) /\ Validates(meant[r]) => "there" \in seen[r]
    BY <1>1, <1>2, <1>4 DEF Admits, State
  <2>2. UNCHANGED reply \/ Rejects(r, k, Plain({"connection"}))
    BY <1>4 DEF Check, Delivers
  <2>3. CASE UNCHANGED reply
    BY <2>3 DEF AllFit
  <2>4. CASE Rejects(r, k, Plain({"connection"}))
    BY <1>1, <2>1, <2>4, PlainFits
  <2> QED
    BY <2>2, <2>3, <2>4
<1> QED
  BY <1>3, <1>4

LEMMA CheckFailsFits ==
    ASSUME RequestInv, NEW r \in Requests, NEW k \in Providers, CheckFails(r, k)
    PROVE  AllFit
<1>1. stage[r][k] # "none" /\ wanted[r] = meant[r] /\ Validates(meant[r])
  BY DEF CheckFails, RequestInv, Wants
<1>2. CASE app.validation = "remote"
  <2>1. Rejects(r, k, Http(404))
    BY <1>2 DEF CheckFails
  <2> QED
    BY <1>1, <1>2, <2>1, Answers, RejectionFits
<1>3. CASE app.validation # "remote"
  <2>1. PICK e \in LookupErrors : Rejects(r, k, e)
    BY <1>3 DEF CheckFails
  <2>2. e.class \in {"plain", "typeorm", "drizzle"}
    BY ErrorClasses DEF LookupErrors
  <2>3. Response(e).code # "NOT_FOUND"
    BY <2>2, ErrorAnswers
  <2>4. "error" \in seen'[r]
    BY <1>3 DEF CheckFails, RequestInv, TypeOK
  <2> QED
    BY <1>1, <2>1, <2>3, <2>4, RejectionFits
<1> QED
  BY <1>2, <1>3

\* What is being opened was admitted.
LEMMA OpeningFits ==
    ASSUME RequestInv, NEW r \in Requests, NEW k \in Providers,
           Open(r, k) \/ OpenFails(r, k)
    PROVE  AllFit
<1>1. stage[r][k] = "creating" /\ UNCHANGED seen
  BY DEF Open, OpenFails
<1>2. Served(r) /\ Validates(meant[r]) => "there" \in seen[r]
  BY <1>1 DEF RequestInv, Admitted
<1>3. UNCHANGED reply \/ \E words : Rejects(r, k, Plain(words))
  BY DEF Open, OpenFails, OpenErrors, Delivers
<1>4. CASE UNCHANGED reply
  BY <1>4 DEF AllFit
<1>5. ASSUME NEW words, Rejects(r, k, Plain(words)) PROVE AllFit
  BY <1>1, <1>2, <1>5, PlainFits
<1> QED
  BY <1>3, <1>4, <1>5

LEMMA FinishFits ==
    ASSUME RequestInv, NEW r \in Requests, Finish(r)
    PROVE  AllFit
<1>1. phase[r] = "handling" /\ meant[r] # NoSchema
  BY RequestsAssumption DEF Finish, RequestInv, Handled
<1>2. PICK a : Answer(r, a) /\ a.code # "NOT_FOUND"
  BY Answers, ErrorAnswers, ErrorClasses DEF Finish
<1>3. Fitting(r, a)
  BY <1>1, <1>2 DEF Fitting
<1> QED
  BY <1>2, <1>3, OneAnswerFits

LEMMA StepFits == RequestInv /\ [Next]_vars => AllFit
<1> SUFFICES ASSUME RequestInv, [Next]_vars PROVE AllFit
  OBVIOUS
<1>1. CASE UNCHANGED reply
  BY <1>1 DEF AllFit
<1>2. ASSUME NEW r \in Requests, Inject(r) PROVE AllFit
  BY <1>2, InjectFits
<1>3. ASSUME NEW r \in Requests, NEW k \in Providers, CallGoes(r, k) PROVE AllFit
  BY <1>3, CheckFits, CheckFailsFits, OpeningFits DEF CallGoes
<1>4. ASSUME NEW r \in Requests, Finish(r) PROVE AllFit
  BY <1>4, FinishFits
<1>5. Boot \/ UNCHANGED vars => UNCHANGED reply
  BY DEF Boot, vars
<1>6. ASSUME NEW r \in Requests,
             \/ \E m \in Messages : Arrive(r, m)
             \/ Resolve(r) \/ Handle(r) \/ QueryEnds(r)
             \/ TypeOrmQuery(r) \/ TypeOrmRawQuery(r) \/ DrizzleQuery(r) \/ IdleOut(r)
      PROVE  UNCHANGED reply
  BY <1>6 DEF Arrive, Resolve, Handle, QueryEnds, TypeOrmQuery, TypeOrmRawQuery, DrizzleQuery,
              IdleOut
<1>7. ASSUME NEW s \in Administered, AdminChange(s) PROVE UNCHANGED reply
  BY <1>7 DEF AdminChange
<1> QED
  BY <1>1, <1>2, <1>3, <1>4, <1>5, <1>6, <1>7 DEF Next, Goes

\* An answer fits what the request met on its way, whatever fails and whichever
\* tenants come and go meanwhile: AnswersFit.  NOT_FOUND is for tenants that were
\* gone at some moment, or that the remote service did not confirm.
THEOREM Answering == Spec => AnswersFit
<1>1. RequestInv /\ [Next]_vars =>
        [\A r \in Requests :
            reply[r] = NoReply /\ reply'[r] # NoReply => Fitting(r, reply'[r])]_vars
  BY StepFits DEF AllFit
<1> QED
  BY <1>1, Invariance, PTL DEF Spec, AnswersFit

-----------------------------------------------------------------------------
(* What a request waits for.                                                *)

NoneFailed ==
    \A r \in Requests, k \in Providers : phase[r] = "injecting" => stage[r][k] # "failed"

\* A step of one factory fails it only together with the request.
LEMMA CallsFailNone ==
    ASSUME RequestInv, NoneFailed, NEW r \in Requests, NEW k \in Providers, CallGoes(r, k)
    PROVE  NoneFailed'
<1>1. \A q \in Requests : phase'[q] = "injecting" => phase[q] = "injecting"
  BY CallsAnswer DEF RequestInv, TypeOK
<1>2. \A q \in Requests, l \in Providers : <<q, l>> # <<r, k>> => stage'[q][l] = stage[q][l]
  <2>1. ASSUME NEW t, stage' = [stage EXCEPT ![r][k] = t]
        PROVE  \A q \in Requests, l \in Providers :
                  <<q, l>> # <<r, k>> => stage'[q][l] = stage[q][l]
    BY <2>1 DEF RequestInv, TypeOK
  <2>2. \E t : stage' = [stage EXCEPT ![r][k] = t]
    BY DEF CallGoes, Check, CheckFails, Open, OpenFails, Rejects, Delivers
  <2> QED
    BY <2>1, <2>2
<1>3. phase'[r] = "injecting" => stage'[r][k] # "failed"
  <2>1. ASSUME NEW e, Rejects(r, k, e)
        PROVE  phase'[r] # "injecting"
    BY <2>1 DEF Rejects, Answer, RequestInv, TypeOK
  <2>2. ASSUME NEW c, Delivers(r, k, c), phase'[r] = "injecting"
        PROVE  stage'[r][k] # "failed"
    BY <2>1, <2>2 DEF Delivers, RequestInv, TypeOK
  <2>3. CASE Check(r, k)
    BY <2>1, <2>2, <2>3 DEF Check, RequestInv, TypeOK
  <2>4. CASE CheckFails(r, k) \/ OpenFails(r, k)
    BY <2>1, <2>4 DEF CheckFails, OpenFails
  <2>5. CASE Open(r, k)
    BY <2>2, <2>5 DEF Open
  <2> QED
    BY <2>3, <2>4, <2>5 DEF CallGoes
<1> QED
  BY <1>1, <1>2, <1>3 DEF NoneFailed

LEMMA StaysNoneFailed == RequestInv /\ NoneFailed /\ [Next]_vars => NoneFailed'
<1> SUFFICES ASSUME RequestInv, NoneFailed, [Next]_vars
             PROVE  NoneFailed'
  OBVIOUS
<1>1. ASSUME NEW r \in Requests, NEW k \in Providers, CallGoes(r, k)
      PROVE  NoneFailed'
  BY <1>1, CallsFailNone
<1>2. ASSUME NEW r \in Requests, Inject(r)
      PROVE  NoneFailed'
  <2>1. \A q \in Requests \ {r} : phase'[q] = phase[q] /\ stage'[q] = stage[q]
    BY <1>2 DEF Inject, Answer, RequestInv, TypeOK
  <2>2. phase'[r] = "injecting" =>
           stage'[r] = [k \in Providers |-> IF k \in app.wants THEN "checking" ELSE "none"]
    BY <1>2 DEF Inject, Answer, RequestInv, TypeOK
  <2> QED
    BY <2>1, <2>2 DEF NoneFailed
<1>3. ASSUME NEW r \in Requests,
             \/ \E m \in Messages : Arrive(r, m)
             \/ Resolve(r) \/ Handle(r) \/ QueryEnds(r)
             \/ TypeOrmQuery(r) \/ TypeOrmRawQuery(r) \/ DrizzleQuery(r) \/ IdleOut(r) \/ Finish(r)
      PROVE  NoneFailed'
  <2>1. UNCHANGED stage /\ \A q \in Requests : phase'[q] = "injecting" => phase[q] = "injecting"
    BY <1>3 DEF Arrive, Resolve, Handle, QueryEnds, TypeOrmQuery, TypeOrmRawQuery, DrizzleQuery,
                IdleOut, Finish, Answer, callVars, RequestInv, TypeOK
  <2> QED
    BY <2>1 DEF NoneFailed
<1>4. ASSUME \/ Boot \/ UNCHANGED vars
             \/ \E s \in Administered : AdminChange(s)
      PROVE  NoneFailed'
  BY <1>4 DEF Boot, AdminChange, vars, callVars, NoneFailed
<1> QED
  BY <1>1, <1>2, <1>3, <1>4 DEF Next, Goes

\* No request is left waiting for a factory that failed or never started,
\* whichever factories of it fail beside each other: WaitsForFactories.
THEOREM Awaiting == Spec => []WaitsForFactories
<1>1. Init => NoneFailed
  BY DEF Init, NoneFailed
<1>2. RequestInv /\ NoneFailed => WaitsForFactories
  <2> SUFFICES ASSUME RequestInv, NoneFailed, NEW r \in Requests, phase[r] = "injecting",
                      NEW k \in app.wants
               PROVE  stage[r][k] \in {"checking", "creating", "ready"}
    BY DEF WaitsForFactories
  <2>1. k \in Providers
    BY AppWants DEF RequestInv, Apps
  <2>2. stage[r][k] \in Stages /\ stage[r][k] # "none" /\ stage[r][k] # "failed"
    BY <2>1 DEF RequestInv, TypeOK, Handled, NoneFailed
  <2> QED
    BY <2>2 DEF Stages
<1> QED
  BY <1>1, <1>2, StaysNoneFailed, Invariance, PTL DEF Spec

=============================================================================
