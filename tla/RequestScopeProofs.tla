------------------------- MODULE RequestScopeProofs -------------------------
(***************************************************************************)
(* Handlers only run queries in the schema of their own request's tenant,  *)
(* and the providers route like TenantRouting, for any requests, messages, *)
(* options and schemas.                                                    *)
(***************************************************************************)
EXTENDS RequestScope, TLAPS

\* c is a connection one of the request's own calls opened for the schema of
\* the tenant the request names.
Owns(r, c) == \E k \in Providers : c = <<r, k>> /\ opened[r][k] = meant[r]

\* What an application that started looks like.
AppOK(a) == a = NoApp \/ \E o \in Options : a = Assembled(o)

Apps ==
    /\ AppOK(app)
    /\ \A r \in Requests : phase[r] # "new" => options = NoOptions /\ app # NoApp

\* Before its factories start a request has nothing, and a tenant only once it
\* is resolved.
Untouched ==
    \A r \in Requests :
       /\ phase[r] \in {"new", "resolving"} => meant[r] = NoSchema
       /\ phase[r] = "resolving" => message[r] \in Messages
       /\ phase[r] \in {"new", "resolving", "routed"} =>
             /\ stage[r] = [k \in Providers |-> "none"]
             /\ entry[r] = [s \in Names |-> NoConn]
             /\ holds[r] = [k \in Providers |-> NoConn]
             /\ ran[r] = {}

Contexts == \A r \in Requests : ctx[r] = meant[r]

\* The factories ask for the schema of the request's tenant.
Wants ==
    \A r \in Requests, k \in Providers :
       stage[r][k] # "none" => wanted[r] = meant[r] /\ meant[r] \in Names

\* The pool and the factories only have connections the request's calls opened,
\* and a factory that is done has one, of the ORM it is for.
Possession ==
    /\ \A r \in Requests, s \in Names : entry[r][s] # NoConn => Owns(r, entry[r][s])
    /\ \A r \in Requests, k \in Providers :
          /\ holds[r][k] # NoConn => Owns(r, holds[r][k])
          /\ stage[r][k] = "ready" => holds[r][k] # NoConn /\ Fits(k)

Handled ==
    \A r \in Requests :
       /\ phase[r] \in {"injecting", "handling"} =>
             /\ meant[r] \in Names
             /\ \A k \in app.wants : stage[r][k] # "none"
       /\ phase[r] = "handling" => \A k \in app.wants : stage[r][k] = "ready"

\* The Pool has at most one client for each query that may run at once, and
\* none but the first before two queries overlapped.
Clean ==
    \A r \in Requests :
       /\ clients[r].idle + clients[r].busy <= MaxQueries
       /\ careful[r] => clients[r].idle = 0 /\ clients[r].busy = 0

\* A call that passed the validation saw the tenant.
Admitted ==
    \A r \in Requests : Served(r) =>
       /\ State(meant[r], live) \in seen[r]
       /\ \A k \in Providers :
             stage[r][k] \in {"creating", "ready"} /\ Validates(meant[r]) => "there" \in seen[r]

RequestInv ==
    /\ TypeOK
    /\ Apps
    /\ Untouched
    /\ Contexts
    /\ Wants
    /\ Possession
    /\ Handled
    /\ Clean
    /\ QueriesConfined
    /\ Admitted

-----------------------------------------------------------------------------

\* An answer can be told from none.
LEMMA Answered == /\ \A e : Response(e) # NoReply
                  /\ Ok # NoReply
<1>1. \A e : Response(e).message \in {"generic", "mapped"}
  BY DEF Response
<1>2. Ok.message = "mapped" /\ NoReply.message = "none"
  BY DEF Ok, NoReply
<1> QED
  BY <1>1, <1>2

LEMMA AppWants ==
    ASSUME Apps, app # NoApp
    PROVE  app.wants # {} /\ app.wants \subseteq Providers
<1>1. PICK o \in Options : app = Assembled(o)
  BY DEF Apps, AppOK
<1>2. app.wants = o.wants
  BY <1>1 DEF Assembled
<1> QED
  BY <1>2, OptionsAssumption

LEMMA RequestInit == Init => RequestInv
<1> SUFFICES ASSUME Init PROVE RequestInv
  OBVIOUS
<1> USE DEF Init
<1>1. TypeOK
  <2>1. NoClients \in Clients
    BY RequestsAssumption DEF NoClients, Pg, Clients
  <2>2. clients \in [Requests -> Clients]
    BY <2>1
  <2> QED
    BY <2>2 DEF TypeOK, Phases, Stages, Schemas, Connections, Providers
<1>2. Apps /\ Untouched /\ Contexts /\ Wants /\ Handled /\ QueriesConfined
  BY DEF Apps, AppOK, Untouched, Contexts, Wants, Handled, QueriesConfined
<1>3. Possession /\ Admitted
  BY DEF Possession, Admitted, Served
<1>4. Clean
  BY RequestsAssumption DEF Clean, NoClients, Pg
<1> QED
  BY <1>1, <1>2, <1>3, <1>4 DEF RequestInv

LEMMA BootKeeps == ASSUME RequestInv, Boot PROVE RequestInv'
<1> USE DEF RequestInv, Boot, callVars, queryVars
<1>1. \A r \in Requests : phase[r] = "new" /\ \A k \in Providers : stage[r][k] = "none"
  BY DEF Apps, Untouched
<1>2. options \in Options /\ AppOK(Assembled(options))
  BY DEF TypeOK, AppOK
<1>3. app' = NoApp \/ app'.orm \in {"typeorm", "drizzle"}
  BY DEF Assembled
<1>4. TypeOK'
  BY <1>3 DEF TypeOK
<1>5. Apps'
  BY <1>1, <1>2 DEF Apps, AppOK
<1>6. Untouched' /\ Contexts' /\ Wants' /\ Clean' /\ QueriesConfined'
  BY DEF Untouched, Contexts, Wants, Clean, QueriesConfined
<1>7. Possession'
  BY <1>1 DEF Possession, Owns
<1>8. Handled' /\ Admitted'
  BY <1>1 DEF Handled, Admitted, Served
<1> QED
  BY <1>4, <1>5, <1>6, <1>7, <1>8

\* What the type invariant does not say of what a step leaves alone.
LEMMA SameApp ==
    ASSUME UNCHANGED bootVars
    PROVE  /\ \A k : Fits(k)' = Fits(k)
           /\ \A s : Validates(s)' = Validates(s)
BY DEF bootVars, Fits, Validates, TheApp

LEMMA ArriveKeeps ==
    ASSUME RequestInv, NEW r \in Requests, NEW m \in Messages, Arrive(r, m)
    PROVE  RequestInv'
<1> USE DEF RequestInv, Arrive, bootVars, callVars, queryVars
<1>1. TypeOK'
  <2>1. reply[r] = NoReply
    BY DEF TypeOK
  <2> QED
    BY <2>1 DEF TypeOK, Phases
<1>2. Apps' /\ Untouched'
  BY DEF Apps, Untouched, TypeOK
<1>3. Contexts' /\ Wants' /\ Clean' /\ QueriesConfined'
  BY DEF Contexts, Wants, Clean, QueriesConfined
<1>4. Possession'
  BY DEF Possession, Owns, Fits
<1>5. Handled' /\ Admitted'
  BY SameApp DEF Handled, Admitted, Served, TypeOK
<1> QED
  BY <1>1, <1>2, <1>3, <1>4, <1>5

LEMMA ResolveKeeps ==
    ASSUME RequestInv, NEW r \in Requests, Resolve(r)
    PROVE  RequestInv'
<1> DEFINE s == SchemaOf(ResolvedTenant(app.platform, message[r], app.resolution))
<1>1. /\ phase[r] = "resolving"
      /\ phase' = [phase EXCEPT ![r] = "routed"]
      /\ message' = [message EXCEPT ![r] = NoMessage]
      /\ meant' = [meant EXCEPT ![r] = s]
      /\ ctx' = IF s = NoSchema THEN ctx ELSE [ctx EXCEPT ![ContextOf(r)] = s]
      /\ UNCHANGED <<bootVars, live, callVars, queryVars, reply>>
  BY DEF Resolve
<1> HIDE DEF s
<1> USE DEF RequestInv, bootVars, callVars, queryVars
<1>2. s \in Schemas
  <2>1. PICK o \in Options : app = Assembled(o) /\ app # NoApp
    BY <1>1 DEF Apps, AppOK
  <2>2. app.platform = Middleware(o) /\ app.resolution = o.resolution
    BY <2>1 DEF Assembled
  <2>3. message[r] \in Messages
    BY <1>1 DEF Untouched
  <2> QED
    BY <2>2, <2>3, OptionsAssumption DEF s, Schemas
<1>3. /\ meant[r] = NoSchema /\ ctx[r] = NoSchema
      /\ \A k \in Providers : stage[r][k] = "none" /\ holds[r][k] = NoConn
      /\ \A n \in Names : entry[r][n] = NoConn
      /\ ran[r] = {}
  BY <1>1 DEF Untouched, Contexts
<1>4. TypeOK'
  <2>1. reply[r] = NoReply
    BY <1>1 DEF TypeOK
  <2> QED
    BY <1>1, <1>2, <2>1 DEF TypeOK, Phases, ContextOf
<1>5. Apps' /\ Untouched'
  BY <1>1 DEF Apps, Untouched, TypeOK
<1>6. Contexts'
  BY <1>1, <1>3 DEF Contexts, ContextOf, TypeOK
<1>7. Wants' /\ Clean'
  BY <1>1, <1>3 DEF Wants, Clean, TypeOK
<1>8. Possession'
  BY <1>1, <1>3 DEF Possession, Owns, Fits, TypeOK
<1>9. QueriesConfined'
  BY <1>1, <1>3 DEF QueriesConfined, TypeOK
<1>10. Handled'
  BY <1>1 DEF Handled, TypeOK
<1>11. Admitted'
  BY <1>1, SameApp DEF Admitted, Served, TypeOK
<1> QED
  BY <1>4, <1>5, <1>6, <1>7, <1>8, <1>9, <1>10, <1>11

LEMMA InjectKeeps ==
    ASSUME RequestInv, NEW r \in Requests, Inject(r)
    PROVE  RequestInv'
<1> USE DEF RequestInv, bootVars, callVars, queryVars
<1>1. ctx[r] = meant[r] /\ phase[r] = "routed" /\ app # NoApp
  BY DEF Inject, Contexts, Apps
<1>2. app.wants # {} /\ app.wants \subseteq Providers
  BY <1>1, AppWants
<1>3. /\ \A k \in Providers : stage[r][k] = "none" /\ holds[r][k] = NoConn
      /\ stage[r] = [k \in Providers |-> "none"]
  BY <1>1 DEF Untouched
<1>4. CASE meant[r] = NoSchema
  <2>1. PICK k \in app.wants : Answer(r, Response(NoContext(k)))
    BY <1>1, <1>4 DEF Inject, ContextOf
  <2>2. /\ phase' = [phase EXCEPT ![r] = "answered"]
        /\ reply'[r] # NoReply /\ \A q \in Requests \ {r} : reply'[q] = reply[q]
        /\ reply' = [q \in Requests |-> reply'[q]]
    BY <2>1, Answered DEF Answer, TypeOK
  <2>7. UNCHANGED <<bootVars, live, message, meant, ctx, callVars, queryVars>>
    BY <1>1, <1>4 DEF Inject, ContextOf
  <2>3. TypeOK'
    BY <2>2, <2>7 DEF TypeOK, Phases
  <2>4. Apps' /\ Untouched' /\ Contexts' /\ Wants' /\ Clean' /\ QueriesConfined'
    BY <1>1, <2>2, <2>7 DEF Apps, Untouched, Contexts, Wants, Clean, QueriesConfined, TypeOK
  <2>5. Possession'
    BY <2>2, <2>7 DEF Possession, Owns, Fits
  <2>6. Handled' /\ Admitted'
    BY <2>2, <2>7, SameApp DEF Handled, Admitted, Served, TypeOK
  <2> QED
    BY <2>3, <2>4, <2>5, <2>6
<1>5. CASE meant[r] # NoSchema
  <2>1. /\ phase' = [phase EXCEPT ![r] = "injecting"]
        /\ wanted' = [wanted EXCEPT ![r] = meant[r]]
        /\ stage' = [stage EXCEPT ![r] =
                       [k \in Providers |-> IF k \in app.wants THEN "checking" ELSE "none"]]
        /\ seen' = [seen EXCEPT ![r] = {State(meant[r], live)}]
        /\ UNCHANGED <<bootVars, live, message, meant, ctx, opened, entry, holds, queryVars, reply>>
    <3>1. ctx[ContextOf(r)] = meant[r]
      BY <1>1 DEF ContextOf
    <3>2. /\ phase' = [phase EXCEPT ![r] = "injecting"]
          /\ wanted' = [wanted EXCEPT ![r] = meant[r]]
      BY <1>5, <3>1 DEF Inject
    <3>3. stage' = [stage EXCEPT ![r] =
                       [k \in Providers |-> IF k \in app.wants THEN "checking" ELSE "none"]]
      BY <1>5, <3>1 DEF Inject
    <3>4. UNCHANGED <<bootVars, live, message, meant, ctx, opened, entry, holds, queryVars, reply>>
      BY <1>5, <3>1 DEF Inject
    <3>5. seen' = [seen EXCEPT ![r] = {State(meant[r], live)}]
      BY <1>5, <3>1 DEF Inject
    <3> QED
      BY <3>2, <3>3, <3>4, <3>5
  <2>2. meant[r] \in Names
    BY <1>5 DEF TypeOK, Schemas
  <2>3. stage'[r] = [k \in Providers |-> IF k \in app.wants THEN "checking" ELSE "none"]
    BY <1>3, <2>1 DEF TypeOK
  <2>4. TypeOK'
    <3>1. stage' \in [Requests -> [Providers -> Stages]]
      BY <2>1, <1>3 DEF TypeOK, Stages
    <3>2. seen' \in [Requests -> SUBSET {"there", "gone", "error"}]
      BY <2>1 DEF TypeOK, State
    <3>3. reply[r] = NoReply
      BY <1>1 DEF TypeOK
    <3> QED
      BY <1>1, <2>1, <3>1, <3>2, <3>3 DEF TypeOK, Phases
  <2>5. Apps' /\ Untouched' /\ Contexts' /\ Clean' /\ QueriesConfined'
    BY <1>1, <2>1 DEF Apps, Untouched, Contexts, Clean, QueriesConfined, TypeOK
  <2>6. Wants'
    BY <2>1, <2>2, <2>3 DEF Wants, TypeOK
  <2>7. Possession'
    <3>1. \A q \in Requests, k \in Providers : stage'[q][k] = "ready" => stage[q][k] = "ready"
      BY <2>1, <2>3 DEF TypeOK
    <3> QED
      BY <2>1, <3>1 DEF Possession, Owns, Fits
  <2>8. Handled'
    BY <1>2, <2>1, <2>2, <2>3 DEF Handled, TypeOK
  <2>9. Admitted'
    <3>1. \A q \in Requests \ {r} : Served(q)' = Served(q) /\ stage'[q] = stage[q]
                                     /\ seen'[q] = seen[q]
      BY <2>1 DEF Served, TypeOK
    <3>2. \A k \in Providers : stage'[r][k] \notin {"creating", "ready"}
      BY <2>3
    <3>3. seen'[r] = {State(meant[r], live)}
      BY <2>1 DEF TypeOK
    <3> QED
      BY <2>1, <3>1, <3>2, <3>3, SameApp DEF Admitted
  <2> QED
    BY <2>4, <2>5, <2>6, <2>7, <2>8, <2>9
<1> QED
  BY <1>4, <1>5

\* Owns, with the schemas of the connections as opened has them.
Has(r, c, connections) == \E k \in Providers : c = <<r, k>> /\ connections[r][k] = meant[r]

\* A step of the request's call for the provider k, to the stage t.
CallStep(r, k, t) ==
    /\ stage[r][k] \in {"checking", "creating"}
    /\ stage' = [stage EXCEPT ![r][k] = t]
    /\ \/ UNCHANGED <<phase, reply>>
       \/ phase[r] = "injecting" /\ \E e : Answer(r, Response(e))
    /\ \/ UNCHANGED opened
       \/ opened' = [opened EXCEPT ![r][k] = wanted[r]]
    /\ \/ UNCHANGED entry
       \/ /\ entry' = [entry EXCEPT ![r][wanted[r]] = <<r, k>>]
          /\ opened' = [opened EXCEPT ![r][k] = wanted[r]]
    /\ \/ UNCHANGED holds /\ t # "ready"
       \/ \E c \in Connections \ {NoConn} :
             /\ holds' = [holds EXCEPT ![r][k] = c]
             /\ Has(r, c, opened')
             /\ Fits(k)
    /\ t \in {"creating", "ready"} /\ Validates(meant[r]) /\ Served(r) => "there" \in seen[r]
    /\ \/ UNCHANGED clients
       \/ clients' = [clients EXCEPT ![r] = Pg("idle", @.idle, @.busy)]
    /\ \/ UNCHANGED seen
       \/ seen' = [seen EXCEPT ![r] = @ \cup {"error"}]
    /\ UNCHANGED <<bootVars, live, message, meant, ctx, wanted, ran, careful>>

\* Such a step preserves the invariant.
LEMMA CallKeeps ==
    ASSUME RequestInv, NEW r \in Requests, NEW k \in Providers, NEW t \in Stages \ {"none"},
           CallStep(r, k, t)
    PROVE  RequestInv'
<1> USE DEF RequestInv, bootVars
<1>1. /\ stage[r][k] \in {"checking", "creating"}
      /\ stage' = [stage EXCEPT ![r][k] = t]
      /\ UNCHANGED <<bootVars, live, message, meant, ctx, wanted, ran, careful>>
  BY DEF CallStep
<1>2. /\ stage'[r][k] = t
      /\ \A q \in Requests, l \in Providers : <<q, l>> # <<r, k>> => stage'[q][l] = stage[q][l]
      /\ stage' \in [Requests -> [Providers -> Stages]]
  BY <1>1 DEF TypeOK
<1>3. /\ wanted[r] = meant[r] /\ meant[r] \in Names
      /\ phase[r] \notin {"new", "resolving", "routed"}
  BY <1>1 DEF Wants, Untouched
<1>4. /\ \A q \in Requests \ {r} : phase'[q] = phase[q]
      /\ phase'[r] # phase[r] => phase[r] = "injecting" /\ phase'[r] = "answered"
      /\ phase' \in [Requests -> Phases]
      /\ reply' = [q \in Requests |-> reply'[q]]
      /\ \A q \in Requests : (reply'[q] = NoReply) <=> (phase'[q] # "answered")
  <2>1. CASE UNCHANGED <<phase, reply>>
    BY <2>1 DEF TypeOK
  <2>2. CASE phase[r] = "injecting" /\ \E e : Answer(r, Response(e))
    <3>1. PICK e : Answer(r, Response(e))
      BY <2>2
    <3>2. phase' = [phase EXCEPT ![r] = "answered"] /\ reply' = [reply EXCEPT ![r] = Response(e)]
      BY <3>1 DEF Answer
    <3>3. Response(e) # NoReply
      BY Answered
    <3> QED
      BY <2>2, <3>2, <3>3 DEF TypeOK, Phases
  <2> QED
    BY <2>1, <2>2 DEF CallStep
<1>5. /\ opened' \in [Requests -> [Providers -> Schemas]]
      /\ \A q \in Requests, l \in Providers :
            opened[q][l] = meant[q] => opened'[q][l] = meant[q]
  <2>1. CASE UNCHANGED opened
    BY <2>1 DEF TypeOK
  <2>2. CASE opened' = [opened EXCEPT ![r][k] = wanted[r]]
    BY <2>2, <1>3 DEF TypeOK, Schemas
  <2> QED
    BY <2>1, <2>2 DEF CallStep
<1>6. \A q \in Requests : \A c : Owns(q, c) => Has(q, c, opened')
  BY <1>1, <1>5 DEF Owns, Has
<1>7. /\ entry' \in [Requests -> [Names -> Connections]]
      /\ \A q \in Requests, n \in Names : entry'[q][n] # NoConn => Has(q, entry'[q][n], opened')
  <2>1. CASE UNCHANGED entry
    BY <2>1, <1>6 DEF TypeOK, Possession
  <2>2. CASE /\ entry' = [entry EXCEPT ![r][wanted[r]] = <<r, k>>]
             /\ opened' = [opened EXCEPT ![r][k] = wanted[r]]
    <3>1. entry' \in [Requests -> [Names -> Connections]]
      BY <2>2, <1>3 DEF TypeOK, Connections
    <3>2. Has(r, <<r, k>>, opened')
      BY <2>2, <1>1, <1>3 DEF TypeOK, Has
    <3>3. \A q \in Requests, n \in Names :
             entry'[q][n] = entry[q][n] \/ (q = r /\ entry'[q][n] = <<r, k>>)
      BY <2>2, <1>3 DEF TypeOK
    <3> QED
      BY <3>1, <3>2, <3>3, <1>6 DEF Possession
  <2> QED
    BY <2>1, <2>2 DEF CallStep
<1>8. /\ holds' \in [Requests -> [Providers -> Connections]]
      /\ \A q \in Requests, l \in Providers : holds'[q][l] # NoConn => Has(q, holds'[q][l], opened')
      /\ \A q \in Requests, l \in Providers :
            stage'[q][l] = "ready" => holds'[q][l] # NoConn /\ Fits(l)
  <2>1. CASE UNCHANGED holds /\ t # "ready"
    <3>1. \A q \in Requests, l \in Providers : stage'[q][l] = "ready" => stage[q][l] = "ready"
      BY <2>1, <1>2
    <3> QED
      BY <2>1, <3>1, <1>6 DEF TypeOK, Possession
  <2>2. CASE \E c \in Connections \ {NoConn} :
               /\ holds' = [holds EXCEPT ![r][k] = c]
               /\ Has(r, c, opened')
               /\ Fits(k)
    <3>1. PICK c \in Connections \ {NoConn} :
               /\ holds' = [holds EXCEPT ![r][k] = c]
               /\ Has(r, c, opened')
               /\ Fits(k)
      BY <2>2
    <3>2. holds' \in [Requests -> [Providers -> Connections]]
      BY <3>1 DEF TypeOK
    <3>3. holds'[r][k] = c /\ \A q \in Requests, l \in Providers :
             <<q, l>> # <<r, k>> => holds'[q][l] = holds[q][l]
      BY <3>1 DEF TypeOK
    <3>4. \A q \in Requests, l \in Providers : <<q, l>> # <<r, k>> =>
             /\ holds'[q][l] # NoConn => Has(q, holds'[q][l], opened')
             /\ stage'[q][l] = "ready" => holds'[q][l] # NoConn /\ Fits(l)
      BY <3>3, <1>2, <1>6 DEF Possession
    <3> QED
      BY <3>1, <3>2, <3>3, <3>4
  <2> QED
    BY <2>1, <2>2 DEF CallStep
<1>9. /\ clients' \in [Requests -> Clients]
      /\ \A q \in Requests : clients'[q].idle = clients[q].idle /\ clients'[q].busy = clients[q].busy
  <2>1. CASE UNCHANGED clients
    BY <2>1 DEF TypeOK
  <2>2. CASE clients' = [clients EXCEPT ![r] = Pg("idle", @.idle, @.busy)]
    BY <2>2 DEF TypeOK, Clients, Pg
  <2> QED
    BY <2>1, <2>2 DEF CallStep
<1>10. /\ seen' \in [Requests -> SUBSET {"there", "gone", "error"}]
       /\ \A q \in Requests : seen[q] \subseteq seen'[q]
  <2>1. CASE UNCHANGED seen
    BY <2>1 DEF TypeOK
  <2>2. CASE seen' = [seen EXCEPT ![r] = @ \cup {"error"}]
    BY <2>2 DEF TypeOK
  <2> QED
    BY <2>1, <2>2 DEF CallStep
<1>11. TypeOK'
  BY <1>1, <1>2, <1>4, <1>5, <1>7, <1>8, <1>9, <1>10 DEF TypeOK
<1>12. Apps'
  BY <1>1, <1>4 DEF Apps
<1>13. Untouched'
  <2>1. \A q \in Requests \ {r} : /\ phase'[q] = phase[q] /\ stage'[q] = stage[q]
                                 /\ entry'[q] = entry[q] /\ holds'[q] = holds[q]
    BY <1>1, <1>4 DEF CallStep, TypeOK
  <2> QED
    BY <1>1, <1>3, <1>4, <2>1 DEF Untouched
<1>14. Contexts' /\ Wants'
  BY <1>1, <1>2, <1>3 DEF Contexts, Wants
<1>15. Possession'
  BY <1>1, <1>7, <1>8, SameApp DEF Possession, Owns, Has
<1>16. Handled'
  <2>1. \A q \in Requests : phase'[q] \in {"injecting", "handling"} => phase[q] = phase'[q]
    BY <1>4
  <2>2. \A q \in Requests, l \in Providers : stage[q][l] # "none" => stage'[q][l] # "none"
    BY <1>2
  <2>3. \A q \in Requests, l \in Providers : stage[q][l] = "ready" => stage'[q][l] = "ready"
    BY <1>1, <1>2
  <2>4. app # NoApp
    BY <1>3 DEF Apps, TypeOK
  <2>5. app.wants \subseteq Providers
    BY <2>4, AppWants
  <2> QED
    BY <1>1, <2>1, <2>2, <2>3, <2>5 DEF Handled
<1>17. Clean' /\ QueriesConfined'
  BY <1>1, <1>9 DEF Clean, QueriesConfined
<1>18. Admitted'
  <2>1. \A q \in Requests : Served(q)' => Served(q)
    BY <1>4 DEF Served
  <2>2. t \in {"creating", "ready"} /\ Validates(meant[r]) /\ Served(r) => "there" \in seen[r]
    BY DEF CallStep
  <2> QED
    BY <1>1, <1>2, <1>10, <2>1, <2>2, SameApp DEF Admitted, State
<1> QED
  BY <1>11, <1>12, <1>13, <1>14, <1>15, <1>16, <1>17, <1>18

LEMMA CheckKeeps ==
    ASSUME RequestInv, NEW r \in Requests, NEW k \in Providers, Check(r, k)
    PROVE  RequestInv'
<1> USE DEF callVars, queryVars
<1>1. /\ stage[r][k] = "checking"
      /\ wanted[r] = meant[r] /\ meant[r] \in Names
      /\ UNCHANGED <<bootVars, live, message, meant, ctx, wanted, opened, entry, seen, clients,
                     ran, careful>>
  BY DEF Check, RequestInv, Wants
<1>2. CASE ~Admits(wanted[r])
  <2>1. Rejects(r, k, Http(404)) /\ UNCHANGED holds
    BY <1>2 DEF Check
  <2>2. CallStep(r, k, "failed")
    BY <1>1, <2>1 DEF CallStep, Rejects
  <2> QED
    BY <2>2, CallKeeps DEF Stages
<1>3. CASE Admits(wanted[r])
  <2>1. Validates(meant[r]) /\ Served(r) => "there" \in seen[r]
    BY <1>1, <1>3 DEF RequestInv, Admitted, Admits, State
  <2>2. CASE Pooled(r) = NoConn
    <3>1. stage' = [stage EXCEPT ![r][k] = "creating"] /\ UNCHANGED <<phase, reply, holds>>
      BY <1>3, <2>2 DEF Check
    <3>2. CallStep(r, k, "creating")
      BY <1>1, <2>1, <3>1 DEF CallStep
    <3> QED
      BY <3>2, CallKeeps DEF Stages
  <2>3. CASE Pooled(r) # NoConn /\ Fits(k)
    <3>1. /\ stage' = [stage EXCEPT ![r][k] = "ready"]
          /\ holds' = [holds EXCEPT ![r][k] = Pooled(r)]
          /\ UNCHANGED <<phase, reply>>
      BY <1>3, <2>3 DEF Check, Delivers
    <3>2. Pooled(r) = entry[r][meant[r]]
      BY <1>1 DEF Pooled, ServiceOf
    <3>3. Pooled(r) \in Connections \ {NoConn} /\ Has(r, Pooled(r), opened')
      BY <1>1, <2>3, <3>2 DEF RequestInv, TypeOK, Possession, Owns, Has
    <3>4. CallStep(r, k, "ready")
      BY <1>1, <2>1, <2>3, <3>1, <3>3 DEF CallStep
    <3> QED
      BY <3>4, CallKeeps DEF Stages
  <2>4. CASE Pooled(r) # NoConn /\ ~Fits(k)
    <3>1. Rejects(r, k, Plain({"connection"})) /\ UNCHANGED holds
      BY <1>3, <2>4 DEF Check, Delivers
    <3>2. CallStep(r, k, "failed")
      BY <1>1, <3>1 DEF CallStep, Rejects
    <3> QED
      BY <3>2, CallKeeps DEF Stages
  <2> QED
    BY <2>2, <2>3, <2>4
<1> QED
  BY <1>2, <1>3

LEMMA CheckFailsKeeps ==
    ASSUME RequestInv, NEW r \in Requests, NEW k \in Providers, CheckFails(r, k)
    PROVE  RequestInv'
<1>1. PICK e : Rejects(r, k, e)
  BY DEF CheckFails
<1>2. CallStep(r, k, "failed")
  BY <1>1 DEF CheckFails, CallStep, Rejects, queryVars
<1> QED
  BY <1>2, CallKeeps DEF Stages

LEMMA OpenKeeps ==
    ASSUME RequestInv, NEW r \in Requests, NEW k \in Providers, Open(r, k)
    PROVE  RequestInv'
<1>1. /\ stage[r][k] = "creating"
      /\ opened' = [opened EXCEPT ![r][k] = wanted[r]]
      /\ entry' = [entry EXCEPT ![r][wanted[r]] = <<r, k>>]
      /\ Delivers(r, k, <<r, k>>)
      /\ UNCHANGED <<bootVars, live, message, meant, ctx, wanted, seen, ran, careful>>
  BY DEF Open, ServiceOf
<1>2. \/ UNCHANGED clients
      \/ clients' = [clients EXCEPT ![r] = Pg("idle", @.idle, @.busy)]
  BY DEF Open
<1>3. wanted[r] = meant[r] /\ meant[r] \in Names
  BY <1>1 DEF RequestInv, Wants
<1>4. Validates(meant[r]) /\ Served(r) => "there" \in seen[r]
  BY <1>1 DEF RequestInv, Admitted
<1>5. CASE Fits(k)
  <2>1. /\ stage' = [stage EXCEPT ![r][k] = "ready"]
        /\ holds' = [holds EXCEPT ![r][k] = <<r, k>>]
        /\ UNCHANGED <<phase, reply>>
    BY <1>1, <1>5 DEF Delivers
  <2>2. <<r, k>> \in Connections \ {NoConn}
    BY RequestsAssumption DEF Connections
  <2>3. opened'[r][k] = meant[r]
    BY <1>1, <1>3 DEF RequestInv, TypeOK
  <2>4. Has(r, <<r, k>>, opened')
    BY <2>3 DEF Has
  <2>5. CallStep(r, k, "ready")
    BY <1>1, <1>2, <1>4, <1>5, <2>1, <2>2, <2>4 DEF CallStep
  <2> QED
    BY <2>5, CallKeeps DEF Stages
<1>6. CASE ~Fits(k)
  <2>1. Rejects(r, k, Plain({"connection"})) /\ UNCHANGED holds
    BY <1>1, <1>6 DEF Delivers
  <2>2. CallStep(r, k, "failed")
    BY <1>1, <1>2, <2>1 DEF CallStep, Rejects
  <2> QED
    BY <2>2, CallKeeps DEF Stages
<1> QED
  BY <1>5, <1>6

LEMMA OpenFailsKeeps ==
    ASSUME RequestInv, NEW r \in Requests, NEW k \in Providers, OpenFails(r, k)
    PROVE  RequestInv'
<1>1. PICK e : Rejects(r, k, e)
  BY DEF OpenFails
<1>2. UNCHANGED opened \/ opened' = [opened EXCEPT ![r][k] = wanted[r]]
  BY DEF OpenFails
<1>3. CallStep(r, k, "failed")
  BY <1>1, <1>2 DEF OpenFails, CallStep, Rejects, queryVars
<1> QED
  BY <1>3, CallKeeps DEF Stages

LEMMA HandleKeeps ==
    ASSUME RequestInv, NEW r \in Requests, Handle(r)
    PROVE  RequestInv'
<1> USE DEF RequestInv, Handle, bootVars, callVars, queryVars
<1>1. TypeOK'
  <2>1. reply[r] = NoReply
    BY DEF TypeOK
  <2> QED
    BY <2>1 DEF TypeOK, Phases
<1>2. Apps' /\ Untouched' /\ Contexts' /\ Wants' /\ Clean' /\ QueriesConfined'
  BY DEF Apps, Untouched, Contexts, Wants, Clean, QueriesConfined, TypeOK
<1>3. Possession'
  BY DEF Possession, Owns, Fits
<1>4. Handled'
  BY DEF Handled, TypeOK
<1>5. Admitted'
  BY SameApp DEF Admitted, Served, TypeOK
<1> QED
  BY <1>1, <1>2, <1>3, <1>4, <1>5

\* What a handler queries through the connections it was given.
LEMMA HandlersConnections ==
    ASSUME RequestInv, NEW r \in Requests, phase[r] = "handling"
    PROVE  /\ meant[r] \in Names
           /\ app.wants # {} /\ app.wants \subseteq Providers
           /\ \A k \in app.wants : Fits(k) /\ ConnSchema(r, k) = meant[r]
<1>1. meant[r] \in Names /\ \A k \in app.wants : stage[r][k] = "ready"
  BY DEF RequestInv, Handled
<1>2. app.wants # {} /\ app.wants \subseteq Providers
  BY AppWants DEF RequestInv, Apps
<1>3. ASSUME NEW k \in app.wants
      PROVE  Fits(k) /\ ConnSchema(r, k) = meant[r]
  <2>1. Fits(k) /\ Owns(r, holds[r][k])
    BY <1>1, <1>2 DEF RequestInv, Possession
  <2> QED
    BY <2>1 DEF Owns, ConnSchema
<1> QED
  BY <1>1, <1>2, <1>3

\* A step that only changes the request's clients to c, adds x to where its
\* queries ran and makes careful l.
LEMMA QueriesKeep ==
    ASSUME RequestInv, NEW r \in Requests, NEW c \in Clients, NEW l \in BOOLEAN, NEW x,
           phase[r] = "handling" \/ x = {},
           l => careful[r] /\ c.idle = 0 /\ c.busy = 0,
           c.idle + c.busy <= MaxQueries,
           x \subseteq {meant[r]} \cup (IF l THEN {} ELSE {DefaultPath}),
           clients' = [clients EXCEPT ![r] = c],
           ran' = [ran EXCEPT ![r] = @ \cup x],
           careful' = [careful EXCEPT ![r] = l],
           UNCHANGED <<bootVars, live, phase, message, meant, ctx, callVars, reply>>
    PROVE  RequestInv'
<1> USE DEF RequestInv, bootVars, callVars
<1>1. x \subseteq Names \cup {DefaultPath}
  BY HandlersConnections
<1>2. /\ ran' \in [Requests -> SUBSET (Names \cup {DefaultPath})]
      /\ ran'[r] = ran[r] \cup x /\ \A q \in Requests \ {r} : ran'[q] = ran[q]
  BY <1>1 DEF TypeOK
<1>3. /\ careful' \in [Requests -> BOOLEAN]
      /\ careful'[r] = l /\ \A q \in Requests \ {r} : careful'[q] = careful[q]
  BY DEF TypeOK
<1>4. /\ clients' \in [Requests -> Clients]
      /\ clients'[r] = c /\ \A q \in Requests \ {r} : clients'[q] = clients[q]
  BY DEF TypeOK
<1>5. TypeOK'
  BY <1>2, <1>3, <1>4 DEF TypeOK
<1>6. Apps' /\ Untouched' /\ Contexts' /\ Wants'
  BY <1>2 DEF Apps, Untouched, Contexts, Wants
<1>7. Possession'
  BY DEF Possession, Owns, Fits
<1>8. Clean'
  BY <1>3, <1>4 DEF Clean
<1>9. QueriesConfined'
  BY <1>2, <1>3 DEF QueriesConfined
<1>10. Handled' /\ Admitted'
  BY SameApp DEF Handled, Admitted, Served
<1> QED
  BY <1>5, <1>6, <1>7, <1>8, <1>9, <1>10

LEMMA TypeOrmRawQueryKeeps ==
    ASSUME RequestInv, NEW r \in Requests, TypeOrmRawQuery(r)
    PROVE  RequestInv'
<1>1. /\ clients[r] \in Clients
      /\ clients' = [clients EXCEPT ![r] = clients[r]]
      /\ clients[r].idle + clients[r].busy <= MaxQueries
  BY DEF TypeOrmRawQuery, RequestInv, TypeOK, Clean
<1> QED
  BY <1>1, QueriesKeep DEF TypeOrmRawQuery

LEMMA TypeOrmQueryKeeps ==
    ASSUME RequestInv, NEW r \in Requests, TypeOrmQuery(r)
    PROVE  RequestInv'
<1>1. PICK k \in app.wants : ran' = [ran EXCEPT ![r] = @ \cup {ConnSchema(r, k)}]
  BY DEF TypeOrmQuery
<1>2. ConnSchema(r, k) = meant[r]
  BY HandlersConnections DEF TypeOrmQuery
<1>3. clients[r] \in Clients /\ careful[r] \in BOOLEAN
  BY DEF RequestInv, TypeOK
<1>4. clients' = [clients EXCEPT ![r] = clients[r]] /\ careful' = [careful EXCEPT ![r] = careful[r]]
  BY DEF TypeOrmQuery, RequestInv, TypeOK
<1>5. /\ clients[r].idle + clients[r].busy <= MaxQueries
      /\ careful[r] => clients[r].idle = 0 /\ clients[r].busy = 0
  BY DEF RequestInv, Clean
<1> QED
  BY <1>1, <1>2, <1>3, <1>4, <1>5, QueriesKeep DEF TypeOrmQuery

\* The numbers of clients.
LEMMA ClientCounts ==
    ASSUME RequestInv, NEW r \in Requests
    PROVE  /\ clients[r].first \in {"none", "idle", "busy", "gone"}
           /\ clients[r].idle \in Nat /\ clients[r].busy \in Nat
           /\ clients[r].idle + clients[r].busy <= MaxQueries
           /\ MaxQueries \in Nat
           /\ careful[r] \in BOOLEAN
           /\ careful[r] => clients[r].idle = 0 /\ clients[r].busy = 0
<1>1. clients[r] \in Clients /\ careful[r] \in BOOLEAN
  BY DEF RequestInv, TypeOK
<1> QED
  BY <1>1, RequestsAssumption DEF RequestInv, Clean, Clients

LEMMA PgTypes ==
    ASSUME NEW f \in {"none", "idle", "busy", "gone"}, NEW i \in Nat, NEW b \in Nat,
           i + b <= MaxQueries
    PROVE  Pg(f, i, b) \in Clients /\ Pg(f, i, b).idle = i /\ Pg(f, i, b).busy = b
BY RequestsAssumption DEF Pg, Clients

LEMMA DrizzleQueryKeeps ==
    ASSUME RequestInv, NEW r \in Requests, DrizzleQuery(r)
    PROVE  RequestInv'
<1> DEFINE c == clients[r]
           l == careful[r] /\ Running(r) = 0 /\ c.first = "idle"
<1>1. /\ phase[r] = "handling" /\ app.orm = "drizzle" /\ Running(r) < MaxQueries
      /\ careful' = [careful EXCEPT ![r] = l]
      /\ UNCHANGED <<bootVars, live, phase, message, meant, ctx, callVars, reply>>
  BY DEF DrizzleQuery
<1>2. /\ c.first \in {"none", "idle", "busy", "gone"} /\ c.idle \in Nat /\ c.busy \in Nat
      /\ c.idle + c.busy <= MaxQueries
      /\ l => careful[r] /\ c.idle = 0 /\ c.busy = 0
  BY ClientCounts
<1>3. l \in BOOLEAN
  OBVIOUS
<1>4. CASE /\ c.first = "idle"
           /\ clients' = [clients EXCEPT ![r] = Pg("busy", c.idle, c.busy)]
           /\ ran' = [ran EXCEPT ![r] = @ \cup {ConnSchema(r, "TENANT_DRIZZLE_DB")}]
  <2>1. ConnSchema(r, "TENANT_DRIZZLE_DB") = meant[r]
    BY <1>1, HandlersConnections DEF Fits
  <2>2. /\ Pg("busy", c.idle, c.busy) \in Clients
        /\ Pg("busy", c.idle, c.busy).idle = c.idle /\ Pg("busy", c.idle, c.busy).busy = c.busy
    BY <1>2, PgTypes
  <2> HIDE DEF c, l
  <2> QED
    BY <1>1, <1>2, <1>3, <1>4, <2>1, <2>2, QueriesKeep
<1>5. CASE /\ c.idle > 0
           /\ clients' = [clients EXCEPT ![r] = Pg(c.first, c.idle - 1, c.busy + 1)]
           /\ ran' = [ran EXCEPT ![r] = @ \cup {DefaultPath}]
  <2>1. ~l
    BY <1>2, <1>5
  <2>2. c.idle - 1 \in Nat /\ c.busy + 1 \in Nat /\ (c.idle - 1) + (c.busy + 1) <= MaxQueries
    BY <1>2, <1>5, RequestsAssumption
  <2>3. /\ Pg(c.first, c.idle - 1, c.busy + 1) \in Clients
        /\ Pg(c.first, c.idle - 1, c.busy + 1).idle = c.idle - 1
        /\ Pg(c.first, c.idle - 1, c.busy + 1).busy = c.busy + 1
    BY <1>2, <2>2, PgTypes
  <2> HIDE DEF c, l
  <2> QED
    BY <1>1, <1>3, <1>5, <2>1, <2>2, <2>3, QueriesKeep
<1>6. CASE /\ c.idle = 0 /\ c.first # "idle"
           /\ clients' = [clients EXCEPT ![r] = Pg(c.first, c.idle, c.busy + 1)]
           /\ ran' = [ran EXCEPT ![r] = @ \cup {DefaultPath}]
  <2>1. ~l
    BY <1>6
  <2>2. c.busy + 1 \in Nat /\ c.idle + (c.busy + 1) <= MaxQueries
    BY <1>1, <1>2, <1>6, RequestsAssumption DEF Running
  <2>3. /\ Pg(c.first, c.idle, c.busy + 1) \in Clients
        /\ Pg(c.first, c.idle, c.busy + 1).idle = c.idle
        /\ Pg(c.first, c.idle, c.busy + 1).busy = c.busy + 1
    BY <1>2, <2>2, PgTypes
  <2> HIDE DEF c, l
  <2> QED
    BY <1>1, <1>3, <1>6, <2>1, <2>2, <2>3, QueriesKeep
<1> QED
  BY <1>4, <1>5, <1>6 DEF DrizzleQuery

\* Queries that end and clients that are dropped only move clients.
LEMMA ClientsMove ==
    ASSUME RequestInv, NEW r \in Requests,
           NEW f \in {"none", "idle", "busy", "gone"}, NEW i \in Nat, NEW b \in Nat,
           i + b <= clients[r].idle + clients[r].busy,
           clients' = [clients EXCEPT ![r] = Pg(f, i, b)],
           UNCHANGED <<bootVars, live, phase, message, meant, ctx, callVars, ran, careful, reply>>
    PROVE  RequestInv'
<1>1. /\ clients[r].idle \in Nat /\ clients[r].busy \in Nat
      /\ clients[r].idle + clients[r].busy <= MaxQueries
      /\ careful[r] \in BOOLEAN
      /\ careful[r] => clients[r].idle = 0 /\ clients[r].busy = 0
  BY ClientCounts
<1>2. i + b <= MaxQueries
  BY <1>1, RequestsAssumption
<1>5. ASSUME careful[r] PROVE i = 0 /\ b = 0
  BY <1>1, <1>5
<1>3. Pg(f, i, b) \in Clients /\ Pg(f, i, b).idle = i /\ Pg(f, i, b).busy = b
  BY <1>2, PgTypes
<1>4. ran' = [ran EXCEPT ![r] = @ \cup {}] /\ careful' = [careful EXCEPT ![r] = careful[r]]
  BY DEF RequestInv, TypeOK
<1> QED
  BY <1>1, <1>2, <1>3, <1>4, <1>5, QueriesKeep

LEMMA QueryEndsKeeps ==
    ASSUME RequestInv, NEW r \in Requests, QueryEnds(r)
    PROVE  RequestInv'
<1> DEFINE c == clients[r]
<1>1. /\ c.first \in {"none", "idle", "busy", "gone"} /\ c.idle \in Nat /\ c.busy \in Nat
      /\ UNCHANGED <<bootVars, live, phase, message, meant, ctx, callVars, ran, careful, reply>>
  BY ClientCounts DEF QueryEnds
<1>2. CASE clients' = [clients EXCEPT ![r] = Pg("idle", c.idle, c.busy)]
  <2>1. c.idle + c.busy <= c.idle + c.busy
    BY <1>1
  <2>2. "idle" \in {"none", "idle", "busy", "gone"}
    OBVIOUS
  <2> QED
    BY <1>1, <1>2, <2>1, <2>2, ClientsMove
<1>3. CASE c.busy > 0 /\ clients' = [clients EXCEPT ![r] = Pg(c.first, c.idle + 1, c.busy - 1)]
  <2>1. c.idle + 1 \in Nat /\ c.busy - 1 \in Nat /\ (c.idle + 1) + (c.busy - 1) <= c.idle + c.busy
    BY <1>1, <1>3
  <2> QED
    BY <1>1, <1>3, <2>1, ClientsMove
<1> QED
  BY <1>2, <1>3 DEF QueryEnds

LEMMA IdleOutKeeps ==
    ASSUME RequestInv, NEW r \in Requests, IdleOut(r)
    PROVE  RequestInv'
<1> DEFINE c == clients[r]
<1>1. /\ c.first \in {"none", "idle", "busy", "gone"} /\ c.idle \in Nat /\ c.busy \in Nat
      /\ UNCHANGED <<bootVars, live, phase, message, meant, ctx, callVars, ran, careful, reply>>
  BY ClientCounts DEF IdleOut
<1>2. CASE clients' = [clients EXCEPT ![r] = Pg("gone", c.idle, c.busy)]
  <2>1. c.idle + c.busy <= c.idle + c.busy
    BY <1>1
  <2>2. "gone" \in {"none", "idle", "busy", "gone"}
    OBVIOUS
  <2> QED
    BY <1>1, <1>2, <2>1, <2>2, ClientsMove
<1>3. CASE c.idle > 0 /\ clients' = [clients EXCEPT ![r] = Pg(c.first, c.idle - 1, c.busy)]
  <2>1. c.idle - 1 \in Nat /\ (c.idle - 1) + c.busy <= c.idle + c.busy
    BY <1>1, <1>3
  <2> QED
    BY <1>1, <1>3, <2>1, ClientsMove
<1> QED
  BY <1>2, <1>3 DEF IdleOut

LEMMA FinishKeeps ==
    ASSUME RequestInv, NEW r \in Requests, Finish(r)
    PROVE  RequestInv'
<1> USE DEF RequestInv, bootVars, callVars
<1>1. PICK response : /\ phase' = [phase EXCEPT ![r] = "answered"]
                      /\ reply' = [reply EXCEPT ![r] = response]
                      /\ response # NoReply
  BY Answered DEF Finish, Answer
<1>2. /\ phase[r] = "handling"
      /\ clients' = [clients EXCEPT ![r] = NoClients]
      /\ ran' = [ran EXCEPT ![r] = {}]
      /\ careful' = [careful EXCEPT ![r] = TRUE]
      /\ UNCHANGED <<bootVars, live, message, meant, ctx, callVars>>
  BY DEF Finish
<1>3. /\ NoClients \in Clients /\ NoClients.idle + NoClients.busy <= MaxQueries
      /\ NoClients.idle = 0 /\ NoClients.busy = 0
  BY RequestsAssumption DEF NoClients, Pg, Clients
<1>4. TypeOK'
  BY <1>1, <1>2, <1>3 DEF TypeOK, Phases
<1>5. Apps' /\ Untouched' /\ Contexts' /\ Wants' /\ QueriesConfined'
  BY <1>1, <1>2 DEF Apps, Untouched, Contexts, Wants, QueriesConfined, TypeOK
<1>6. Possession'
  BY <1>2 DEF Possession, Owns, Fits
<1>7. Clean'
  BY <1>2, <1>3 DEF Clean, TypeOK
<1>8. Handled' /\ Admitted'
  BY <1>1, <1>2, SameApp DEF Handled, Admitted, Served, TypeOK
<1> QED
  BY <1>4, <1>5, <1>6, <1>7, <1>8

LEMMA AdminChangeKeeps ==
    ASSUME RequestInv, NEW s \in Administered, AdminChange(s)
    PROVE  RequestInv'
<1> USE DEF RequestInv, bootVars, queryVars
<1>1. /\ live' = IF s \in live THEN live \ {s} ELSE live \cup {s}
      /\ UNCHANGED <<bootVars, phase, message, meant, ctx, wanted, stage, opened, entry, holds,
                     queryVars, reply>>
  BY DEF AdminChange
<1>2. \A r \in Requests :
         seen'[r] = IF phase[r] \in {"injecting", "handling"} /\ meant[r] = s
                    THEN seen[r] \cup {State(s, live')} ELSE seen[r]
  BY DEF AdminChange
<1>3. seen' \in [Requests -> SUBSET {"there", "gone", "error"}]
  <2>1. State(s, live') \in {"there", "gone"}
    BY DEF State
  <2> QED
    BY <2>1 DEF AdminChange, TypeOK
<1>4. TypeOK'
  BY <1>1, <1>3, RequestsAssumption DEF TypeOK
<1>5. Apps' /\ Untouched' /\ Contexts' /\ Wants' /\ Clean' /\ QueriesConfined'
  BY <1>1 DEF Apps, Untouched, Contexts, Wants, Clean, QueriesConfined
<1>6. Possession'
  BY <1>1 DEF Possession, Owns, Fits
<1>7. Handled'
  BY <1>1 DEF Handled
<1>8. Admitted'
  <2>1. \A x : x # s => (x \in live' <=> x \in live)
    BY <1>1
  <2>2. \A r \in Requests : Served(r) => State(meant[r], live') \in seen'[r]
    BY <1>2, <2>1 DEF Admitted, Served, State
  <2>3. \A r \in Requests : "there" \in seen[r] => "there" \in seen'[r]
    BY <1>2
  <2> QED
    BY <1>1, <2>2, <2>3, SameApp DEF Admitted, Served
<1> QED
  BY <1>4, <1>5, <1>6, <1>7, <1>8

LEMMA RequestStep == RequestInv /\ [Next]_vars => RequestInv'
<1> SUFFICES ASSUME RequestInv, [Next]_vars PROVE RequestInv'
  OBVIOUS
<1>1. CASE Boot
  BY <1>1, BootKeeps
<1>2. ASSUME NEW r \in Requests, NEW m \in Messages, Arrive(r, m) PROVE RequestInv'
  BY <1>2, ArriveKeeps
<1>3. ASSUME NEW r \in Requests, Goes(r) PROVE RequestInv'
  BY <1>3, ResolveKeeps, InjectKeeps, HandleKeeps, QueryEndsKeeps DEF Goes
<1>4. ASSUME NEW r \in Requests, NEW k \in Providers, CallGoes(r, k) PROVE RequestInv'
  BY <1>4, CheckKeeps, CheckFailsKeeps, OpenKeeps, OpenFailsKeeps DEF CallGoes
<1>5. ASSUME NEW r \in Requests,
             \/ TypeOrmQuery(r) \/ TypeOrmRawQuery(r) \/ DrizzleQuery(r)
             \/ IdleOut(r) \/ Finish(r)
      PROVE  RequestInv'
  BY <1>5, TypeOrmQueryKeeps, TypeOrmRawQueryKeeps, DrizzleQueryKeeps, IdleOutKeeps, FinishKeeps
<1>6. ASSUME NEW s \in Administered, AdminChange(s) PROVE RequestInv'
  BY <1>6, AdminChangeKeeps
<1>7. CASE UNCHANGED vars
  <2> USE <1>7 DEF vars, bootVars, callVars, queryVars
  <2>1. TypeOK' /\ Apps' /\ Untouched' /\ Contexts' /\ Wants'
    BY DEF RequestInv, TypeOK, Apps, Untouched, Contexts, Wants
  <2>2. Possession' /\ Handled' /\ Clean' /\ QueriesConfined'
    BY DEF RequestInv, Possession, Owns, Fits, Handled, Clean, QueriesConfined
  <2>3. Admitted'
    BY SameApp DEF RequestInv, Admitted, Served
  <2> QED
    BY <2>1, <2>2, <2>3 DEF RequestInv
<1> QED
  BY <1>1, <1>2, <1>3, <1>4, <1>5, <1>6, <1>7 DEF Next

LEMMA Invariance == Spec => []RequestInv
BY RequestInit, RequestStep, PTL DEF Spec

\* The state of an application and of its requests keeps its type: TypeOK.
THEOREM RequestTypes == Spec => []TypeOK
<1>1. RequestInv => TypeOK
  BY DEF RequestInv
<1> QED
  BY <1>1, Invariance, PTL

\* However many requests run side by side, a handler's queries run in the schema
\* of its own request's tenant or in the default path, and in the latter only
\* after a raw query with TypeORM, or with Drizzle once two of them overlapped
\* or the first client was dropped: QueriesConfined.
THEOREM Confinement == Spec => []QueriesConfined
<1>1. RequestInv => QueriesConfined
  BY DEF RequestInv
<1> QED
  BY <1>1, Invariance, PTL
=============================================================================
