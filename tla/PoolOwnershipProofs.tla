------------------------ MODULE PoolOwnershipProofs -------------------------
(***************************************************************************)
(* What the pool's callers and its owner may rely on beyond routing, for   *)
(* every number of schemas, connections and calls: a call gets the         *)
(* entities its tenant named, the pool loses sight of a connection only in *)
(* a race, and no connection is destroyed by two.                          *)
(***************************************************************************)
EXTENDS ConnectionPoolProofs

-----------------------------------------------------------------------------
(* The Map operations and the snapshots of the loops.                      *)

\* Deleting a key takes out the entry that has its index, and no other.
LEMMA MapDeleteKeeps ==
    ASSUME NEW m \in Seq(Entries), NEW s, NEW j \in DOMAIN m,
           Has(m, s) => j # KeyIndex(m, s)
    PROVE  \E i \in DOMAIN MapDelete(m, s) : MapDelete(m, s)[i] = m[j]
<1>1. CASE ~Has(m, s)
  BY <1>1 DEF MapDelete
<1>2. CASE Has(m, s)
  <2> DEFINE k == KeyIndex(m, s)
             i == IF j < k THEN j ELSE j - 1
  <2>1. k \in 1..Len(m) /\ j \in 1..Len(m) /\ Len(m) \in Nat /\ j # k
    BY <1>2, KeyIndexOfKey, LenProperties
  <2>2. i \in 1..(Len(m) - 1) /\ (IF i < k THEN i ELSE i + 1) = j
    BY <2>1
  <2>3. \A n \in 1..(Len(m) - 1) :
           MapDelete(m, s)[n] = IF n < k THEN m[n] ELSE m[n + 1]
    BY <1>2, MapDeleteEntries
  <2> HIDE DEF k
  <2>4. MapDelete(m, s)[i] = m[j] /\ i \in DOMAIN MapDelete(m, s)
    BY <1>2, <2>1, <2>2, <2>3, MapDeleteEntries
  <2> QED
    BY <2>4
<1> QED
  BY <1>1, <1>2

\* Setting a key replaces the entry that has its index, and no other.
LEMMA MapSetKeeps ==
    ASSUME NEW m \in Seq(Entries), NEW s \in Schemas, NEW c \in Conns
    PROVE  /\ \A j \in DOMAIN m : m[j].schema # s =>
                 j \in DOMAIN MapSet(m, s, c) /\ MapSet(m, s, c)[j] = m[j]
           /\ \E j \in DOMAIN MapSet(m, s, c) : MapSet(m, s, c)[j].conn = c
<1> DEFINE e == [schema |-> s, conn |-> c]
           n == MapSet(m, s, c)
<1>1. e \in Entries /\ e.conn = c
  BY DEF Entries
<1>2. DOMAIN m = 1..Len(m) /\ Len(m) \in Nat
  BY LenProperties
<1>3. CASE Has(m, s)
  <2>1. n = [m EXCEPT ![KeyIndex(m, s)] = e]
    BY <1>3 DEF MapSet
  <2>2. KeyIndex(m, s) \in DOMAIN m /\ m[KeyIndex(m, s)].schema = s
    BY <1>2, <1>3, KeyIndexOfKey
  <2> HIDE DEF n, e
  <2>3. DOMAIN n = DOMAIN m /\ n[KeyIndex(m, s)] = e
    BY <2>1, <2>2
  <2>4. \A j \in DOMAIN m : m[j].schema # s => n[j] = m[j]
    BY <2>1, <2>2
  <2> QED
    BY <1>1, <2>2, <2>3, <2>4 DEF n
<1>4. CASE ~Has(m, s)
  <2>1. n = Append(m, e)
    BY <1>4 DEF MapSet
  <2>2. /\ n \in Seq(Entries)
        /\ Len(n) = Len(m) + 1
        /\ \A i \in 1..Len(m) : n[i] = m[i]
        /\ n[Len(m) + 1] = e
    BY <1>1, <2>1, AppendProperties
  <2> HIDE DEF n, e
  <2>3. DOMAIN n = 1..(Len(m) + 1)
    BY <2>2, LenProperties
  <2> QED
    BY <1>1, <1>2, <2>2, <2>3 DEF n
<1> QED
  BY <1>3, <1>4

\* A batch is of entries of the Map.
LEMMA BatchFacts ==
    ASSUME NEW m \in Seq(Entries), CleanupBatch > 0, Len(m) > 0
    PROVE  \A i \in DOMAIN OldEntries(m) :
              \E j \in DOMAIN m : OldEntries(m)[i] = m[j]
<1> DEFINE n == IF CleanupBatch < Len(m) THEN CleanupBatch ELSE Len(m)
           q == SubSeq(m, 1, n)
<1>1. CleanupBatch \in Nat /\ Len(m) \in Nat /\ DOMAIN m = 1..Len(m)
  BY OptionsAssumption, LenProperties DEF CleanupBatch
<1>2. n \in 1..Len(m)
  BY <1>1
<1>3. OldEntries(m) = q
  BY DEF OldEntries
<1> HIDE DEF n
<1>4. q \in Seq(Entries) /\ Len(q) = n /\ \A i \in 1..n : q[i] = m[i]
  <2>1. \A i \in 1..n : m[i] \in Entries
    BY <1>1, <1>2, ElementOfSeq
  <2>2. /\ q \in Seq(Entries)
        /\ Len(q) = IF 1 <= n THEN n - 1 + 1 ELSE 0
        /\ \A i \in 1..(n - 1 + 1) : q[i] = m[1 + i - 1]
    BY <1>1, <1>2, <2>1, SubSeqProperties
  <2> HIDE DEF q
  <2> QED
    BY <1>2, <2>2
<1> HIDE DEF q
<1>5. DOMAIN q = 1..n
  BY <1>4, LenProperties
<1> QED
  BY <1>1, <1>2, <1>3, <1>4, <1>5

-----------------------------------------------------------------------------
(* What a step does to one call.                                           *)

\* The call stays where it is; a change of its tenant may be added to what it
\* has seen.
Stays(t) ==
    /\ pc'[t] = pc[t] /\ req'[t] = req[t]
    /\ answer'[t] = answer[t] \/ pc[t] = "checking"
    /\ seen[t] \subseteq seen'[t]

\* The call goes on to evict or to create a connection.
GoesOn(t) ==
    /\ pc'[t] \in {"evicting", CreateStage(req[t])}
    /\ req'[t] = req[t]

\* The remote strategy answered an error for the tenant's row.
LoadsNothing(t) == Validator = "remote" /\ pc[t] = "loading" /\ pc'[t] = "creating"

CallStep(t) ==
    \/ Stays(t) \/ GoesOn(t) \/ ReadForConfig(t) \/ LoadsNothing(t)
    \/ PoolHit(t) \/ CreateSucceeds(t)
    \/ pc'[t] \in {"idle", "checking", "sweeping", "removing", "closing"}

LEMMA SettlesIsStep ==
    ASSUME TypeInv, NEW u \in Tasks, Settles(u), NEW t \in Tasks
    PROVE  CallStep(t)
BY DEF Settles, CallStep, Stays, TypeInv, CallTypeOK

LEMMA UnchangedIsStep ==
    ASSUME UNCHANGED callVars, NEW t \in Tasks
    PROVE  CallStep(t)
BY DEF callVars, CallStep, Stays

LEMMA NextEntryIsStep ==
    ASSUME TypeInv, NEW u \in Tasks, NEW cs, NextEntry(u, cs), NEW t \in Tasks
    PROVE  CallStep(t)
<1>1. CASE UNCHANGED callVars
  BY <1>1, UnchangedIsStep
<1>2. CASE Settles(u)
  BY <1>2, SettlesIsStep
<1>3. CASE Awaits(u, CreateStage(req[u]))
  BY <1>3 DEF Awaits, CallStep, Stays, GoesOn, TypeInv, CallTypeOK
<1> QED
  BY <1>1, <1>2, <1>3 DEF NextEntry

\* Every step is one of these for each call.
LEMMA CallSteps ==
    ASSUME TypeInv, [Next]_vars, NEW t \in Tasks
    PROVE  CallStep(t)
<1>1. ASSUME NEW u \in Tasks, NEW s \in Requested, StartGet(u, s) \/ StartRemove(u, s)
      PROVE  CallStep(t)
  BY <1>1 DEF StartGet, StartRemove, CallStep, Stays, TypeInv, CallTypeOK
<1>2. ASSUME NEW u \in Tasks, Get(u)
      PROVE  CallStep(t)
  <2>1. CASE ReadForCheck(u)
    BY <2>1 DEF ReadForCheck, CallStep, Stays, TypeInv, CallTypeOK
  <2>2. CASE ReadForConfig(u)
    BY <2>2 DEF ReadForConfig, CallStep, Stays, TypeInv, CallTypeOK
  <2>3. CASE ReadFails(u)
    <3>1. CASE Validator = "remote"
      BY <2>3, <3>1 DEF ReadFails, CallStep, Stays, LoadsNothing, TypeInv, CallTypeOK
    <3>2. CASE Validator # "remote"
      BY <2>3, <3>2, SettlesIsStep DEF ReadFails
    <3> QED
      BY <3>1, <3>2
  <2>4. CASE NotFound(u)
    BY <2>4, SettlesIsStep DEF NotFound
  <2>5. CASE PoolHit(u)
    <3>1. \A v \in Tasks \ {u} : Stays(v)
      BY <2>5 DEF PoolHit, Returns, Stays, TypeInv, CallTypeOK
    <3> QED
      BY <2>5, <3>1 DEF CallStep
  <2>6. CASE PoolMiss(u)
    <3>1. \A v \in Tasks \ {u} : Stays(v)
      BY <2>6 DEF PoolMiss, Awaits, Stays, TypeInv, CallTypeOK
    <3>2. GoesOn(u)
      BY <2>6 DEF PoolMiss, Awaits, GoesOn, TypeInv, CallTypeOK
    <3> QED
      BY <3>1, <3>2 DEF CallStep
  <2>7. CASE CreateSucceeds(u)
    <3>1. \A v \in Tasks \ {u} : Stays(v)
      BY <2>7 DEF CreateSucceeds, Returns, Stays, TypeInv, CallTypeOK
    <3> QED
      BY <2>7, <3>1 DEF CallStep
  <2>8. CASE CreateFails(u)
    BY <2>8, SettlesIsStep DEF CreateFails
  <2> QED
    BY <1>2, <2>1, <2>2, <2>3, <2>4, <2>5, <2>6, <2>7, <2>8 DEF Get
<1>3. ASSUME NEW u \in Tasks, Release(u)
      PROVE  CallStep(t)
  BY <1>3, SettlesIsStep DEF Release
<1>4. ASSUME NEW u \in Tasks, SweepTick(u)
      PROVE  CallStep(t)
  BY <1>4 DEF SweepTick, CallStep, Stays, TypeInv, CallTypeOK
<1>5. ASSUME NEW u \in Tasks, Destroy(u)
      PROVE  CallStep(t)
  <2>1. \E cs : NextEntry(u, cs)
    BY <1>5 DEF Destroy, DestroyResolves, DestroyRejects
  <2> QED
    BY <2>1, NextEntryIsStep
<1>6. ASSUME NEW u \in Tasks, StartClose(u)
      PROVE  CallStep(t)
  BY <1>6 DEF StartClose, CallStep, Stays, TypeInv, CallTypeOK
<1>7. ASSUME NEW u \in Tasks, Close(u)
      PROVE  CallStep(t)
  <2>1. Settles(u) \/ UNCHANGED callVars
    BY <1>7 DEF Close, CloseResolves, CloseRejects
  <2> QED
    BY <2>1, SettlesIsStep, UnchangedIsStep
<1>8. ASSUME NEW c \in Conns, DetachedSettles(c)
      PROVE  CallStep(t)
  BY <1>8, UnchangedIsStep DEF DetachedSettles
<1>9. ASSUME NEW s \in Administered, NEW row \in Rows, AdminCommit(s, row)
      PROVE  CallStep(t)
  BY <1>9 DEF AdminCommit, CallStep, Stays
<1>10. CASE UNCHANGED vars
  BY <1>10, UnchangedIsStep DEF vars
<1> QED
  BY <1>1, <1>2, <1>3, <1>4, <1>5, <1>6, <1>7, <1>8, <1>9, <1>10 DEF Next

\* A call returns by finding a valid connection in the pool or by creating one.
LEMMA ReturningSteps ==
    ASSUME TypeInv, [Next]_vars, NEW t \in Tasks, pc[t] # "using", pc'[t] = "using"
    PROVE  PoolHit(t) \/ CreateSucceeds(t)
<1>1. CallStep(t)
  BY CallSteps
<1>2. ~ReadForConfig(t)
  BY DEF ReadForConfig, TypeInv, CallTypeOK
<1> QED
  BY <1>1, <1>2 DEF CallStep, Stays, GoesOn, LoadsNothing, CreateStage

-----------------------------------------------------------------------------
(* What a call gets.                                                       *)

\* With a local strategy the row a creation works with is one that the tenant
\* had since the call began, unless the schema has no configuration.
RowIsSeen ==
    \A t \in Tasks :
       pc[t] = "creating" /\ Validator = "local" /\ req[t] # Public => answer[t] \in seen[t]

LEMMA RowStaysSeen ==
    TypeInv /\ AdmissionInv /\ RowIsSeen /\ [Next]_vars => RowIsSeen'
<1> SUFFICES ASSUME TypeInv, AdmissionInv, RowIsSeen, [Next]_vars, NEW t \in Tasks,
                    pc'[t] = "creating", Validator = "local", req'[t] # Public
             PROVE  answer'[t] \in seen'[t]
  BY DEF RowIsSeen
<1>1. Stays(t) \/ GoesOn(t) \/ ReadForConfig(t)
  <2>1. CallStep(t)
    BY CallSteps
  <2>2. ~PoolHit(t) /\ ~CreateSucceeds(t)
    BY DEF PoolHit, CreateSucceeds, Returns, TypeInv, CallTypeOK
  <2> QED
    BY <2>1, <2>2 DEF CallStep, LoadsNothing
<1>2. CASE Stays(t)
  BY <1>2 DEF Stays, RowIsSeen
<1>3. CASE GoesOn(t)
  BY <1>3 DEF GoesOn, CreateStage
<1>4. CASE ReadForConfig(t)
  <2>1. /\ pc[t] = "loading" /\ UNCHANGED seen
        /\ answer'[t] = tenants[req[t]]
    BY <1>4 DEF ReadForConfig, TypeInv, CallTypeOK
  <2> QED
    BY <2>1 DEF AdmissionInv, InCall
<1> QED
  BY <1>1, <1>2, <1>3, <1>4

\* A connection is opened with entities its tenant's row named during the very
\* call that opens it, whatever the call waited for and however often the row
\* changed meanwhile.
THEOREM Freshness == Spec => FreshEntities
<1> DEFINE Fresh(t) ==
              /\ pc[t] = "creating" /\ pc'[t] = "using"
              /\ Validator = "local"
              => cents'[held'[t]] \in {EntitiesFor(req[t], row) : row \in seen[t]}
<1>1. Init => RowIsSeen
  BY DEF Init, RowIsSeen
<1>2. TypeInv /\ AdmissionInv /\ RowIsSeen /\ [Next]_vars => \A t \in Tasks : Fresh(t)
  <2> SUFFICES ASSUME TypeInv, AdmissionInv, RowIsSeen, [Next]_vars, NEW t \in Tasks,
                      pc[t] = "creating", pc'[t] = "using", Validator = "local"
               PROVE  \E row \in seen[t] : cents'[held'[t]] = EntitiesFor(req[t], row)
    OBVIOUS
  <2>1. CreateSucceeds(t)
    BY ReturningSteps DEF PoolHit, Admitted
  <2>2. cents'[held'[t]] = EntitiesFor(req[t], answer[t])
    BY <2>1, FreshConnIsConn DEF CreateSucceeds, OpenConn, Returns, TypeInv, CallTypeOK,
                                 ConnTypeOK
  <2>3. CASE req[t] = Public
    <3>1. tenants[req[t]] \in seen[t]
      BY DEF AdmissionInv, InCall
    <3>2. EntitiesFor(req[t], answer[t]) = EntitiesFor(req[t], tenants[req[t]])
      BY <2>3 DEF EntitiesFor
    <3> QED
      BY <2>2, <3>1, <3>2
  <2>4. CASE req[t] # Public
    BY <2>2, <2>4 DEF RowIsSeen
  <2> QED
    BY <2>3, <2>4
<1>3. Init => AdmissionInv
  BY DEF Init, AdmissionInv, InCall
<1> QED
  BY <1>1, <1>2, <1>3, Typed, NextAdmission, RowStaysSeen, PTL DEF Spec, FreshEntities

-----------------------------------------------------------------------------
(* What the pool loses.  A loop deletes by schema, so the snapshot it works *)
(* through must be of connections of the schemas it names; and a            *)
(* destruction that returns at once must be of one that has ended.          *)

LoopPoints == {"evicting", "removing", "sweeping"}

\* A snapshot's entries are of the schemas their connections were opened for.
TodoRouted ==
    \A t \in Tasks : \A i \in DOMAIN todo[t] :
       cschema[todo[t][i].conn] = todo[t][i].schema

DoneHasEnded ==
    \A t \in Tasks : outcome[t] = "done" => cstate[Head(todo[t]).conn] = "ended"

\* What destroying the head of q does at once.
LEMMA DestroyHeadFacts ==
    ASSUME TypeInv, NEW t \in Tasks, NEW q \in Seq(Entries), q # <<>>,
           NEW cs \in [Conns -> CStates], DestroyHead(t, q, cs)
    PROVE  /\ Head(q) \in Entries /\ Head(q).conn \in Conns
           /\ todo'[t] = q /\ outcome'[t] \in {"io", "done", "reject"}
           /\ \A u \in Tasks \ {t} : todo'[u] = todo[u] /\ outcome'[u] = outcome[u]
           /\ outcome'[t] = "io" => cs[Head(q).conn] = "open"
                                    /\ cstate'[Head(q).conn] = "ending"
           /\ outcome'[t] = "done" => /\ OrmType = "typeorm"
                                      /\ cstate'[Head(q).conn] = "ended"
           /\ \A d \in Conns : \/ cstate'[d] = cs[d]
                               \/ cs[d] = "open" /\ cstate'[d] = "ending"
<1> DEFINE c == Head(q).conn
           o == DestroyOutcome(cs, c)
<1>1. Head(q) \in Entries /\ c \in Conns
  <2>1. Head(q) \in Entries
    BY HeadTailProperties
  <2> QED
    BY <2>1 DEF Entries
<1>2. /\ o \in {"io", "done", "reject"}
      /\ o = "io" => cs[c] = "open"
      /\ o = "done" => cs[c] = "ended" /\ OrmType = "typeorm"
  BY DEF DestroyOutcome, TypeOrmDestroy, DrizzleDestroy
<1> HIDE DEF o
<1>3. /\ todo' = [todo EXCEPT ![t] = q]
      /\ outcome' = [outcome EXCEPT ![t] = o]
      /\ cstate' = IF o = "io" THEN [cs EXCEPT ![c] = "ending"] ELSE cs
  BY DEF DestroyHead, o
<1> HIDE DEF c
<1>4. /\ todo'[t] = q /\ outcome'[t] = o
      /\ \A u \in Tasks \ {t} : todo'[u] = todo[u] /\ outcome'[u] = outcome[u]
  BY <1>3 DEF TypeInv, LoopTypeOK
<1>5. CASE o = "io"
  <2>1. cstate' = [cs EXCEPT ![c] = "ending"]
    BY <1>3, <1>5
  <2>2. cstate'[c] = "ending" /\ \A d \in Conns : d # c => cstate'[d] = cs[d]
    BY <1>1, <2>1
  <2> QED
    BY <1>1, <1>2, <1>4, <1>5, <2>2 DEF c
<1>6. CASE o # "io"
  BY <1>1, <1>2, <1>3, <1>4, <1>6 DEF c
<1> QED
  BY <1>5, <1>6

\* A loop that awaits, or is about to go on, has its entry in hand.
LEMMA HeadInHand ==
    ASSUME TypeInv, NEW t \in Tasks, outcome[t] # "none"
    PROVE  Head(todo[t]) \in Entries /\ Head(todo[t]).conn \in Conns
<1>1. todo[t] \in Seq(Entries) /\ todo[t] # <<>>
  BY DEF TypeInv, LoopTypeOK
<1>2. Head(todo[t]) \in Entries
  BY <1>1, HeadTailProperties
<1> QED
  BY <1>2 DEF Entries

LEMMA PooledAreConns ==
    ASSUME TypeInv
    PROVE  \A c \in PoolConns : c \in Conns
<1>1. pool \in Seq(Entries) /\ DOMAIN pool = 1..Len(pool)
  BY LenProperties DEF TypeInv
<1>2. \A i \in DOMAIN pool : pool[i] \in Entries
  BY <1>1, ElementOfSeq
<1> QED
  BY <1>2 DEF PoolConns, Entries

\* A snapshot's entries are taken from the pool, and a connection that some
\* snapshot names is not opened again.
LEMMA TodoStaysRouted ==
    TypeInv /\ PoolRouted /\ TodoRouted /\ [Next]_vars => TodoRouted'
<1> SUFFICES ASSUME TypeInv, PoolRouted, TodoRouted, [Next]_vars
             PROVE  TodoRouted'
  OBVIOUS
<1>a. ASSUME UNCHANGED <<todo, cschema>>
      PROVE  TodoRouted'
  BY <1>a DEF TodoRouted
<1>b. ASSUME NEW t \in Tasks, NEW q, NEW cs, DestroyHead(t, q, cs), UNCHANGED cschema,
             \A i \in DOMAIN q : \/ \E j \in DOMAIN pool : q[i] = pool[j]
                                \/ \E j \in DOMAIN todo[t] : q[i] = todo[t][j]
      PROVE  TodoRouted'
  <2>1. todo'[t] = q /\ \A u \in Tasks \ {t} : todo'[u] = todo[u]
    BY <1>b DEF DestroyHead, TypeInv, LoopTypeOK
  <2>2. \A i \in DOMAIN q : cschema[q[i].conn] = q[i].schema
    BY <1>b DEF PoolRouted, TodoRouted
  <2> QED
    BY <1>b, <2>1, <2>2 DEF TodoRouted
<1>c. ASSUME FreeConns # {}, NEW s, NEW es, OpenConn(FreshConn, s, es), UNCHANGED todo
      PROVE  TodoRouted'
  <2>1. \A t \in Tasks : \A i \in DOMAIN todo[t] : todo[t][i].conn # FreshConn
    BY <1>c, FreshConnIsConn DEF Referenced
  <2>2. \A c : c # FreshConn => cschema'[c] = cschema[c]
    BY <1>c, FreshConnIsConn DEF OpenConn, TypeInv, ConnTypeOK
  <2> QED
    BY <1>c, <2>1, <2>2 DEF TodoRouted
<1>1. ASSUME NEW t \in Tasks, NEW s \in Requested, StartRemove(t, s)
      PROVE  TodoRouted'
  <2> DEFINE q == <<[schema |-> s, conn |-> MapGet(pool, s)]>>
  <2>1. PICK j \in DOMAIN pool : pool[j].schema = s /\ pool[j].conn = MapGet(pool, s)
    BY <1>1, MapGetFacts DEF StartRemove, TypeInv
  <2>2. pool[j] = [schema |-> s, conn |-> MapGet(pool, s)]
    <3>1. pool[j] \in Entries
      BY ElementOfSeq, LenProperties DEF TypeInv
    <3> QED
      BY <2>1, <3>1 DEF Entries
  <2>3. \A i \in DOMAIN q : q[i] = pool[j]
    BY <2>2
  <2>4. DestroyHead(t, q, cstate) /\ UNCHANGED cschema
    BY <1>1 DEF StartRemove
  <2> HIDE DEF q
  <2> QED
    BY <1>b, <2>3, <2>4
<1>2. ASSUME NEW t \in Tasks, PoolMiss(t)
      PROVE  TodoRouted'
  <2>1. /\ pool' = MapDelete(pool, req[t]) /\ UNCHANGED cschema
        /\ \/ AtLimit(pool') /\ CleanupBatch > 0 /\ DestroyHead(t, OldEntries(pool'), cstate)
           \/ UNCHANGED loopVars
    BY <1>2 DEF PoolMiss
  <2>2. /\ pool' \in Seq(Entries)
        /\ \A i \in DOMAIN pool' : \E j \in DOMAIN pool : pool'[i] = pool[j]
    BY <2>1, MapDeleteFacts DEF TypeInv
  <2>3. CASE AtLimit(pool') /\ CleanupBatch > 0 /\ DestroyHead(t, OldEntries(pool'), cstate)
    <3>1. Len(pool') > 0
      BY <2>2, <2>3, OptionsAssumption, LenProperties DEF AtLimit
    <3>2. \A i \in DOMAIN OldEntries(pool') :
             \E j \in DOMAIN pool' : OldEntries(pool')[i] = pool'[j]
      BY <2>2, <2>3, <3>1, BatchFacts
    <3> QED
      BY <1>b, <2>1, <2>2, <2>3, <3>2
  <2>4. CASE UNCHANGED loopVars
    BY <1>a, <2>1, <2>4 DEF loopVars
  <2> QED
    BY <2>1, <2>3, <2>4
<1>3. ASSUME NEW t \in Tasks, SweepTick(t)
      PROVE  TodoRouted'
  <2>1. /\ SweepDue /\ CleanupBatch > 0 /\ DestroyHead(t, OldEntries(pool), cstate)
        /\ UNCHANGED cschema
    BY <1>3 DEF SweepTick
  <2>2. Len(pool) > 0
    BY <2>1, OptionsAssumption, LenProperties DEF SweepDue, TypeInv
  <2>3. \A i \in DOMAIN OldEntries(pool) :
           \E j \in DOMAIN pool : OldEntries(pool)[i] = pool[j]
    BY <2>1, <2>2, BatchFacts DEF TypeInv
  <2> QED
    BY <1>b, <2>1, <2>3
<1>4. ASSUME NEW t \in Tasks, Destroy(t)
      PROVE  TodoRouted'
  <2>1. PICK cs : NextEntry(t, cs)
    BY <1>4 DEF Destroy, DestroyResolves, DestroyRejects
  <2>2. outcome[t] # "none" /\ UNCHANGED cschema
    BY <1>4 DEF Destroy, DestroyResolves, DestroyRejects
  <2> DEFINE q == Tail(todo[t])
  <2>3. /\ todo[t] \in Seq(Entries) /\ todo[t] # <<>>
        /\ DOMAIN todo[t] = 1..Len(todo[t]) /\ Len(todo[t]) \in Nat
    BY <2>2, LenProperties DEF TypeInv, LoopTypeOK
  <2>4. \A i \in DOMAIN q : \E j \in DOMAIN todo[t] : q[i] = todo[t][j]
    <3>1. /\ q \in Seq(Entries) /\ Len(q) = Len(todo[t]) - 1
          /\ \A i \in 1..Len(q) : q[i] = todo[t][i + 1]
      BY <2>3, HeadTailProperties
    <3>2. DOMAIN q = 1..Len(q)
      BY <3>1, LenProperties
    <3>3. \A i \in 1..Len(q) : i + 1 \in 1..Len(todo[t])
      BY <2>3, <3>1
    <3> HIDE DEF q
    <3> QED
      BY <2>3, <3>1, <3>2, <3>3
  <2>5. CASE q # <<>>
    <3>1. DestroyHead(t, q, cs)
      BY <2>1, <2>5 DEF NextEntry
    <3> HIDE DEF q
    <3> QED
      BY <1>b, <2>2, <2>4, <3>1
  <2>6. CASE q = <<>>
    <3>1. todo'[t] = <<>> /\ \A u \in Tasks \ {t} : todo'[u] = todo[u]
      BY <2>1, <2>6 DEF NextEntry, EndLoop, TypeInv, LoopTypeOK
    <3>2. DOMAIN todo'[t] = {}
      BY <3>1, EmptySeq, LenProperties
    <3> QED
      BY <2>2, <3>1, <3>2 DEF TodoRouted
  <2> QED
    BY <2>5, <2>6
<1>5. ASSUME NEW t \in Tasks, Get(t), ~PoolMiss(t)
      PROVE  TodoRouted'
  <2>1. CASE CreateSucceeds(t) \/ CreateFails(t)
    BY <1>a, <1>c, <2>1
       DEF CreateSucceeds, CreateFails, DrizzleLeaves, connVars, loopVars
  <2>2. CASE ReadForCheck(t) \/ ReadForConfig(t) \/ ReadFails(t) \/ NotFound(t) \/ PoolHit(t)
    BY <1>a, <2>2
       DEF ReadForCheck, ReadForConfig, ReadFails, NotFound, PoolHit, connVars, loopVars
  <2> QED
    BY <1>5, <2>1, <2>2 DEF Get
<1>6. ASSUME \/ \E t \in Tasks : \/ \E s \in Requested : StartGet(t, s)
                                 \/ Release(t) \/ StartClose(t) \/ Close(t)
             \/ \E c \in Conns : DetachedSettles(c)
             \/ \E s \in Administered, row \in Rows : AdminCommit(s, row)
             \/ UNCHANGED vars
      PROVE  TodoRouted'
  BY <1>a, <1>6
     DEF StartGet, Release, StartClose, Close, CloseResolves, CloseRejects,
         DetachedSettles, AdminCommit, vars, connVars, loopVars
<1> QED
  BY <1>1, <1>2, <1>3, <1>4, <1>5, <1>6 DEF Next

\* When a loop goes on or ends, what has ended stays so, and nothing comes back
\* from it; a destruction that returns at once is of a connection that has ended.
LEMMA NextEntryEnds ==
    ASSUME TypeInv, NEW t \in Tasks, outcome[t] # "none",
           NEW cs \in [Conns -> CStates], NextEntry(t, cs)
    PROVE  /\ \A c \in Conns : cs[c] = "ended" => cstate'[c] = "ended"
           /\ \A u \in Tasks \ {t} : todo'[u] = todo[u] /\ outcome'[u] = outcome[u]
           /\ outcome'[t] = "done" => cstate'[Head(todo'[t]).conn] = "ended"
<1>1. CASE Tail(todo[t]) # <<>>
  <2> DEFINE q == Tail(todo[t])
  <2>1. q # <<>> /\ DestroyHead(t, q, cs)
    BY <1>1 DEF NextEntry
  <2>2. q \in Seq(Entries)
    BY HeadTailProperties DEF TypeInv, LoopTypeOK
  <2> HIDE DEF q
  <2>3. /\ todo'[t] = q
        /\ \A u \in Tasks \ {t} : todo'[u] = todo[u] /\ outcome'[u] = outcome[u]
        /\ outcome'[t] = "done" => cstate'[Head(q).conn] = "ended"
        /\ \A d \in Conns : cstate'[d] = cs[d] \/ cs[d] = "open"
    BY <2>1, <2>2, DestroyHeadFacts
  <2> QED
    BY <2>3
<1>2. CASE Tail(todo[t]) = <<>>
  BY <1>2 DEF NextEntry, EndLoop, TypeInv, LoopTypeOK
<1> QED
  BY <1>1, <1>2

\* A removal, a sweep or an eviction begins with the destruction of an entry,
\* of which only a connection that is open is touched.
LEMMA StartsWithHead ==
    ASSUME TypeInv, NEW t \in Tasks,
           \/ \E s \in Requested : StartRemove(t, s)
           \/ SweepTick(t)
           \/ PoolMiss(t)
    PROVE  \/ UNCHANGED <<cstate, loopVars>>
           \/ \E q \in Seq(Entries) : q # <<>> /\ DestroyHead(t, q, cstate)
<1>1. ASSUME NEW s \in Requested, StartRemove(t, s)
      PROVE  \E q \in Seq(Entries) : q # <<>> /\ DestroyHead(t, q, cstate)
  <2> DEFINE q == <<[schema |-> s, conn |-> MapGet(pool, s)]>>
  <2>1. DestroyHead(t, q, cstate)
    BY <1>1 DEF StartRemove
  <2>2. q \in Seq(Entries) /\ q # <<>>
    <3>1. s \in Schemas /\ MapGet(pool, s) \in Conns
      BY <1>1, NamesAssumption, MapGetFacts DEF StartRemove, TypeInv
    <3> QED
      BY <3>1, EmptySeq DEF Entries
  <2> HIDE DEF q
  <2> QED
    BY <2>1, <2>2
<1>2. CASE SweepTick(t)
  <2>1. SweepDue /\ CleanupBatch > 0 /\ DestroyHead(t, OldEntries(pool), cstate)
    BY <1>2 DEF SweepTick
  <2>2. Len(pool) > 0
    BY <2>1, OptionsAssumption, LenProperties DEF SweepDue, TypeInv
  <2>3. OldEntries(pool) \in Seq(Entries) /\ OldEntries(pool) # <<>>
    BY <2>1, <2>2, OldEntriesFacts DEF TypeInv
  <2> QED
    BY <2>1, <2>3
<1>3. CASE PoolMiss(t)
  <2>1. pool' \in Seq(Entries)
    BY <1>3, MapDeleteFacts DEF PoolMiss, TypeInv
  <2>2. CASE AtLimit(pool') /\ CleanupBatch > 0
    <3>1. DestroyHead(t, OldEntries(pool'), cstate)
      BY <1>3, <2>2 DEF PoolMiss
    <3>2. Len(pool') > 0
      BY <2>1, <2>2, OptionsAssumption, LenProperties DEF AtLimit
    <3>3. OldEntries(pool') \in Seq(Entries) /\ OldEntries(pool') # <<>>
      BY <2>1, <2>2, <3>2, OldEntriesFacts
    <3> QED
      BY <3>1, <3>3
  <2>3. CASE ~(AtLimit(pool') /\ CleanupBatch > 0)
    BY <1>3, <2>3 DEF PoolMiss
  <2> QED
    BY <2>2, <2>3
<1> QED
  BY <1>1, <1>2, <1>3

\* Other events wait for a continuation that is due, so what it was told of a
\* connection is still so when it runs.
LEMMA DoneStaysEnded == TypeInv /\ DoneHasEnded /\ [Next]_vars => DoneHasEnded'
<1> SUFFICES ASSUME TypeInv, DoneHasEnded, [Next]_vars
             PROVE  DoneHasEnded'
  OBVIOUS
<1>a. ASSUME UNCHANGED loopVars, Quiet \/ UNCHANGED cstate
      PROVE  DoneHasEnded'
  BY <1>a DEF DoneHasEnded, Quiet, loopVars
<1>1. ASSUME NEW t \in Tasks,
             \/ \E s \in Requested : StartRemove(t, s)
             \/ SweepTick(t)
             \/ PoolMiss(t)
      PROVE  DoneHasEnded'
  <2>1. Quiet
    BY <1>1 DEF StartRemove, MayStart, SweepTick, PoolMiss, Admitted
  <2>2. CASE UNCHANGED <<cstate, loopVars>>
    BY <1>a, <2>2
  <2>3. ASSUME NEW q \in Seq(Entries), q # <<>>, DestroyHead(t, q, cstate)
        PROVE  DoneHasEnded'
    <3>1. cstate \in [Conns -> CStates]
      BY DEF TypeInv, ConnTypeOK
    <3> QED
      BY <2>1, <2>3, <3>1, DestroyHeadFacts DEF DoneHasEnded, Quiet
  <2> QED
    BY <1>1, <2>2, <2>3, StartsWithHead
<1>2. ASSUME NEW t \in Tasks, Destroy(t)
      PROVE  DoneHasEnded'
  <2>1. outcome[t] # "none" /\ Head(todo[t]).conn \in Conns
    BY <1>2, HeadInHand DEF Destroy, DestroyResolves, DestroyRejects
  <2> DEFINE c == Head(todo[t]).conn
  <2>2. PICK cs \in {cstate, [cstate EXCEPT ![c] = "ended"], [cstate EXCEPT ![c] = "failed"]} :
           NextEntry(t, cs) /\ (Quiet \/ cs = cstate)
    BY <1>2 DEF Destroy, DestroyResolves, DestroyRejects
  <2>3. cstate \in [Conns -> CStates] /\ cs \in [Conns -> CStates]
    BY <2>1, <2>2 DEF TypeInv, ConnTypeOK, CStates
  <2>4. /\ \A d \in Conns : cs[d] = "ended" => cstate'[d] = "ended"
        /\ \A u \in Tasks \ {t} : todo'[u] = todo[u] /\ outcome'[u] = outcome[u]
        /\ outcome'[t] = "done" => cstate'[Head(todo'[t]).conn] = "ended"
    BY <2>1, <2>2, <2>3, NextEntryEnds
  <2> HIDE DEF c
  <2>5. ASSUME NEW u \in Tasks \ {t}, outcome'[u] = "done"
        PROVE  cstate'[Head(todo'[u]).conn] = "ended"
    <3>1. outcome[u] = "done" /\ todo'[u] = todo[u]
      BY <2>4, <2>5
    <3>2. cs = cstate
      BY <2>2, <3>1 DEF Quiet
    <3>3. Head(todo[u]).conn \in Conns /\ cs[Head(todo[u]).conn] = "ended"
      BY <3>1, <3>2, HeadInHand DEF DoneHasEnded
    <3> QED
      BY <2>4, <3>1, <3>3
  <2> QED
    BY <2>4, <2>5 DEF DoneHasEnded
<1>3. ASSUME NEW t \in Tasks, Get(t), ~PoolMiss(t)
      PROVE  DoneHasEnded'
  BY <1>a, <1>3
     DEF Get, ReadForCheck, ReadForConfig, ReadFails, NotFound, PoolHit, Admitted,
         CreateSucceeds, CreateFails
<1>4. ASSUME \/ \E t \in Tasks : \/ \E s \in Requested : StartGet(t, s)
                                 \/ Release(t) \/ StartClose(t) \/ Close(t)
             \/ \E c \in Conns : DetachedSettles(c)
             \/ \E s \in Administered, row \in Rows : AdminCommit(s, row)
             \/ UNCHANGED vars
      PROVE  DoneHasEnded'
  BY <1>a, <1>4
     DEF StartGet, MayStart, Release, StartClose, Close, CloseResolves, CloseRejects,
         DetachedSettles, AdminCommit, vars, connVars
<1> QED
  BY <1>1, <1>2, <1>3, <1>4 DEF Next

\* The steps after which the pool may lack an entry or have a new one.
LEMMA PoolSteps ==
    ASSUME [Next]_vars, pool' # pool
    PROVE  \E t \in Tasks : \/ PoolMiss(t) \/ CreateSucceeds(t) \/ DestroyResolves(t)
                            \/ StartClose(t)
                            \/ \E c \in Conns : CloseResolves(t, c)
<1>1. ASSUME NEW t \in Tasks, Get(t)
      PROVE  PoolMiss(t) \/ CreateSucceeds(t)
  BY <1>1 DEF Get, ReadForCheck, ReadForConfig, ReadFails, NotFound, PoolHit, CreateFails
<1>2. ASSUME NEW t \in Tasks, Destroy(t) \/ Close(t)
      PROVE  DestroyResolves(t) \/ \E c \in Conns : CloseResolves(t, c)
  BY <1>2 DEF Destroy, DestroyRejects, Close, CloseRejects
<1>3. ASSUME \/ \E t \in Tasks : \/ \E s \in Requested : StartGet(t, s) \/ StartRemove(t, s)
                                 \/ Release(t) \/ SweepTick(t)
             \/ \E c \in Conns : DetachedSettles(c)
             \/ \E s \in Administered, row \in Rows : AdminCommit(s, row)
             \/ UNCHANGED vars
      PROVE  FALSE
  BY <1>3 DEF StartGet, StartRemove, Release, SweepTick, DetachedSettles, AdminCommit, vars
<1> QED
  BY <1>1, <1>2, <1>3 DEF Next

\* A step loses a connection by taking its entry out, unless it opens it.
LEMMA WhatIsLost ==
    ASSUME TypeInv, [Next]_vars, NEW c \in Conns, Loses(c),
           \A t \in Tasks : ~CreateSucceeds(t)
    PROVE  pool' # pool /\ c \in PoolConns /\ c \notin PoolConns'
<1>1. ASSUME NEW t \in Tasks, pc[t] = "creating", pc'[t] = "using"
      PROVE  FALSE
  BY <1>1, ReturningSteps DEF PoolHit, Admitted
<1> QED
  BY <1>1 DEF Loses, PoolConns

\* Deleting a key loses the connection that the key maps to, if any.
LEMMA DeletedFrom ==
    ASSUME TypeInv, NEW s, pool' = MapDelete(pool, s),
           NEW c \in PoolConns, c \notin PoolConns'
    PROVE  Has(pool, s) /\ c = MapGet(pool, s)
<1>1. PICK j \in DOMAIN pool : pool[j].conn = c
  BY DEF PoolConns
<1>2. ASSUME NEW i \in DOMAIN MapDelete(pool, s)
      PROVE  MapDelete(pool, s)[i] # pool[j]
  BY <1>1, <1>2 DEF PoolConns
<1>3. pool \in Seq(Entries)
  BY DEF TypeInv
<1>4. Has(pool, s) /\ j = KeyIndex(pool, s)
  BY <1>2, <1>3, MapDeleteKeeps
<1> QED
  BY <1>1, <1>4 DEF MapGet

\* A destruction that succeeds takes its own connection, which has ended, or
\* another of the same schema.
LEMMA ResolvedLoses ==
    ASSUME TypeInv, PoolRouted, TodoRouted, DoneHasEnded,
           NEW t \in Tasks, DestroyResolves(t),
           NEW c \in PoolConns, c \notin PoolConns', cstate'[c] # "ended"
    PROVE  TwinOf(c)
<1> DEFINE e == Head(todo[t])
<1>1. /\ outcome[t] \in {"io", "done"}
      /\ pool' = MapDelete(pool, e.schema) /\ UNCHANGED cschema
      /\ NextEntry(t, IF outcome[t] = "io" THEN [cstate EXCEPT ![e.conn] = "ended"]
                      ELSE cstate)
  BY DEF DestroyResolves
<1>2. e \in Entries /\ e.conn \in Conns
  BY <1>1, HeadInHand
<1>3. 1 \in DOMAIN todo[t] /\ todo[t][1] = e
  <2>1. todo[t] \in Seq(Entries) /\ todo[t] # <<>>
    BY <1>1 DEF TypeInv, LoopTypeOK
  <2>2. Len(todo[t]) \in Nat \ {0} /\ DOMAIN todo[t] = 1..Len(todo[t])
    BY <2>1, EmptySeq, LenProperties
  <2> QED
    BY <2>1, <2>2, HeadTailProperties
<1>4. Has(pool, e.schema) /\ c = MapGet(pool, e.schema)
  BY <1>1, DeletedFrom
<1>5. cschema[c] = e.schema
  BY <1>4, MapGetFacts DEF PoolRouted, TypeInv
<1> HIDE DEF e
<1>6. cschema[e.conn] = e.schema
  BY <1>3 DEF TodoRouted
<1>7. c # e.conn
  <2> DEFINE cs == IF outcome[t] = "io" THEN [cstate EXCEPT ![e.conn] = "ended"] ELSE cstate
  <2>1. cs \in [Conns -> CStates]
    BY <1>2 DEF TypeInv, ConnTypeOK, CStates
  <2>2. cs[e.conn] = "ended"
    BY <1>1, <1>2 DEF TypeInv, ConnTypeOK, DoneHasEnded, e
  <2>3. NextEntry(t, cs) /\ outcome[t] # "none"
    BY <1>1
  <2> HIDE DEF cs
  <2> QED
    BY <1>2, <2>1, <2>2, <2>3, NextEntryEnds
<1> QED
  BY <1>1, <1>2, <1>3, <1>5, <1>6, <1>7 DEF TwinOf

\* A call drops an entry only if its connection is not valid: ended with
\* TypeORM, never opened with Drizzle.
LEMMA MissedLoses ==
    ASSUME TypeInv, NEW t \in Tasks, PoolMiss(t),
           NEW c \in PoolConns, c \notin PoolConns'
    PROVE  cstate'[c] \notin {"open", "ending", "failed"}
<1>1. /\ pool' = MapDelete(pool, req[t])
      /\ Has(pool, req[t]) => ~IsConnectionValid(MapGet(pool, req[t]))
  BY DEF PoolMiss
<1>2. c = MapGet(pool, req[t]) /\ ~IsConnectionValid(c)
  BY <1>1, DeletedFrom
<1>3. cstate[c] \in {"ended", "unused"}
  BY <1>2 DEF IsConnectionValid, TypeOrmValid, DrizzleValid
<1>4. c \in Conns /\ cstate \in [Conns -> CStates]
  BY PooledAreConns DEF TypeInv, ConnTypeOK
<1>5. cstate'[c] = cstate[c]
  BY <1>3, <1>4, StartsWithHead, DestroyHeadFacts
<1> QED
  BY <1>3, <1>5

\* closeAllConnections empties the pool at once only of ended connections.
LEMMA ClosedLoses ==
    ASSUME TypeInv, NEW t \in Tasks, StartClose(t), pool' # pool,
           NEW c \in PoolConns
    PROVE  cstate'[c] = "ended"
<1> DEFINE begun == {d \in PoolConns : DestroyOutcome(cstate, d) = "io"}
<1>1. /\ cstate' = [d \in Conns |-> IF d \in begun THEN "ending" ELSE cstate[d]]
      /\ begun = {} /\ ~\E d \in PoolConns : DestroyOutcome(cstate, d) = "reject"
  BY DEF StartClose
<1>2. DestroyOutcome(cstate, c) \notin {"io", "reject"}
  BY <1>1
<1>3. cstate[c] = "ended"
  BY <1>2 DEF DestroyOutcome, TypeOrmDestroy, DrizzleDestroy
<1> QED
  BY <1>1, <1>3, PooledAreConns

\* A call that has created a connection replaces one of its schema at most.
LEMMA CreatedLoses ==
    ASSUME TypeInv, PoolRouted, NEW t \in Tasks, CreateSucceeds(t),
           NEW c \in Conns, Loses(c)
    PROVE  TwinOf(c)
<1>1. /\ FreeConns # {} /\ pc[t] = "creating"
      /\ OpenConn(FreshConn, req[t], EntitiesFor(req[t], answer[t]))
      /\ pool' = MapSet(pool, req[t], FreshConn)
      /\ Returns(t, FreshConn)
  BY DEF CreateSucceeds
<1>2. FreshConn \in Conns /\ ~Referenced(FreshConn) /\ req[t] \in Schemas
  BY <1>1, FreshConnIsConn DEF TypeInv, CallTypeOK, InCall
<1>3. FreshConn \in PoolConns'
  BY <1>1, <1>2, MapSetKeeps DEF PoolConns, TypeInv
<1>4. c # FreshConn
  BY <1>3 DEF Loses
<1>5. c \in PoolConns
  <2>1. ASSUME NEW u \in Tasks, pc[u] = "creating", pc'[u] = "using", held'[u] = c
        PROVE  FALSE
    BY <1>1, <1>4, <2>1 DEF Returns, TypeInv, CallTypeOK
  <2> QED
    BY <2>1 DEF Loses
<1>6. PICK j \in DOMAIN pool : pool[j].conn = c
  BY <1>5 DEF PoolConns
<1>7. pool[j].schema = req[t]
  BY <1>1, <1>2, <1>6, MapSetKeeps DEF Loses, PoolConns, TypeInv
<1>8. cschema[c] = req[t]
  BY <1>6, <1>7 DEF PoolRouted
<1>9. cschema'[c] = cschema[c] /\ cschema'[FreshConn] = req[t]
  BY <1>1, <1>2, <1>4 DEF OpenConn, TypeInv, ConnTypeOK
<1> QED
  BY <1>2, <1>3, <1>4, <1>8, <1>9 DEF TwinOf

\* Whatever the callers do, whatever overlaps and fails, the pool loses sight
\* of a connection that is not ended only to another of its schema, or in a
\* shutdown that succeeds.
THEOREM LostInRaces == Spec => LostOnlyInRaces
<1> DEFINE OnlyInRaces == \A c \in Conns : Loses(c) => TwinOf(c) \/ ShutdownSucceeds
<1>1. TypeInv /\ RoutedToOwnSchema /\ TodoRouted /\ DoneHasEnded /\ [Next]_vars
      => OnlyInRaces
  <2> SUFFICES ASSUME TypeInv, RoutedToOwnSchema, TodoRouted, DoneHasEnded, [Next]_vars,
                      NEW c \in Conns, Loses(c)
               PROVE  TwinOf(c) \/ ShutdownSucceeds
    OBVIOUS
  <2>1. PoolRouted
    BY DEF RoutedToOwnSchema
  <2>2. CASE \E t \in Tasks : CreateSucceeds(t)
    BY <2>1, <2>2, CreatedLoses
  <2>3. CASE \A t \in Tasks : ~CreateSucceeds(t)
    <3>1. pool' # pool /\ c \in PoolConns /\ c \notin PoolConns'
      BY <2>3, WhatIsLost
    <3>2. cstate'[c] \in {"open", "ending", "failed"}
      BY DEF Loses
    <3>3. PICK t \in Tasks : \/ PoolMiss(t) \/ DestroyResolves(t) \/ StartClose(t)
                             \/ \E d \in Conns : CloseResolves(t, d)
      BY <2>3, <3>1, PoolSteps
    <3>4. ~PoolMiss(t) /\ ~StartClose(t)
      BY <3>1, <3>2, MissedLoses, ClosedLoses
    <3>5. CASE DestroyResolves(t)
      BY <2>1, <3>1, <3>2, <3>5, ResolvedLoses
    <3>6. ASSUME NEW d \in Conns, CloseResolves(t, d)
          PROVE  ShutdownSucceeds
      <4>1. closing[t] = {d} /\ cstate'[d] = "ended"
        BY <3>1, <3>6 DEF CloseResolves, TypeInv, ConnTypeOK
      <4> QED
        BY <4>1 DEF ShutdownSucceeds
    <3> QED
      BY <3>3, <3>4, <3>5, <3>6
  <2> QED
    BY <2>2, <2>3
<1>2. Init => TodoRouted /\ DoneHasEnded
  BY EmptySeq, LenProperties DEF Init, TodoRouted, DoneHasEnded
<1>3. RoutedToOwnSchema => PoolRouted
  BY DEF RoutedToOwnSchema
<1>4. OnlyInRaces => \A c \in Conns : Loses(c) => TwinOf(c) \/ ShutdownSucceeds
  OBVIOUS
<1> HIDE DEF OnlyInRaces
<1> QED
  BY <1>1, <1>2, <1>3, <1>4, TodoStaysRouted, DoneStaysEnded, Isolation, Typed, PTL
     DEF Spec, LostOnlyInRaces

-----------------------------------------------------------------------------
(* Destructions are waited for by one.  This needs no discipline of the     *)
(* callers.                                                                 *)

\* A task has a destruction in hand exactly inside a loop, and destructions to
\* wait for exactly inside closeAllConnections.
WaitsFit ==
    \A t \in Tasks : /\ outcome[t] # "none" <=> pc[t] \in LoopPoints
                     /\ closing[t] # {} <=> pc[t] = "closing"

AwaitsAlone ==
    \A t \in Tasks : \A c \in AwaitedBy(t) :
       cstate[c] = "ending" /\ \A u \in Tasks : c \in AwaitedBy(u) => u = t

WaitInv == WaitsFit /\ AwaitsAlone

LEMMA AwaitedAreConns ==
    ASSUME TypeInv, NEW t \in Tasks
    PROVE  AwaitedBy(t) \subseteq Conns
BY HeadInHand DEF AwaitedBy, TypeInv

\* What a step of task t must keep: t comes to wait only for destructions it
\* begins, and none that others wait for settles.
LEMMA TaskAwaits ==
    ASSUME AwaitsAlone, NEW t \in Tasks,
           \A u \in Tasks \ {t} : AwaitedBy(u)' = AwaitedBy(u),
           \A c \in AwaitedBy(t)' :
              cstate'[c] = "ending" /\ (c \in AwaitedBy(t) \/ cstate[c] # "ending"),
           \A u \in Tasks \ {t} : \A c \in AwaitedBy(u) \ AwaitedBy(t) :
              cstate[c] = "ending" => cstate'[c] = "ending"
    PROVE  AwaitsAlone'
<1>1. ASSUME NEW c \in AwaitedBy(t)', NEW u \in Tasks \ {t}
      PROVE  c \notin AwaitedBy(u)'
  BY <1>1 DEF AwaitsAlone
<1>2. ASSUME NEW u \in Tasks \ {t}, NEW c \in AwaitedBy(u)'
      PROVE  cstate'[c] = "ending" /\ \A v \in Tasks : c \in AwaitedBy(v)' => v = u
  <2>1. c \in AwaitedBy(u) /\ cstate[c] = "ending" /\ c \notin AwaitedBy(t)
    BY <1>2 DEF AwaitsAlone
  <2>2. cstate'[c] = "ending"
    BY <1>2, <2>1
  <2>3. \A v \in Tasks \ {t} : c \in AwaitedBy(v)' => v = u
    BY <1>2, <2>1 DEF AwaitsAlone
  <2> QED
    BY <1>1, <1>2, <2>2, <2>3
<1>3. ASSUME NEW c \in AwaitedBy(t)'
      PROVE  cstate'[c] = "ending" /\ \A v \in Tasks : c \in AwaitedBy(v)' => v = t
  BY <1>1, <1>3
<1>4. ASSUME NEW v \in Tasks
      PROVE  \A c \in AwaitedBy(v)' :
                cstate'[c] = "ending" /\ \A u \in Tasks : c \in AwaitedBy(u)' => u = v
  BY <1>2, <1>3
<1> QED
  BY <1>4 DEF AwaitsAlone

\* A step that neither begins nor settles a destruction, and of which the calls
\* stay as they are or move outside the loops and closeAllConnections.
LEMMA NoWaits ==
    ASSUME TypeInv, WaitInv, NEW t \in Tasks, UNCHANGED <<todo, outcome, closing>>,
           \A c \in Conns : cstate[c] = "ending" => cstate'[c] = "ending",
           \A u \in Tasks \ {t} : pc'[u] = pc[u],
           pc'[t] = pc[t] \/ {pc[t], pc'[t]} \cap (LoopPoints \cup {"closing"}) = {}
    PROVE  WaitInv'
<1>1. \A u \in Tasks : AwaitedBy(u)' = AwaitedBy(u)
  BY DEF AwaitedBy
<1>2. AwaitsAlone'
  BY <1>1, AwaitedAreConns, TaskAwaits DEF WaitInv, AwaitsAlone
<1>3. WaitsFit'
  BY DEF WaitInv, WaitsFit
<1> QED
  BY <1>2, <1>3 DEF WaitInv

\* A loop takes up an entry, cs being what has become of the connections.
LEMMA LoopAwaits ==
    ASSUME TypeInv, WaitInv, NEW t \in Tasks, NEW q \in Seq(Entries), q # <<>>,
           NEW cs \in [Conns -> CStates], DestroyHead(t, q, cs), UNCHANGED closing,
           \A c \in Conns : c \notin AwaitedBy(t) =>
              (cs[c] = "ending" <=> cstate[c] = "ending"),
           \A c \in Conns : cstate[c] = "open" <=> cs[c] = "open",
           \A u \in Tasks \ {t} : pc'[u] = pc[u],
           pc[t] # "closing", pc'[t] \in LoopPoints
    PROVE  WaitInv'
<1>1. /\ Head(q).conn \in Conns
      /\ todo'[t] = q /\ outcome'[t] \in {"io", "done", "reject"}
      /\ \A u \in Tasks \ {t} : todo'[u] = todo[u] /\ outcome'[u] = outcome[u]
      /\ outcome'[t] = "io" => cs[Head(q).conn] = "open"
                               /\ cstate'[Head(q).conn] = "ending"
      /\ \A d \in Conns : \/ cstate'[d] = cs[d]
                          \/ cs[d] = "open" /\ cstate'[d] = "ending"
  BY DestroyHeadFacts
<1>2. closing[t] = {}
  BY DEF WaitInv, WaitsFit
<1>3. \A u \in Tasks \ {t} : AwaitedBy(u)' = AwaitedBy(u)
  BY <1>1 DEF AwaitedBy
<1>4. \A c \in AwaitedBy(t)' :
         cstate'[c] = "ending" /\ (c \in AwaitedBy(t) \/ cstate[c] # "ending")
  BY <1>1, <1>2 DEF AwaitedBy
<1>5. \A u \in Tasks \ {t} : \A c \in AwaitedBy(u) \ AwaitedBy(t) :
         cstate[c] = "ending" => cstate'[c] = "ending"
  BY <1>1, AwaitedAreConns
<1>6. AwaitsAlone'
  BY <1>3, <1>4, <1>5, TaskAwaits DEF WaitInv
<1>7. WaitsFit'
  BY <1>1, <1>2 DEF WaitInv, WaitsFit, LoopPoints
<1> QED
  BY <1>6, <1>7 DEF WaitInv

\* The destruction that a loop awaits settles, and the loop goes on or ends.
LEMMA DestroyAwaits ==
    ASSUME TypeInv, WaitInv, NEW t \in Tasks, Destroy(t)
    PROVE  WaitInv'
<1>1. outcome[t] # "none" /\ UNCHANGED closing
  BY DEF Destroy, DestroyResolves, DestroyRejects
<1>2. pc[t] \in LoopPoints
  BY <1>1 DEF WaitInv, WaitsFit
<1> DEFINE c == Head(todo[t]).conn
           q == Tail(todo[t])
<1>3. PICK cs \in {cstate, [cstate EXCEPT ![c] = "ended"], [cstate EXCEPT ![c] = "failed"]} :
         NextEntry(t, cs) /\ (outcome[t] # "io" => cs = cstate)
  BY DEF Destroy, DestroyResolves, DestroyRejects
<1>4. c \in Conns /\ (outcome[t] = "io" => c \in AwaitedBy(t) /\ cstate[c] = "ending")
  BY <1>1, HeadInHand DEF AwaitedBy, WaitInv, AwaitsAlone
<1> HIDE DEF c
<1>5. /\ cs \in [Conns -> CStates]
      /\ \A d \in Conns : d \notin AwaitedBy(t) =>
            (cs[d] = "ending" <=> cstate[d] = "ending")
      /\ \A d \in Conns : cstate[d] = "open" <=> cs[d] = "open"
  <2>0. cstate \in [Conns -> CStates]
    BY DEF TypeInv, ConnTypeOK
  <2>1. CASE cs = cstate
    BY <2>0, <2>1
  <2>2. CASE cs # cstate
    BY <1>3, <1>4, <2>0, <2>2 DEF CStates
  <2> QED
    BY <2>1, <2>2
<1>6. q \in Seq(Entries)
  BY <1>1, HeadTailProperties DEF TypeInv, LoopTypeOK
<1>7. CASE q # <<>>
  <2>1. DestroyHead(t, q, cs) /\ UNCHANGED pc
    BY <1>3, <1>7 DEF NextEntry, callVars
  <2>2. pc[t] # "closing"
    BY <1>2 DEF LoopPoints
  <2> HIDE DEF q
  <2> QED
    BY <1>1, <1>2, <1>5, <1>6, <1>7, <2>1, <2>2, LoopAwaits
<1>8. CASE q = <<>>
  <2>1. /\ EndLoop(t, cs)
        /\ IF pc[t] = "evicting" THEN Awaits(t, CreateStage(req[t])) ELSE Settles(t)
    BY <1>3, <1>8 DEF NextEntry
  <2>2. /\ outcome'[t] = "none" /\ cstate' = cs
        /\ \A u \in Tasks \ {t} : todo'[u] = todo[u] /\ outcome'[u] = outcome[u]
    BY <2>1 DEF EndLoop, TypeInv, LoopTypeOK
  <2>3. /\ pc'[t] \in {"loading", "creating", "idle"}
        /\ \A u \in Tasks \ {t} : pc'[u] = pc[u]
    <3>1. CASE pc[t] = "evicting"
      BY <2>1, <3>1 DEF Awaits, CreateStage, TypeInv, CallTypeOK
    <3>2. CASE pc[t] # "evicting"
      BY <2>1, <3>2 DEF Settles, TypeInv, CallTypeOK
    <3> QED
      BY <3>1, <3>2
  <2>4. closing[t] = {}
    BY <1>2 DEF WaitInv, WaitsFit, LoopPoints
  <2>5. AwaitedBy(t)' = {} /\ \A u \in Tasks \ {t} : AwaitedBy(u)' = AwaitedBy(u)
    BY <1>1, <2>2, <2>4 DEF AwaitedBy
  <2>6. \A u \in Tasks \ {t} : \A d \in AwaitedBy(u) \ AwaitedBy(t) :
           cstate[d] = "ending" => cstate'[d] = "ending"
    BY <1>5, <2>2, AwaitedAreConns
  <2>7. AwaitsAlone'
    BY <2>5, <2>6, TaskAwaits DEF WaitInv
  <2>8. WaitsFit'
    BY <1>1, <1>2, <2>2, <2>3, <2>4 DEF WaitInv, WaitsFit, LoopPoints
  <2> QED
    BY <2>7, <2>8 DEF WaitInv
<1> QED
  BY <1>7, <1>8

\* Removals, sweeps and calls that evict begin a destruction at most, of a
\* connection that is open.
LEMMA StartsAwaits ==
    ASSUME TypeInv, WaitInv, NEW t \in Tasks,
           \/ \E s \in Requested : StartRemove(t, s)
           \/ SweepTick(t)
           \/ PoolMiss(t)
    PROVE  WaitInv'
<1>1. /\ cstate \in [Conns -> CStates] /\ UNCHANGED closing
      /\ pc[t] \in {"idle", "checking"}
      /\ \A u \in Tasks \ {t} : pc'[u] = pc[u]
  BY DEF StartRemove, MayStart, SweepTick, PoolMiss, Admitted, Awaits,
         TypeInv, ConnTypeOK, CallTypeOK
<1>2. ASSUME NEW q \in Seq(Entries), q # <<>>, DestroyHead(t, q, cstate), pc'[t] \in LoopPoints
      PROVE  WaitInv'
  BY <1>1, <1>2, LoopAwaits
<1>3. ASSUME NEW s \in Requested, StartRemove(t, s)
      PROVE  WaitInv'
  <2> DEFINE q == <<[schema |-> s, conn |-> MapGet(pool, s)]>>
  <2>1. DestroyHead(t, q, cstate) /\ pc'[t] = "removing"
    BY <1>3 DEF StartRemove, TypeInv, CallTypeOK
  <2>2. q \in Seq(Entries) /\ q # <<>>
    <3>1. s \in Schemas /\ MapGet(pool, s) \in Conns
      BY <1>3, NamesAssumption, MapGetFacts DEF StartRemove, TypeInv
    <3> QED
      BY <3>1, EmptySeq DEF Entries
  <2> HIDE DEF q
  <2> QED
    BY <1>2, <2>1, <2>2 DEF LoopPoints
<1>4. CASE SweepTick(t)
  <2>1. /\ SweepDue /\ CleanupBatch > 0 /\ DestroyHead(t, OldEntries(pool), cstate)
        /\ pc'[t] = "sweeping"
    BY <1>4 DEF SweepTick, TypeInv, CallTypeOK
  <2>2. Len(pool) > 0
    BY <2>1, OptionsAssumption, LenProperties DEF SweepDue, TypeInv
  <2>3. OldEntries(pool) \in Seq(Entries) /\ OldEntries(pool) # <<>>
    BY <2>1, <2>2, OldEntriesFacts DEF TypeInv
  <2> QED
    BY <1>2, <2>1, <2>3 DEF LoopPoints
<1>5. CASE PoolMiss(t)
  <2>1. pool' \in Seq(Entries)
    BY <1>5, MapDeleteFacts DEF PoolMiss, TypeInv
  <2>2. CASE AtLimit(pool') /\ CleanupBatch > 0
    <3>1. DestroyHead(t, OldEntries(pool'), cstate) /\ pc'[t] = "evicting"
      BY <1>5, <2>2 DEF PoolMiss, Awaits, TypeInv, CallTypeOK
    <3>2. Len(pool') > 0
      BY <2>1, <2>2, OptionsAssumption, LenProperties DEF AtLimit
    <3>3. OldEntries(pool') \in Seq(Entries) /\ OldEntries(pool') # <<>>
      BY <2>1, <2>2, <3>2, OldEntriesFacts
    <3> QED
      BY <1>2, <3>1, <3>3 DEF LoopPoints
  <2>3. CASE ~(AtLimit(pool') /\ CleanupBatch > 0)
    <3>1. /\ pc[t] = "checking" /\ pc'[t] \in {"loading", "creating"}
          /\ UNCHANGED <<cstate, todo, outcome>>
      BY <1>5, <2>3
         DEF PoolMiss, Admitted, Awaits, CreateStage, loopVars, TypeInv, CallTypeOK
    <3> QED
      BY <1>1, <3>1, NoWaits DEF LoopPoints
  <2> QED
    BY <2>2, <2>3
<1> QED
  BY <1>3, <1>4, <1>5

\* closeAllConnections waits for the destructions that it began.
LEMMA StartCloseAwaits ==
    ASSUME TypeInv, WaitInv, NEW t \in Tasks, StartClose(t)
    PROVE  WaitInv'
<1> DEFINE begun == {c \in PoolConns : DestroyOutcome(cstate, c) = "io"}
<1>1. /\ pc[t] = "idle" /\ UNCHANGED <<todo, outcome>>
      /\ cstate' = [c \in Conns |-> IF c \in begun THEN "ending" ELSE cstate[c]]
  BY DEF StartClose, loopVars
<1>2. \A c \in begun : c \in Conns /\ cstate[c] = "open" /\ cstate'[c] = "ending"
  BY <1>1, PooledAreConns DEF DestroyOutcome, TypeOrmDestroy, DrizzleDestroy
<1>3. \A c \in Conns : cstate[c] = "ending" => cstate'[c] = "ending"
  BY <1>1
<1>4. \A u \in Tasks : AwaitedBy(u) \subseteq Conns
  BY AwaitedAreConns
<1>5. closing[t] = {} /\ outcome[t] = "none"
  BY <1>1 DEF WaitInv, WaitsFit, LoopPoints
<1>6. CASE UNCHANGED <<pc, closing>>
  <2>1. \A u \in Tasks : AwaitedBy(u)' = AwaitedBy(u)
    BY <1>1, <1>6 DEF AwaitedBy
  <2>2. AwaitsAlone'
    BY <1>3, <1>4, <2>1, TaskAwaits DEF WaitInv, AwaitsAlone
  <2>3. WaitsFit'
    BY <1>1, <1>6 DEF WaitInv, WaitsFit
  <2> QED
    BY <2>2, <2>3 DEF WaitInv
<1>7. CASE ~UNCHANGED <<pc, closing>>
  <2>1. /\ begun # {} /\ pc'[t] = "closing" /\ closing'[t] = begun
        /\ \A u \in Tasks \ {t} : pc'[u] = pc[u] /\ closing'[u] = closing[u]
    BY <1>7 DEF StartClose, TypeInv, CallTypeOK
  <2> HIDE DEF begun
  <2>2. AwaitedBy(t)' = begun /\ \A u \in Tasks \ {t} : AwaitedBy(u)' = AwaitedBy(u)
    BY <1>1, <1>5, <2>1 DEF AwaitedBy
  <2>3. AwaitsAlone'
    BY <1>2, <1>3, <1>4, <2>2, TaskAwaits DEF WaitInv
  <2>4. WaitsFit'
    BY <1>1, <1>5, <2>1 DEF WaitInv, WaitsFit, LoopPoints
  <2> QED
    BY <2>3, <2>4 DEF WaitInv
<1> QED
  BY <1>6, <1>7

\* What closeAllConnections waits for settles, and it ends with the last or
\* with the first that rejects.
LEMMA CloseAwaits ==
    ASSUME TypeInv, WaitInv, NEW t \in Tasks, NEW c \in Conns,
           CloseResolves(t, c) \/ CloseRejects(t, c)
    PROVE  WaitInv'
<1>1. /\ c \in closing[t] /\ UNCHANGED <<todo, outcome>>
      /\ \A d \in Conns : d # c => cstate'[d] = cstate[d]
  BY DEF CloseResolves, CloseRejects, loopVars, TypeInv, ConnTypeOK
<1>2. /\ pc[t] = "closing" /\ outcome[t] = "none"
      /\ \A u \in Tasks \ {t} : c \notin AwaitedBy(u)
  <2>1. c \in AwaitedBy(t) /\ pc[t] = "closing"
    BY <1>1 DEF AwaitedBy, WaitInv, WaitsFit
  <2> QED
    BY <2>1 DEF WaitInv, AwaitsAlone, WaitsFit, LoopPoints
<1>3. /\ closing'[t] = {} \/ closing'[t] = closing[t] \ {c}
      /\ \A u \in Tasks \ {t} : closing'[u] = closing[u] /\ pc'[u] = pc[u]
      /\ IF closing'[t] = {} THEN pc'[t] = "idle" ELSE pc'[t] = pc[t]
  <2>1. CASE CloseResolves(t, c) /\ closing[t] # {c}
    BY <1>1, <2>1 DEF CloseResolves, callVars, TypeInv
  <2>2. CASE (CloseResolves(t, c) /\ closing[t] = {c}) \/ CloseRejects(t, c)
    BY <1>1, <2>2 DEF CloseResolves, CloseRejects, Settles, TypeInv, CallTypeOK
  <2> QED
    BY <2>1, <2>2
<1>4. \A u \in Tasks : AwaitedBy(u) \subseteq Conns
  BY AwaitedAreConns
<1>5. /\ \A d \in AwaitedBy(t)' : d \in AwaitedBy(t) /\ d # c
      /\ \A u \in Tasks \ {t} : AwaitedBy(u)' = AwaitedBy(u)
  BY <1>1, <1>2, <1>3 DEF AwaitedBy
<1>6. AwaitsAlone'
  BY <1>1, <1>2, <1>5, <1>4, TaskAwaits DEF WaitInv, AwaitsAlone
<1>7. WaitsFit'
  BY <1>1, <1>2, <1>3 DEF WaitInv, WaitsFit, LoopPoints
<1> QED
  BY <1>6, <1>7 DEF WaitInv

\* Nobody waits for a destruction that settles detached.
LEMMA DetachedAwaits ==
    ASSUME TypeInv, WaitInv, NEW c \in Conns, DetachedSettles(c)
    PROVE  WaitInv'
<1>1. /\ ~Awaited(c) /\ UNCHANGED <<pc, todo, outcome, closing>>
      /\ \A d \in Conns : d # c => cstate'[d] = cstate[d]
  BY DEF DetachedSettles, callVars, loopVars, TypeInv, ConnTypeOK
<1>2. \A u \in Tasks : AwaitedBy(u)' = AwaitedBy(u) /\ c \notin AwaitedBy(u)
  BY <1>1 DEF AwaitedBy, Awaited
<1>3. AwaitsAlone'
  BY <1>1, <1>2, AwaitedAreConns DEF WaitInv, AwaitsAlone
<1>4. WaitsFit'
  BY <1>1 DEF WaitInv, WaitsFit
<1> QED
  BY <1>3, <1>4 DEF WaitInv

\* A new connection is none whose destruction is under way.
LEMMA CreateAwaits ==
    ASSUME TypeInv, WaitInv, NEW t \in Tasks, CreateSucceeds(t) \/ CreateFails(t)
    PROVE  WaitInv'
<1>1. /\ pc[t] = "creating" /\ pc'[t] \in {"using", "idle"}
      /\ \A u \in Tasks \ {t} : pc'[u] = pc[u]
      /\ UNCHANGED <<todo, outcome, closing>>
  BY DEF CreateSucceeds, CreateFails, Returns, Settles, loopVars, TypeInv, CallTypeOK
<1>2. \A c \in Conns : cstate[c] = "ending" => cstate'[c] = "ending"
  <2>1. ASSUME FreeConns # {}, NEW s, NEW es, OpenConn(FreshConn, s, es)
        PROVE  \A c \in Conns : cstate[c] = "ending" => cstate'[c] = "ending"
    <3>1. cstate[FreshConn] # "ending"
      BY <2>1 DEF FreshConn, FreeConns
    <3>2. \A c \in Conns : c # FreshConn => cstate'[c] = cstate[c]
      BY <2>1 DEF OpenConn, TypeInv, ConnTypeOK
    <3> QED
      BY <3>1, <3>2
  <2>2. CASE UNCHANGED cstate
    BY <2>2
  <2> QED
    BY <2>1, <2>2 DEF CreateSucceeds, CreateFails, DrizzleLeaves, connVars
<1> QED
  BY <1>1, <1>2, NoWaits DEF LoopPoints

LEMMA WaitStep == TypeInv /\ WaitInv /\ [Next]_vars => WaitInv'
<1> SUFFICES ASSUME TypeInv, WaitInv, [Next]_vars
             PROVE  WaitInv'
  OBVIOUS
<1>1. ASSUME NEW t \in Tasks,
             \/ \E s \in Requested : StartGet(t, s)
             \/ ReadForCheck(t) \/ ReadForConfig(t) \/ ReadFails(t) \/ NotFound(t)
             \/ PoolHit(t) \/ Release(t)
      PROVE  WaitInv'
  <2>1. UNCHANGED <<cstate, todo, outcome, closing>>
    BY <1>1 DEF StartGet, ReadForCheck, ReadForConfig, ReadFails, NotFound, PoolHit,
                Release, connVars, loopVars
  <2>2. /\ {pc[t], pc'[t]} \cap (LoopPoints \cup {"closing"}) = {}
        /\ \A u \in Tasks \ {t} : pc'[u] = pc[u]
    BY <1>1 DEF StartGet, MayStart, ReadForCheck, ReadForConfig, ReadFails, NotFound,
                PoolHit, Admitted, Release, Settles, Returns, LoopPoints,
                TypeInv, CallTypeOK
  <2> QED
    BY <2>1, <2>2, NoWaits
<1>2. ASSUME NEW t \in Tasks, Get(t)
      PROVE  WaitInv'
  BY <1>1, <1>2, StartsAwaits, CreateAwaits DEF Get
<1>3. ASSUME NEW t \in Tasks, Close(t)
      PROVE  WaitInv'
  BY <1>3, CloseAwaits DEF Close
<1>4. ASSUME UNCHANGED <<cstate, pc, todo, outcome, closing>>
      PROVE  WaitInv'
  <2>1. \A u \in Tasks : AwaitedBy(u)' = AwaitedBy(u)
    BY <1>4 DEF AwaitedBy
  <2> QED
    BY <1>4, <2>1 DEF WaitInv, WaitsFit, AwaitsAlone
<1>5. ASSUME NEW s \in Administered, NEW row \in Rows, AdminCommit(s, row)
      PROVE  WaitInv'
  BY <1>4, <1>5 DEF AdminCommit, connVars, loopVars
<1>6. CASE UNCHANGED vars
  BY <1>4, <1>6 DEF vars, connVars, callVars, loopVars
<1> QED
  BY <1>1, <1>2, <1>3, <1>5, <1>6, StartsAwaits, DestroyAwaits, StartCloseAwaits,
     DetachedAwaits DEF Next

LEMMA WaitsHold == Spec => []WaitInv
<1>1. Init => WaitInv
  BY DEF Init, WaitInv, WaitsFit, AwaitsAlone, AwaitedBy, LoopPoints
<1> QED
  BY <1>1, WaitStep, Typed, PTL DEF Spec

\* However calls, sweeps, removals and shutdowns overlap, no two of them destroy
\* one connection, and none waits for a destruction that is not under way.
THEOREM OneDestroyer == Spec => []DestroyedOnce
<1>1. TypeInv /\ WaitInv => DestroyedOnce
  <2> SUFFICES ASSUME TypeInv, WaitInv, NEW t \in Tasks
               PROVE  /\ pc[t] \in {"evicting", "removing", "sweeping", "closing"} =>
                            AwaitedBy(t) # {} \/ outcome[t] \in {"done", "reject"}
                      /\ \A c \in AwaitedBy(t) :
                            /\ cstate[c] = "ending"
                            /\ \A u \in Tasks : c \in AwaitedBy(u) => u = t
    BY DEF DestroyedOnce
  <2>1. outcome[t] \in Outcomes
    BY DEF TypeInv, LoopTypeOK
  <2>2. pc[t] \in {"evicting", "removing", "sweeping", "closing"} =>
           outcome[t] # "none" \/ closing[t] # {}
    BY DEF WaitInv, WaitsFit, LoopPoints
  <2> QED
    BY <2>1, <2>2 DEF Outcomes, AwaitedBy, WaitInv, AwaitsAlone
<1> QED
  BY <1>1, WaitsHold, Typed, PTL
=============================================================================
