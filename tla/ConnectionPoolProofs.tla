------------------------ MODULE ConnectionPoolProofs ------------------------
(***************************************************************************)
(* What holds of ConnectionPool for every number of schemas, connections,  *)
(* overlapping calls and every limit: its types, the routing of each call  *)
(* to a connection of its own schema, and that only calls whose tenant was *)
(* there are served.                                                       *)
(***************************************************************************)
EXTENDS ConnectionPool, SequenceTheorems, TLAPS

-----------------------------------------------------------------------------
(* The Map operations.                                                     *)

\* A key that is there has its index.
LEMMA KeyIndexOfKey ==
    ASSUME NEW m \in Seq(Entries), NEW s, Has(m, s)
    PROVE  /\ KeyIndex(m, s) \in 1..Len(m)
           /\ m[KeyIndex(m, s)].schema = s
           /\ m[KeyIndex(m, s)] \in Entries
<1>1. DOMAIN m = 1..Len(m)
  BY LenProperties
<1>2. KeyIndex(m, s) \in DOMAIN m /\ m[KeyIndex(m, s)].schema = s
  BY DEF Has, KeyIndex
<1> QED
  BY <1>1, <1>2, ElementOfSeq

\* What Map.get returns is a connection some entry of the key holds.
LEMMA MapGetFacts ==
    ASSUME NEW m \in Seq(Entries), NEW s, Has(m, s)
    PROVE  /\ MapGet(m, s) \in Conns
           /\ \E i \in DOMAIN m : m[i].schema = s /\ m[i].conn = MapGet(m, s)
<1>1. DOMAIN m = 1..Len(m)
  BY LenProperties
<1> QED
  BY KeyIndexOfKey, <1>1 DEF MapGet, Entries

\* Map.set leaves the old entries and the new one, nothing else.
LEMMA MapSetFacts ==
    ASSUME NEW m \in Seq(Entries), NEW s \in Schemas, NEW c \in Conns
    PROVE  /\ MapSet(m, s, c) \in Seq(Entries)
           /\ \A i \in DOMAIN MapSet(m, s, c) :
                 \/ MapSet(m, s, c)[i] = [schema |-> s, conn |-> c]
                 \/ i \in DOMAIN m /\ MapSet(m, s, c)[i] = m[i]
<1> DEFINE e == [schema |-> s, conn |-> c]
<1>1. e \in Entries
  BY DEF Entries
<1>2. CASE Has(m, s)
  <2>1. MapSet(m, s, c) = [m EXCEPT ![KeyIndex(m, s)] = e]
    BY <1>2 DEF MapSet
  <2>2. KeyIndex(m, s) \in 1..Len(m)
    BY <1>2, KeyIndexOfKey
  <2>3. [m EXCEPT ![KeyIndex(m, s)] = e] \in Seq(Entries)
    BY <1>1, <2>2, ExceptSeq
  <2> QED
    BY <2>1, <2>2, <2>3
<1>3. CASE ~Has(m, s)
  <2>1. MapSet(m, s, c) = Append(m, e)
    BY <1>3 DEF MapSet
  <2>2. /\ Append(m, e) \in Seq(Entries)
        /\ Len(Append(m, e)) = Len(m) + 1
        /\ \A i \in 1..Len(m) : Append(m, e)[i] = m[i]
        /\ Append(m, e)[Len(m) + 1] = e
    BY <1>1, AppendProperties
  <2>3. DOMAIN Append(m, e) = 1..(Len(m) + 1) /\ DOMAIN m = 1..Len(m) /\ Len(m) \in Nat
    BY <2>2, LenProperties
  <2> QED
    BY <2>1, <2>2, <2>3
<1> QED
  BY <1>2, <1>3

\* Map.delete takes one entry out: those before it stay, those after it move up.
LEMMA MapDeleteEntries ==
    ASSUME NEW m \in Seq(Entries), NEW s, Has(m, s)
    PROVE  /\ MapDelete(m, s) \in Seq(Entries)
           /\ DOMAIN MapDelete(m, s) = 1..(Len(m) - 1)
           /\ \A i \in 1..(Len(m) - 1) :
                 MapDelete(m, s)[i] = IF i < KeyIndex(m, s) THEN m[i] ELSE m[i + 1]
<1> DEFINE k == KeyIndex(m, s)
           a == SubSeq(m, 1, k - 1)
           b == SubSeq(m, k + 1, Len(m))
<1>1. MapDelete(m, s) = a \o b
  BY DEF MapDelete, RemoveAt
<1>2. k \in 1..Len(m) /\ Len(m) \in Nat
  BY KeyIndexOfKey, LenProperties
<1> HIDE DEF k
<1>3. /\ a \in Seq(Entries)
      /\ Len(a) = k - 1
      /\ \A i \in 1..(k - 1) : a[i] = m[i]
  <2>1. /\ 1 \in Int /\ k - 1 \in Int
        /\ \A i \in 1..(k - 1) : m[i] \in Entries
    BY <1>2, ElementOfSeq
  <2>2. /\ a \in Seq(Entries)
        /\ Len(a) = IF 1 <= k - 1 THEN (k - 1) - 1 + 1 ELSE 0
        /\ \A i \in 1..((k - 1) - 1 + 1) : a[i] = m[1 + i - 1]
    BY <2>1, SubSeqProperties
  <2> HIDE DEF a
  <2> QED
    BY <1>2, <2>2
<1>4. /\ b \in Seq(Entries)
      /\ Len(b) = Len(m) - k
      /\ \A i \in 1..(Len(m) - k) : b[i] = m[k + i]
  <2>1. /\ k + 1 \in Int /\ Len(m) \in Int
        /\ \A i \in (k + 1)..Len(m) : m[i] \in Entries
    BY <1>2, ElementOfSeq
  <2>2. /\ b \in Seq(Entries)
        /\ Len(b) = IF k + 1 <= Len(m) THEN Len(m) - (k + 1) + 1 ELSE 0
        /\ \A i \in 1..(Len(m) - (k + 1) + 1) : b[i] = m[(k + 1) + i - 1]
    BY <2>1, SubSeqProperties
  <2> HIDE DEF b
  <2>3. Len(m) - (k + 1) + 1 = Len(m) - k
    BY <1>2
  <2>4. \A n \in Nat : \A j \in 1..n :
           (IF j + 1 <= n THEN n - (j + 1) + 1 ELSE 0) = n - j
    OBVIOUS
  <2>5. Len(b) = Len(m) - k
    BY <1>2, <2>2, <2>4
  <2>6. ASSUME NEW i \in 1..(Len(m) - k)
        PROVE  b[i] = m[k + i]
    <3>1. (k + 1) + i - 1 = k + i
      BY <1>2
    <3> QED
      BY <2>2, <2>3, <3>1
  <2> QED
    BY <2>2, <2>5, <2>6
<1> HIDE DEF a, b
<1>5. /\ a \o b \in Seq(Entries)
      /\ Len(a \o b) = Len(a) + Len(b)
      /\ \A i \in 1..(Len(a) + Len(b)) :
            (a \o b)[i] = IF i <= Len(a) THEN a[i] ELSE b[i - Len(a)]
  BY <1>3, <1>4, ConcatProperties
<1>6. Len(a \o b) = Len(m) - 1 /\ Len(a) + Len(b) = Len(m) - 1
  BY <1>2, <1>3, <1>4, <1>5
<1>7. DOMAIN (a \o b) = 1..(Len(m) - 1)
  BY <1>5, <1>6, LenProperties
<1>8. ASSUME NEW i \in 1..(Len(m) - 1)
      PROVE  (a \o b)[i] = IF i < k THEN m[i] ELSE m[i + 1]
  <2>1. CASE i < k
    BY <2>1, <1>2, <1>3, <1>5, <1>6
  <2>2. CASE ~(i < k)
    <3>1. /\ i - (k - 1) \in 1..(Len(m) - k)
          /\ k + (i - (k - 1)) = i + 1
          /\ ~(i <= k - 1)
      BY <2>2, <1>2
    <3>2. (a \o b)[i] = b[i - (k - 1)]
      BY <3>1, <1>3, <1>5, <1>6
    <3> QED
      BY <2>2, <3>1, <3>2, <1>4
  <2> QED
    BY <2>1, <2>2
<1> QED
  BY <1>1, <1>5, <1>7, <1>8 DEF k

\* Map.delete leaves only entries that were there.
LEMMA MapDeleteFacts ==
    ASSUME NEW m \in Seq(Entries), NEW s
    PROVE  /\ MapDelete(m, s) \in Seq(Entries)
           /\ \A i \in DOMAIN MapDelete(m, s) :
                 \E j \in DOMAIN m : MapDelete(m, s)[i] = m[j]
<1>1. CASE ~Has(m, s)
  BY <1>1 DEF MapDelete
<1>2. CASE Has(m, s)
  <2>1. DOMAIN m = 1..Len(m) /\ Len(m) \in Nat
    BY LenProperties
  <2>2. \A i \in 1..(Len(m) - 1) : i \in DOMAIN m /\ i + 1 \in DOMAIN m
    BY <2>1
  <2> QED
    BY <1>2, <2>2, MapDeleteEntries
<1> QED
  BY <1>1, <1>2

\* cleanupOldConnections starts with entries of the Map; when the limit makes
\* the batch non-empty and there are entries, so is the snapshot.
LEMMA OldEntriesFacts ==
    ASSUME NEW m \in Seq(Entries), CleanupBatch > 0, Len(m) > 0
    PROVE  OldEntries(m) \in Seq(Entries) /\ OldEntries(m) # <<>>
<1> DEFINE n == IF CleanupBatch < Len(m) THEN CleanupBatch ELSE Len(m)
<1>1. CleanupBatch \in Nat /\ Len(m) \in Nat
  BY OptionsAssumption, LenProperties DEF CleanupBatch
<1>2. n \in 1..Len(m)
  BY <1>1
<1> HIDE DEF n
<1>3. SubSeq(m, 1, n) \in Seq(Entries) /\ Len(SubSeq(m, 1, n)) = n
  BY <1>2, <1>1
<1> QED
  BY <1>2, <1>3, <1>1, EmptySeq DEF OldEntries, n

-----------------------------------------------------------------------------
(* Type correctness.  The inductive invariant adds to the types that a call *)
(* has a schema from its start to the release of its connection, that a     *)
(* served call holds a connection, and that a loop which awaits a           *)
(* destruction has the entry in hand.                                       *)

CallTypeOK ==
    /\ pc \in [Tasks -> Points]
    /\ req \in [Tasks -> Schemas \cup {NoSchema}]
    /\ answer \in [Tasks -> Rows \cup {NoAnswer}]
    /\ held \in [Tasks -> Conns \cup {NoConn}]
    /\ seen \in [Tasks -> SUBSET Rows]
    /\ \A t \in Tasks : InCall(t) => req[t] \in Schemas
    /\ \A t \in Tasks : pc[t] = "using" => held[t] \in Conns

ConnTypeOK ==
    /\ cstate \in [Conns -> CStates]
    /\ cschema \in [Conns -> Schemas \cup {NoSchema}]
    /\ cents \in [Conns -> Configs \cup {DefaultConfig, AllEntities}]

LoopTypeOK ==
    /\ todo \in [Tasks -> Seq(Entries)]
    /\ outcome \in [Tasks -> Outcomes]
    /\ \A t \in Tasks : outcome[t] # "none" => todo[t] # <<>>

TypeInv ==
    /\ pool \in Seq(Entries)
    /\ timer \in BOOLEAN
    /\ tenants \in [Schemas -> Rows]
    /\ closing \in [Tasks -> SUBSET Conns]
    /\ ConnTypeOK
    /\ CallTypeOK
    /\ LoopTypeOK

\* A call that settles, goes on waiting or returns keeps the calls typed.
LEMMA SettlesTyped ==
    ASSUME CallTypeOK, NEW t \in Tasks, Settles(t)
    PROVE  CallTypeOK'
BY DEF CallTypeOK, Settles, InCall, Points

LEMMA AwaitsTyped ==
    ASSUME CallTypeOK, NEW t \in Tasks, InCall(t),
           NEW p \in {"evicting", "loading", "creating"}, Awaits(t, p)
    PROVE  CallTypeOK'
BY DEF CallTypeOK, Awaits, InCall, Points

LEMMA ReturnsTyped ==
    ASSUME CallTypeOK, NEW t \in Tasks, InCall(t), NEW c \in Conns, Returns(t, c)
    PROVE  CallTypeOK'
BY DEF CallTypeOK, Returns, InCall, Points

LEMMA CallUnchangedTyped ==
    ASSUME CallTypeOK, UNCHANGED callVars
    PROVE  CallTypeOK'
BY DEF CallTypeOK, callVars, InCall

LEMMA LoopUnchangedTyped ==
    ASSUME LoopTypeOK, UNCHANGED loopVars
    PROVE  LoopTypeOK'
BY DEF LoopTypeOK, loopVars

LEMMA ConnUnchangedTyped ==
    ASSUME ConnTypeOK, UNCHANGED connVars
    PROVE  ConnTypeOK'
BY DEF ConnTypeOK, connVars

\* A loop that takes up an entry, or that ends, keeps the loops typed.
LEMMA DestroyHeadTyped ==
    ASSUME LoopTypeOK, NEW t \in Tasks, NEW q \in Seq(Entries), q # <<>>,
           NEW cs \in [Conns -> CStates], DestroyHead(t, q, cs)
    PROVE  LoopTypeOK' /\ cstate' \in [Conns -> CStates]
<1> DEFINE c == Head(q).conn
           o == DestroyOutcome(cs, c)
<1>1. c \in Conns
  <2>1. Head(q) \in Entries
    BY HeadTailProperties
  <2> QED
    BY <2>1 DEF Entries
<1>2. o \in {"io", "done", "reject"}
  BY DEF DestroyOutcome, TypeOrmDestroy, DrizzleDestroy
<1> HIDE DEF c, o
<1>3. /\ todo' = [todo EXCEPT ![t] = q]
      /\ outcome' = [outcome EXCEPT ![t] = o]
      /\ cstate' = IF o = "io" THEN [cs EXCEPT ![c] = "ending"] ELSE cs
  BY DEF DestroyHead, c, o
<1>4. LoopTypeOK'
  BY <1>2, <1>3 DEF LoopTypeOK, Outcomes
<1>5. cstate' \in [Conns -> CStates]
  <2>1. [cs EXCEPT ![c] = "ending"] \in [Conns -> CStates]
    BY <1>1 DEF CStates
  <2> QED
    BY <1>3, <2>1
<1> QED
  BY <1>4, <1>5

LEMMA NextEntryTyped ==
    ASSUME LoopTypeOK, CallTypeOK, NEW t \in Tasks, todo[t] # <<>>,
           NEW cs \in [Conns -> CStates], NextEntry(t, cs)
    PROVE  LoopTypeOK' /\ CallTypeOK' /\ cstate' \in [Conns -> CStates]
<1> DEFINE q == Tail(todo[t])
<1>1. q \in Seq(Entries)
  BY HeadTailProperties DEF LoopTypeOK
<1> HIDE DEF q
<1>2. CASE q # <<>>
  <2>1. DestroyHead(t, q, cs) /\ UNCHANGED callVars
    BY <1>2 DEF NextEntry, q
  <2> QED
    BY <1>1, <1>2, <2>1, DestroyHeadTyped, CallUnchangedTyped
<1>3. CASE q = <<>>
  <2>1. /\ EndLoop(t, cs)
        /\ IF pc[t] = "evicting" THEN Awaits(t, CreateStage(req[t])) ELSE Settles(t)
    BY <1>3 DEF NextEntry, q
  <2>2. LoopTypeOK' /\ cstate' \in [Conns -> CStates]
    BY <2>1, EmptySeq DEF EndLoop, LoopTypeOK, Outcomes
  <2>3. CallTypeOK'
    <3>1. CASE pc[t] = "evicting"
      <4>1. CreateStage(req[t]) \in {"evicting", "loading", "creating"}
        BY DEF CreateStage
      <4> QED
        BY <2>1, <3>1, <4>1, AwaitsTyped DEF InCall
    <3>2. CASE pc[t] # "evicting"
      BY <2>1, <3>2, SettlesTyped
    <3> QED
      BY <3>1, <3>2
  <2> QED
    BY <2>2, <2>3
<1> QED
  BY <1>2, <1>3

\* A new connection is one of Conns, and opening it keeps the connections
\* typed.
LEMMA FreshConnIsConn ==
    ASSUME FreeConns # {}
    PROVE  FreshConn \in Conns /\ ~Referenced(FreshConn)
BY DEF FreshConn, FreeConns

LEMMA OpenConnTyped ==
    ASSUME ConnTypeOK, NEW c \in Conns, NEW s \in Schemas,
           NEW es \in Configs \cup {DefaultConfig, AllEntities}, OpenConn(c, s, es)
    PROVE  ConnTypeOK'
BY DEF ConnTypeOK, OpenConn, CStates

LEMMA EntitiesForTyped ==
    ASSUME NEW s, NEW row
    PROVE  EntitiesFor(s, row) \in Configs \cup {DefaultConfig, AllEntities}
BY DEF EntitiesFor

LEMMA InitTyped == Init => TypeInv
<1> SUFFICES ASSUME Init PROVE TypeInv
  OBVIOUS
<1> USE DEF Init
<1>1. ConnTypeOK
  BY DEF ConnTypeOK, CStates
<1>2. CallTypeOK
  BY DEF CallTypeOK, InCall, Points
<1>3. LoopTypeOK
  BY EmptySeq DEF LoopTypeOK, Outcomes
<1> QED
  BY <1>1, <1>2, <1>3, OptionsAssumption, EmptySeq DEF TypeInv

\* Every action keeps the types.
LEMMA NextTyped == TypeInv /\ [Next]_vars => TypeInv'
<1> SUFFICES ASSUME TypeInv, [Next]_vars PROVE TypeInv'
  OBVIOUS
<1> USE DEF TypeInv
<1>1. ASSUME NEW t \in Tasks, NEW s \in Requested, StartGet(t, s)
      PROVE  TypeInv'
  <2>1. s \in Schemas /\ tenants[s] \in Rows
    BY NamesAssumption
  <2>2. CallTypeOK'
    BY <1>1, <2>1 DEF StartGet, CallTypeOK, InCall, Points
  <2> QED
    BY <1>1, <2>2, LoopUnchangedTyped, ConnUnchangedTyped DEF StartGet
<1>2. ASSUME NEW t \in Tasks, NEW s \in Requested, StartRemove(t, s)
      PROVE  TypeInv'
  <2> DEFINE q == <<[schema |-> s, conn |-> MapGet(pool, s)]>>
  <2>1. s \in Schemas
    BY NamesAssumption
  <2>2. q \in Seq(Entries) /\ q # <<>>
    <3>1. MapGet(pool, s) \in Conns
      BY <1>2, MapGetFacts DEF StartRemove
    <3>2. [schema |-> s, conn |-> MapGet(pool, s)] \in Entries
      BY <2>1, <3>1 DEF Entries
    <3> QED
      BY <3>2
  <2>3. DestroyHead(t, q, cstate)
    BY <1>2 DEF StartRemove
  <2> HIDE DEF q
  <2>4. LoopTypeOK' /\ cstate' \in [Conns -> CStates]
    BY <2>2, <2>3, DestroyHeadTyped DEF ConnTypeOK
  <2>5. CallTypeOK'
    BY <1>2, <2>1 DEF StartRemove, CallTypeOK, InCall, Points
  <2> QED
    BY <1>2, <2>4, <2>5 DEF StartRemove, ConnTypeOK
<1>3. ASSUME NEW t \in Tasks, Get(t)
      PROVE  TypeInv'
  <2>1. CASE ReadForCheck(t)
    <3>1. CallTypeOK'
      BY <2>1 DEF ReadForCheck, CallTypeOK, InCall
    <3> QED
      BY <2>1, <3>1, LoopUnchangedTyped, ConnUnchangedTyped DEF ReadForCheck
  <2>2. CASE ReadForConfig(t)
    <3>1. CallTypeOK'
      BY <2>2 DEF ReadForConfig, CallTypeOK, InCall, Points
    <3> QED
      BY <2>2, <3>1, LoopUnchangedTyped, ConnUnchangedTyped DEF ReadForConfig
  <2>3. CASE ReadFails(t)
    <3>1. CASE Validator = "remote"
      <4>1. CallTypeOK'
        BY <2>3, <3>1 DEF ReadFails, CallTypeOK, InCall, Points, Rows
      <4> QED
        BY <2>3, <4>1, LoopUnchangedTyped, ConnUnchangedTyped DEF ReadFails
    <3>2. CASE Validator # "remote"
      BY <2>3, <3>2, SettlesTyped, LoopUnchangedTyped, ConnUnchangedTyped DEF ReadFails
    <3> QED
      BY <3>1, <3>2
  <2>4. CASE NotFound(t)
    BY <2>4, SettlesTyped, LoopUnchangedTyped, ConnUnchangedTyped DEF NotFound
  <2>5. CASE PoolHit(t)
    <3>1. InCall(t) /\ MapGet(pool, req[t]) \in Conns
      BY <2>5, MapGetFacts DEF PoolHit, Admitted, InCall
    <3> QED
      BY <2>5, <3>1, ReturnsTyped, LoopUnchangedTyped, ConnUnchangedTyped DEF PoolHit
  <2>6. CASE PoolMiss(t)
    <3>1. InCall(t) /\ pool' = MapDelete(pool, req[t]) /\ pool' \in Seq(Entries)
      BY <2>6, MapDeleteFacts DEF PoolMiss, Admitted, InCall
    <3>2. CASE AtLimit(pool') /\ CleanupBatch > 0
      <4>1. Awaits(t, "evicting") /\ DestroyHead(t, OldEntries(pool'), cstate)
        BY <2>6, <3>2 DEF PoolMiss
      <4>2. Len(pool') > 0
        BY <3>1, <3>2, OptionsAssumption, LenProperties DEF AtLimit
      <4>3. OldEntries(pool') \in Seq(Entries) /\ OldEntries(pool') # <<>>
        BY <3>1, <3>2, <4>2, OldEntriesFacts
      <4>4. LoopTypeOK' /\ cstate' \in [Conns -> CStates]
        BY <4>1, <4>3, DestroyHeadTyped DEF ConnTypeOK
      <4>5. CallTypeOK'
        BY <3>1, <4>1, AwaitsTyped
      <4> QED
        BY <2>6, <3>1, <4>4, <4>5 DEF PoolMiss, ConnTypeOK
    <3>3. CASE ~(AtLimit(pool') /\ CleanupBatch > 0)
      <4>1. Awaits(t, CreateStage(req[t])) /\ UNCHANGED <<cstate, loopVars>>
        BY <2>6, <3>3 DEF PoolMiss
      <4>2. CreateStage(req[t]) \in {"evicting", "loading", "creating"}
        BY DEF CreateStage
      <4>3. CallTypeOK'
        BY <3>1, <4>1, <4>2, AwaitsTyped
      <4> QED
        BY <2>6, <3>1, <4>1, <4>3, LoopUnchangedTyped DEF PoolMiss, ConnTypeOK
    <3> QED
      BY <3>2, <3>3
  <2>7. CASE CreateSucceeds(t)
    <3>1. FreshConn \in Conns /\ InCall(t) /\ req[t] \in Schemas
      BY <2>7, FreshConnIsConn DEF CreateSucceeds, InCall, CallTypeOK
    <3>2. pool' \in Seq(Entries)
      BY <2>7, <3>1, MapSetFacts DEF CreateSucceeds
    <3>3. ConnTypeOK'
      BY <2>7, <3>1, OpenConnTyped, EntitiesForTyped DEF CreateSucceeds
    <3> QED
      BY <2>7, <3>1, <3>2, <3>3, ReturnsTyped, LoopUnchangedTyped DEF CreateSucceeds
  <2>8. CASE CreateFails(t)
    <3>1. req[t] \in Schemas
      BY <2>8 DEF CreateFails, InCall, CallTypeOK
    <3>2. ConnTypeOK'
      BY <2>8, <3>1, FreshConnIsConn, OpenConnTyped, ConnUnchangedTyped
      DEF CreateFails, DrizzleLeaves
    <3> QED
      BY <2>8, <3>2, SettlesTyped, LoopUnchangedTyped DEF CreateFails
  <2> QED
    BY <1>3, <2>1, <2>2, <2>3, <2>4, <2>5, <2>6, <2>7, <2>8 DEF Get
<1>4. ASSUME NEW t \in Tasks, Release(t)
      PROVE  TypeInv'
  BY <1>4, SettlesTyped, LoopUnchangedTyped, ConnUnchangedTyped DEF Release
<1>5. ASSUME NEW t \in Tasks, SweepTick(t)
      PROVE  TypeInv'
  <2>1. CleanupBatch > 0 /\ DestroyHead(t, OldEntries(pool), cstate)
    BY <1>5 DEF SweepTick
  <2>2. Len(pool) > 0
    BY <1>5, OptionsAssumption, LenProperties DEF SweepTick, SweepDue
  <2>3. LoopTypeOK' /\ cstate' \in [Conns -> CStates]
    BY <2>1, <2>2, OldEntriesFacts, DestroyHeadTyped DEF ConnTypeOK
  <2>4. CallTypeOK'
    BY <1>5 DEF SweepTick, CallTypeOK, InCall, Points
  <2> QED
    BY <1>5, <2>3, <2>4 DEF SweepTick, ConnTypeOK
<1>6. ASSUME NEW t \in Tasks, Destroy(t)
      PROVE  TypeInv'
  <2> DEFINE e == Head(todo[t])
             ok == IF outcome[t] = "io" THEN [cstate EXCEPT ![e.conn] = "ended"]
                   ELSE cstate
             ko == IF outcome[t] = "io" THEN [cstate EXCEPT ![e.conn] = "failed"]
                   ELSE cstate
  <2>1. outcome[t] # "none" /\ todo[t] # <<>>
    BY <1>6 DEF Destroy, DestroyResolves, DestroyRejects, LoopTypeOK
  <2>2. ok \in [Conns -> CStates] /\ ko \in [Conns -> CStates]
    BY DEF ConnTypeOK, CStates
  <2>3. CASE DestroyResolves(t)
    <3>1. NextEntry(t, ok)
      BY <2>3 DEF DestroyResolves
    <3>2. pool' \in Seq(Entries)
      BY <2>3, MapDeleteFacts DEF DestroyResolves
    <3> HIDE DEF ok
    <3>3. LoopTypeOK' /\ CallTypeOK' /\ cstate' \in [Conns -> CStates]
      BY <2>1, <2>2, <3>1, NextEntryTyped
    <3> QED
      BY <2>3, <3>2, <3>3 DEF DestroyResolves, ConnTypeOK
  <2>4. CASE DestroyRejects(t)
    <3>1. NextEntry(t, ko)
      BY <2>4 DEF DestroyRejects
    <3> HIDE DEF ko
    <3>2. LoopTypeOK' /\ CallTypeOK' /\ cstate' \in [Conns -> CStates]
      BY <2>1, <2>2, <3>1, NextEntryTyped
    <3> QED
      BY <2>4, <3>2 DEF DestroyRejects, ConnTypeOK
  <2> QED
    BY <1>6, <2>3, <2>4 DEF Destroy
<1>7. ASSUME NEW t \in Tasks, StartClose(t)
      PROVE  TypeInv'
  <2>1. pool' \in Seq(Entries)
    BY <1>7, EmptySeq DEF StartClose
  <2>2. ConnTypeOK'
    BY <1>7 DEF StartClose, ConnTypeOK, CStates
  <2>3. CallTypeOK'
    BY <1>7 DEF StartClose, CallTypeOK, InCall, Points
  <2>4. closing' \in [Tasks -> SUBSET Conns]
    <3>1. PoolConns \subseteq Conns
      <4>1. \A i \in DOMAIN pool : pool[i] \in Entries
        BY LenProperties, ElementOfSeq
      <4> QED
        BY <4>1 DEF PoolConns, Entries
    <3> QED
      BY <1>7, <3>1 DEF StartClose
  <2> QED
    BY <1>7, <2>1, <2>2, <2>3, <2>4, LoopUnchangedTyped DEF StartClose
<1>8. ASSUME NEW t \in Tasks, Close(t)
      PROVE  TypeInv'
  <2>1. PICK c \in Conns : CloseResolves(t, c) \/ CloseRejects(t, c)
    BY <1>8 DEF Close
  <2>2. CASE CloseResolves(t, c)
    <3>1. pool' \in Seq(Entries) /\ CallTypeOK'
      BY <2>2, EmptySeq, SettlesTyped, CallUnchangedTyped DEF CloseResolves
    <3>2. ConnTypeOK'
      BY <2>2 DEF CloseResolves, ConnTypeOK, CStates
    <3> QED
      BY <2>2, <3>1, <3>2, LoopUnchangedTyped DEF CloseResolves
  <2>3. CASE CloseRejects(t, c)
    <3>1. ConnTypeOK'
      BY <2>3 DEF CloseRejects, ConnTypeOK, CStates
    <3> QED
      BY <2>3, <3>1, SettlesTyped, LoopUnchangedTyped DEF CloseRejects
  <2> QED
    BY <2>1, <2>2, <2>3
<1>9. ASSUME NEW c \in Conns, DetachedSettles(c)
      PROVE  TypeInv'
  <2>1. ConnTypeOK'
    BY <1>9 DEF DetachedSettles, ConnTypeOK, CStates
  <2> QED
    BY <1>9, <2>1, CallUnchangedTyped, LoopUnchangedTyped DEF DetachedSettles
<1>10. ASSUME NEW s \in Administered, NEW row \in Rows, AdminCommit(s, row)
       PROVE  TypeInv'
  <2>1. tenants' \in [Schemas -> Rows]
    BY <1>10, NamesAssumption DEF AdminCommit
  <2>2. CallTypeOK'
    BY <1>10 DEF AdminCommit, CallTypeOK, InCall
  <2> QED
    BY <1>10, <2>1, <2>2, LoopUnchangedTyped, ConnUnchangedTyped DEF AdminCommit
<1>11. CASE UNCHANGED vars
  BY <1>11, CallUnchangedTyped, LoopUnchangedTyped, ConnUnchangedTyped DEF vars
<1> QED
  BY <1>1, <1>2, <1>3, <1>4, <1>5, <1>6, <1>7, <1>8, <1>9, <1>10, <1>11 DEF Next

LEMMA Typed == Spec => []TypeInv
BY InitTyped, NextTyped, PTL DEF Spec

\* Every variable has its type in every state the pool can reach.
THEOREM TypeCorrectness == Spec => []TypeOK
<1>1. TypeInv => TypeOK
  BY DEF TypeInv, ConnTypeOK, CallTypeOK, LoopTypeOK, TypeOK
<1> QED
  BY <1>1, Typed, PTL

-----------------------------------------------------------------------------
(* Tenant isolation.  RoutedToOwnSchema is inductive with the types: a      *)
(* connection gets its schema when it is opened, at a moment when neither   *)
(* the pool nor a call refers to its identity.                              *)

\* Entries that were in the pool stay routed while no connection is reopened.
LEMMA PoolStaysRouted ==
    ASSUME TypeInv, PoolRouted, UNCHANGED cschema,
           \A i \in DOMAIN pool' : \E j \in DOMAIN pool : pool'[i] = pool[j]
    PROVE  PoolRouted'
BY DEF PoolRouted

\* Opening a connection no entry and no call refers to disturbs neither.
LEMMA OpenConnRouted ==
    ASSUME TypeInv, RoutedToOwnSchema, FreeConns # {}, NEW s \in Schemas, NEW es,
           OpenConn(FreshConn, s, es)
    PROVE  /\ \A i \in DOMAIN pool : cschema'[pool[i].conn] = pool[i].schema
           /\ \A t \in Tasks : pc[t] = "using" => cschema'[held[t]] = req[t]
           /\ cschema'[FreshConn] = s
<1>1. FreshConn \in Conns /\ ~Referenced(FreshConn)
  BY FreshConnIsConn
<1>2. \A i \in DOMAIN pool : pool[i].conn # FreshConn
  BY <1>1 DEF Referenced, PoolConns
<1>3. \A t \in Tasks : held[t] # FreshConn
  BY <1>1 DEF Referenced
<1>4. cschema' = [cschema EXCEPT ![FreshConn] = s]
  BY DEF OpenConn
<1>5. \A c : c # FreshConn => cschema'[c] = cschema[c]
  BY <1>4, <1>1 DEF TypeInv, ConnTypeOK
<1>6. cschema'[FreshConn] = s
  BY <1>4, <1>1 DEF TypeInv, ConnTypeOK
<1> QED
  BY <1>2, <1>3, <1>5, <1>6 DEF RoutedToOwnSchema, PoolRouted, CallsRouted

\* Steps that hand out no connection keep the calls routed.
LEMMA CallsStayRouted ==
    ASSUME TypeInv, CallsRouted, UNCHANGED cschema,
           \/ UNCHANGED <<pc, req, held>>
           \/ \E t \in Tasks : Settles(t)
           \/ \E t \in Tasks : \E p \in Points \ {"using"} : Awaits(t, p)
    PROVE  CallsRouted'
<1>1. CASE UNCHANGED <<pc, req, held>>
  BY <1>1 DEF CallsRouted
<1>2. ASSUME NEW t \in Tasks, Settles(t)
      PROVE  CallsRouted'
  BY <1>2 DEF CallsRouted, Settles, TypeInv, CallTypeOK
<1>3. ASSUME NEW t \in Tasks, NEW p \in Points \ {"using"}, Awaits(t, p)
      PROVE  CallsRouted'
  BY <1>3 DEF CallsRouted, Awaits, TypeInv, CallTypeOK
<1> QED
  BY <1>1, <1>2, <1>3

LEMMA NextEntryRouted ==
    ASSUME TypeInv, CallsRouted, UNCHANGED cschema, NEW t \in Tasks, NEW cs,
           NextEntry(t, cs)
    PROVE  CallsRouted'
<1>1. \/ UNCHANGED callVars
      \/ Settles(t)
      \/ Awaits(t, CreateStage(req[t]))
  BY DEF NextEntry
<1>2. CreateStage(req[t]) \in Points \ {"using"}
  BY DEF CreateStage, Points
<1> QED
  BY <1>1, <1>2, CallsStayRouted DEF callVars

LEMMA NextRouted == TypeInv /\ RoutedToOwnSchema /\ [Next]_vars => RoutedToOwnSchema'
<1> SUFFICES ASSUME TypeInv, RoutedToOwnSchema, [Next]_vars
             PROVE  RoutedToOwnSchema'
  OBVIOUS
<1> USE DEF RoutedToOwnSchema
<1>a. ASSUME UNCHANGED <<pool, cschema>>
      PROVE  PoolRouted'
  BY <1>a DEF PoolRouted
<1>1. ASSUME NEW t \in Tasks, NEW s \in Requested, StartGet(t, s)
      PROVE  RoutedToOwnSchema'
  <2>1. CallsRouted'
    BY <1>1 DEF StartGet, CallsRouted, connVars, TypeInv, CallTypeOK
  <2> QED
    BY <1>1, <1>a, <2>1 DEF StartGet, connVars
<1>2. ASSUME NEW t \in Tasks, NEW s \in Requested, StartRemove(t, s)
      PROVE  RoutedToOwnSchema'
  <2>1. CallsRouted'
    BY <1>2 DEF StartRemove, CallsRouted, TypeInv, CallTypeOK
  <2> QED
    BY <1>2, <1>a, <2>1 DEF StartRemove
<1>3. ASSUME NEW t \in Tasks, Get(t)
      PROVE  RoutedToOwnSchema'
  <2>1. CASE ReadForCheck(t)
    BY <2>1, <1>a, CallsStayRouted DEF ReadForCheck, connVars
  <2>2. CASE ReadForConfig(t)
    <3>1. CallsRouted'
      BY <2>2 DEF ReadForConfig, CallsRouted, connVars, TypeInv, CallTypeOK
    <3> QED
      BY <2>2, <1>a, <3>1 DEF ReadForConfig, connVars
  <2>3. CASE ReadFails(t)
    <3>1. CASE Validator = "remote"
      <4>1. CallsRouted'
        BY <2>3, <3>1 DEF ReadFails, CallsRouted, connVars, TypeInv, CallTypeOK
      <4> QED
        BY <2>3, <1>a, <4>1 DEF ReadFails, connVars
    <3>2. CASE Validator # "remote"
      BY <2>3, <3>2, <1>a, CallsStayRouted DEF ReadFails, connVars
    <3> QED
      BY <3>1, <3>2
  <2>4. CASE NotFound(t)
    BY <2>4, <1>a, CallsStayRouted DEF NotFound, connVars
  <2>5. CASE PoolHit(t)
    <3> DEFINE c == MapGet(pool, req[t])
    <3>1. cschema[c] = req[t]
      BY <2>5, MapGetFacts DEF PoolHit, PoolRouted, TypeInv
    <3> HIDE DEF c
    <3>2. Returns(t, c) /\ UNCHANGED <<pool, cschema>>
      BY <2>5 DEF PoolHit, connVars, c
    <3>3. CallsRouted'
      BY <3>1, <3>2 DEF Returns, CallsRouted, TypeInv, CallTypeOK
    <3> QED
      BY <1>a, <3>2, <3>3
  <2>6. CASE PoolMiss(t)
    <3>1. UNCHANGED cschema /\ pool' = MapDelete(pool, req[t])
      BY <2>6 DEF PoolMiss
    <3>2. PoolRouted'
      BY <3>1, MapDeleteFacts, PoolStaysRouted DEF TypeInv
    <3>3. Awaits(t, "evicting") \/ Awaits(t, CreateStage(req[t]))
      BY <2>6 DEF PoolMiss
    <3>4. "evicting" \in Points \ {"using"} /\ CreateStage(req[t]) \in Points \ {"using"}
      BY DEF CreateStage, Points
    <3> QED
      BY <3>1, <3>2, <3>3, <3>4, CallsStayRouted
  <2>7. CASE CreateSucceeds(t)
    <3>1. /\ FreeConns # {} /\ pc[t] = "creating"
          /\ OpenConn(FreshConn, req[t], EntitiesFor(req[t], answer[t]))
          /\ pool' = MapSet(pool, req[t], FreshConn)
          /\ Returns(t, FreshConn)
      BY <2>7 DEF CreateSucceeds
    <3>2. FreshConn \in Conns /\ req[t] \in Schemas
      BY <3>1, FreshConnIsConn DEF TypeInv, CallTypeOK, InCall
    <3>3. /\ \A i \in DOMAIN pool : cschema'[pool[i].conn] = pool[i].schema
          /\ \A u \in Tasks : pc[u] = "using" => cschema'[held[u]] = req[u]
          /\ cschema'[FreshConn] = req[t]
      BY <3>1, <3>2, OpenConnRouted
    <3>4. PoolRouted'
      BY <3>1, <3>2, <3>3, MapSetFacts DEF PoolRouted, TypeInv
    <3>5. CallsRouted'
      BY <3>1, <3>3 DEF CallsRouted, Returns, TypeInv, CallTypeOK
    <3> QED
      BY <3>4, <3>5
  <2>8. CASE CreateFails(t)
    <3>1. CASE UNCHANGED connVars
      BY <2>8, <3>1, <1>a, CallsStayRouted DEF CreateFails, connVars
    <3>2. CASE FreeConns # {} /\ OpenConn(FreshConn, req[t], AllEntities)
      <4>1. req[t] \in Schemas
        BY <2>8 DEF CreateFails, TypeInv, CallTypeOK, InCall
      <4>2. /\ \A i \in DOMAIN pool : cschema'[pool[i].conn] = pool[i].schema
            /\ \A u \in Tasks : pc[u] = "using" => cschema'[held[u]] = req[u]
        BY <3>2, <4>1, OpenConnRouted
      <4>3. pool' = pool /\ Settles(t)
        BY <2>8 DEF CreateFails
      <4>4. CallsRouted'
        BY <4>2, <4>3 DEF CallsRouted, Settles, TypeInv, CallTypeOK
      <4> QED
        BY <4>2, <4>3, <4>4 DEF PoolRouted
    <3> QED
      BY <2>8, <3>1, <3>2 DEF CreateFails, DrizzleLeaves
  <2> QED
    BY <1>3, <2>1, <2>2, <2>3, <2>4, <2>5, <2>6, <2>7, <2>8 DEF Get
<1>4. ASSUME NEW t \in Tasks, Release(t)
      PROVE  RoutedToOwnSchema'
  BY <1>4, <1>a, CallsStayRouted DEF Release, connVars
<1>5. ASSUME NEW t \in Tasks, SweepTick(t)
      PROVE  RoutedToOwnSchema'
  <2>1. CallsRouted'
    BY <1>5 DEF SweepTick, CallsRouted, TypeInv, CallTypeOK
  <2> QED
    BY <1>5, <1>a, <2>1 DEF SweepTick
<1>6. ASSUME NEW t \in Tasks, Destroy(t)
      PROVE  RoutedToOwnSchema'
  <2>1. UNCHANGED cschema /\ \E cs : NextEntry(t, cs)
    BY <1>6 DEF Destroy, DestroyResolves, DestroyRejects
  <2>2. CallsRouted'
    BY <2>1, NextEntryRouted
  <2>3. \/ pool' = pool
        \/ pool' = MapDelete(pool, Head(todo[t]).schema)
    BY <1>6 DEF Destroy, DestroyResolves, DestroyRejects
  <2>4. PoolRouted'
    BY <2>1, <2>3, <1>a, MapDeleteFacts, PoolStaysRouted DEF TypeInv
  <2> QED
    BY <2>2, <2>4
<1>7. ASSUME NEW t \in Tasks, StartClose(t)
      PROVE  RoutedToOwnSchema'
  <2>1. UNCHANGED cschema /\ pool' \in {pool, <<>>}
    BY <1>7 DEF StartClose
  <2>2. PoolRouted'
    BY <2>1 DEF PoolRouted
  <2>3. CallsRouted'
    BY <1>7 DEF StartClose, CallsRouted, TypeInv, CallTypeOK
  <2> QED
    BY <2>2, <2>3
<1>8. ASSUME NEW t \in Tasks, Close(t)
      PROVE  RoutedToOwnSchema'
  <2>1. /\ UNCHANGED cschema
        /\ pool' \in {pool, <<>>}
        /\ Settles(t) \/ UNCHANGED callVars
    BY <1>8 DEF Close, CloseResolves, CloseRejects
  <2>2. PoolRouted'
    BY <2>1 DEF PoolRouted
  <2> QED
    BY <2>1, <2>2, CallsStayRouted DEF callVars
<1>9. ASSUME NEW c \in Conns, DetachedSettles(c)
      PROVE  RoutedToOwnSchema'
  BY <1>9, <1>a, CallsStayRouted DEF DetachedSettles, callVars
<1>10. ASSUME NEW s \in Administered, NEW row \in Rows, AdminCommit(s, row)
       PROVE  RoutedToOwnSchema'
  BY <1>10, <1>a, CallsStayRouted DEF AdminCommit, connVars
<1>11. CASE UNCHANGED vars
  BY <1>11, <1>a, CallsStayRouted DEF vars, connVars, callVars
<1> QED
  BY <1>1, <1>2, <1>3, <1>4, <1>5, <1>6, <1>7, <1>8, <1>9, <1>10, <1>11 DEF Next

\* No call is ever handed a connection opened for another schema, for any
\* number of overlapping calls, connections and any limit of the pool.
THEOREM Isolation == Spec => []RoutedToOwnSchema
<1>1. Init => RoutedToOwnSchema
  BY DEF Init, RoutedToOwnSchema, PoolRouted, CallsRouted
<1> QED
  BY <1>1, Typed, NextRouted, PTL DEF Spec

-----------------------------------------------------------------------------
(* Admission.  The inductive invariant follows a call from its start: the   *)
(* tenant's present row is always among those it has seen, an answer that   *)
(* admits it is one of them, and from the admission on one of them was      *)
(* there.  Between two calls no answer is left over.                        *)

WasThere(t) == \E row \in seen[t] : row # Absent

AdmissionInv ==
    \A t \in Tasks :
       /\ ~InCall(t) => answer[t] = NoAnswer
       /\ InCall(t) => tenants[req[t]] \in seen[t]
       /\ pc[t] = "checking" /\ answer[t] \notin {NoAnswer, Absent} => WasThere(t)
       /\ InCall(t) /\ pc[t] # "checking" /\ Validates(req[t]) => WasThere(t)

\* What a step of one call must keep to preserve the invariant.
LEMMA AdmissionFrame ==
    ASSUME TypeInv, AdmissionInv, UNCHANGED tenants, NEW t \in Tasks,
           \A u \in Tasks \ {t} : /\ pc'[u] = pc[u] /\ req'[u] = req[u]
                                   /\ answer'[u] = answer[u] /\ seen'[u] = seen[u],
           ~InCall(t)' => answer'[t] = NoAnswer,
           InCall(t)' => tenants[req'[t]] \in seen'[t],
           pc'[t] = "checking" /\ answer'[t] \notin {NoAnswer, Absent} => WasThere(t)',
           InCall(t)' /\ pc'[t] # "checking" /\ Validates(req'[t]) => WasThere(t)'
    PROVE  AdmissionInv'
BY DEF AdmissionInv, InCall, WasThere, Validates

LEMMA SettlesAdmission ==
    ASSUME TypeInv, AdmissionInv, UNCHANGED tenants, NEW t \in Tasks, Settles(t)
    PROVE  AdmissionInv'
<1>1. pc'[t] = "idle" /\ answer'[t] = NoAnswer
  BY DEF Settles, TypeInv, CallTypeOK
<1>2. \A u \in Tasks \ {t} : /\ pc'[u] = pc[u] /\ req'[u] = req[u]
                              /\ answer'[u] = answer[u] /\ seen'[u] = seen[u]
  BY DEF Settles, TypeInv, CallTypeOK
<1> QED
  BY <1>1, <1>2, AdmissionFrame DEF InCall

\* An admitted call may go on waiting or return.
LEMMA GoesOnAdmission ==
    ASSUME TypeInv, AdmissionInv, UNCHANGED tenants, NEW t \in Tasks, InCall(t),
           Validates(req[t]) => WasThere(t),
           \/ \E p \in Points \ {"checking"} : Awaits(t, p)
           \/ \E c \in Conns : Returns(t, c)
    PROVE  AdmissionInv'
<1>1. /\ pc'[t] # "checking" /\ answer'[t] = NoAnswer /\ req' = req /\ seen' = seen
      /\ \A u \in Tasks \ {t} : pc'[u] = pc[u] /\ answer'[u] = answer[u]
  BY DEF Awaits, Returns, TypeInv, CallTypeOK
<1>2. tenants[req[t]] \in seen[t]
  BY DEF AdmissionInv
<1> QED
  BY <1>1, <1>2, AdmissionFrame DEF WasThere, Validates

\* A call that reaches the pool has been admitted.
LEMMA AdmittedWasThere ==
    ASSUME AdmissionInv, NEW t \in Tasks, Admitted(t)
    PROVE  InCall(t) /\ (Validates(req[t]) => WasThere(t))
BY DEF AdmissionInv, Admitted, InCall

LEMMA CallUnchangedAdmission ==
    ASSUME AdmissionInv, UNCHANGED <<tenants, callVars>>
    PROVE  AdmissionInv'
BY DEF AdmissionInv, callVars, InCall, WasThere, Validates

\* A step of a task that is in no call before and after keeps the invariant.
LEMMA OutsideCallAdmission ==
    ASSUME TypeInv, AdmissionInv, NEW t \in Tasks, ~InCall(t), ~InCall(t)',
           \A u \in Tasks \ {t} : pc'[u] = pc[u] /\ req'[u] = req[u],
           UNCHANGED <<tenants, answer, seen>>
    PROVE  AdmissionInv'
<1>1. answer'[t] = NoAnswer
  BY DEF AdmissionInv
<1> QED
  BY <1>1, AdmissionFrame DEF InCall

LEMMA NextEntryAdmission ==
    ASSUME TypeInv, AdmissionInv, UNCHANGED tenants, NEW t \in Tasks, NEW cs,
           NextEntry(t, cs)
    PROVE  AdmissionInv'
<1>1. CASE UNCHANGED callVars
  BY <1>1, CallUnchangedAdmission
<1>2. CASE Settles(t)
  BY <1>2, SettlesAdmission
<1>3. CASE pc[t] = "evicting" /\ Awaits(t, CreateStage(req[t]))
  <2>1. CreateStage(req[t]) \in Points \ {"checking"}
    BY DEF CreateStage, Points
  <2>2. InCall(t) /\ (Validates(req[t]) => WasThere(t))
    BY <1>3 DEF InCall, AdmissionInv
  <2> QED
    BY <1>3, <2>1, <2>2, GoesOnAdmission
<1> QED
  BY <1>1, <1>2, <1>3 DEF NextEntry

LEMMA NextAdmission == TypeInv /\ AdmissionInv /\ [Next]_vars => AdmissionInv'
<1> SUFFICES ASSUME TypeInv, AdmissionInv, [Next]_vars
             PROVE  AdmissionInv'
  OBVIOUS
<1>1. ASSUME NEW t \in Tasks, NEW s \in Requested, StartGet(t, s)
      PROVE  AdmissionInv'
  <2>1. /\ UNCHANGED <<tenants, answer>>
        /\ pc[t] = "idle"
        /\ pc'[t] = "checking" /\ req'[t] = s /\ seen'[t] = {tenants[s]}
        /\ \A u \in Tasks \ {t} : /\ pc'[u] = pc[u] /\ req'[u] = req[u]
                                 /\ answer'[u] = answer[u] /\ seen'[u] = seen[u]
    BY <1>1 DEF StartGet, MayStart, TypeInv, CallTypeOK
  <2>2. answer'[t] = NoAnswer
    BY <2>1 DEF AdmissionInv, InCall
  <2> QED
    BY <2>1, <2>2, AdmissionFrame DEF InCall
<1>2. ASSUME NEW t \in Tasks, NEW s \in Requested, StartRemove(t, s)
      PROVE  AdmissionInv'
  <2>1. /\ pc[t] = "idle" /\ pc'[t] = "removing"
        /\ \A u \in Tasks \ {t} : pc'[u] = pc[u] /\ req'[u] = req[u]
        /\ UNCHANGED <<tenants, answer, seen>>
    BY <1>2 DEF StartRemove, MayStart, TypeInv, CallTypeOK
  <2> QED
    BY <2>1, OutsideCallAdmission DEF InCall
<1>3. ASSUME NEW t \in Tasks, Get(t)
      PROVE  AdmissionInv'
  <2>1. CASE ReadForCheck(t)
    <3>1. /\ UNCHANGED <<tenants, pc, req, seen>>
          /\ pc[t] = "checking"
          /\ answer'[t] = tenants[req[t]]
          /\ \A u \in Tasks \ {t} : answer'[u] = answer[u]
      BY <2>1 DEF ReadForCheck, TypeInv, CallTypeOK
    <3>2. tenants[req[t]] \in seen[t]
      BY <3>1 DEF AdmissionInv, InCall
    <3> QED
      BY <3>1, <3>2, AdmissionFrame DEF InCall, WasThere
  <2>2. CASE ReadForConfig(t)
    <3>1. /\ UNCHANGED <<tenants, req, seen>>
          /\ pc[t] = "loading" /\ pc'[t] = "creating"
          /\ \A u \in Tasks \ {t} : pc'[u] = pc[u] /\ answer'[u] = answer[u]
      BY <2>2 DEF ReadForConfig, TypeInv, CallTypeOK
    <3>2. tenants[req[t]] \in seen[t] /\ (Validates(req[t]) => WasThere(t))
      BY <3>1 DEF AdmissionInv, InCall
    <3> QED
      BY <3>1, <3>2, AdmissionFrame DEF InCall, WasThere, Validates
  <2>3. CASE ReadFails(t)
    <3>1. CASE Validator = "remote"
      <4>1. /\ UNCHANGED <<tenants, req, seen>>
            /\ answer'[t] = Absent
            /\ \/ pc[t] = "checking" /\ pc'[t] = "checking"
               \/ pc[t] = "loading" /\ pc'[t] = "creating"
            /\ \A u \in Tasks \ {t} : pc'[u] = pc[u] /\ answer'[u] = answer[u]
        BY <2>3, <3>1 DEF ReadFails, TypeInv, CallTypeOK
      <4>2. /\ tenants[req[t]] \in seen[t]
            /\ pc[t] = "loading" /\ Validates(req[t]) => WasThere(t)
        BY <4>1 DEF AdmissionInv, InCall
      <4> QED
        BY <4>1, <4>2, AdmissionFrame DEF InCall, WasThere, Validates
    <3>2. CASE Validator # "remote"
      BY <2>3, <3>2, SettlesAdmission DEF ReadFails
    <3> QED
      BY <3>1, <3>2
  <2>4. CASE NotFound(t)
    BY <2>4, SettlesAdmission DEF NotFound
  <2>5. CASE PoolHit(t)
    <3>1. Admitted(t) /\ MapGet(pool, req[t]) \in Conns /\ UNCHANGED tenants
      BY <2>5, MapGetFacts DEF PoolHit, TypeInv
    <3> QED
      BY <2>5, <3>1, AdmittedWasThere, GoesOnAdmission DEF PoolHit
  <2>6. CASE PoolMiss(t)
    <3>1. Admitted(t) /\ UNCHANGED tenants
      BY <2>6 DEF PoolMiss
    <3>2. \E p \in Points \ {"checking"} : Awaits(t, p)
      BY <2>6 DEF PoolMiss, CreateStage, Points
    <3> QED
      BY <3>1, <3>2, AdmittedWasThere, GoesOnAdmission
  <2>7. CASE CreateSucceeds(t)
    <3>1. /\ pc[t] = "creating" /\ Returns(t, FreshConn) /\ UNCHANGED tenants
          /\ FreshConn \in Conns
      BY <2>7, FreshConnIsConn DEF CreateSucceeds
    <3>2. InCall(t) /\ (Validates(req[t]) => WasThere(t))
      BY <3>1 DEF InCall, AdmissionInv
    <3> QED
      BY <3>1, <3>2, GoesOnAdmission
  <2>8. CASE CreateFails(t)
    BY <2>8, SettlesAdmission DEF CreateFails
  <2> QED
    BY <1>3, <2>1, <2>2, <2>3, <2>4, <2>5, <2>6, <2>7, <2>8 DEF Get
<1>4. ASSUME NEW t \in Tasks, Release(t)
      PROVE  AdmissionInv'
  BY <1>4, SettlesAdmission DEF Release
<1>5. ASSUME NEW t \in Tasks, SweepTick(t)
      PROVE  AdmissionInv'
  <2>1. /\ pc[t] = "idle" /\ pc'[t] = "sweeping"
        /\ \A u \in Tasks \ {t} : pc'[u] = pc[u] /\ req'[u] = req[u]
        /\ UNCHANGED <<tenants, answer, seen>>
    BY <1>5 DEF SweepTick, TypeInv, CallTypeOK
  <2> QED
    BY <2>1, OutsideCallAdmission DEF InCall
<1>6. ASSUME NEW t \in Tasks, Destroy(t)
      PROVE  AdmissionInv'
  <2>1. UNCHANGED tenants /\ \E cs : NextEntry(t, cs)
    BY <1>6 DEF Destroy, DestroyResolves, DestroyRejects
  <2> QED
    BY <2>1, NextEntryAdmission
<1>7. ASSUME NEW t \in Tasks, StartClose(t)
      PROVE  AdmissionInv'
  <2>1. /\ pc[t] = "idle" /\ pc'[t] \in {"idle", "closing"}
        /\ \A u \in Tasks \ {t} : pc'[u] = pc[u] /\ req'[u] = req[u]
        /\ UNCHANGED <<tenants, answer, seen>>
    BY <1>7 DEF StartClose, TypeInv, CallTypeOK
  <2> QED
    BY <2>1, OutsideCallAdmission DEF InCall
<1>8. ASSUME NEW t \in Tasks, Close(t)
      PROVE  AdmissionInv'
  <2>1. UNCHANGED tenants /\ (Settles(t) \/ UNCHANGED callVars)
    BY <1>8 DEF Close, CloseResolves, CloseRejects
  <2> QED
    BY <2>1, SettlesAdmission, CallUnchangedAdmission
<1>9. ASSUME NEW c \in Conns, DetachedSettles(c)
      PROVE  AdmissionInv'
  BY <1>9, CallUnchangedAdmission DEF DetachedSettles
<1>10. ASSUME NEW s \in Administered, NEW row \in Rows, AdminCommit(s, row)
       PROVE  AdmissionInv'
  <2>1. UNCHANGED <<pc, req, answer>>
    BY <1>10 DEF AdminCommit
  <2>2. ASSUME NEW t \in Tasks
        PROVE  seen[t] \subseteq seen'[t]
    BY <1>10 DEF AdminCommit
  <2>3. ASSUME NEW t \in Tasks, InCall(t)
        PROVE  tenants'[req[t]] \in seen'[t]
    <3>1. req[t] \in Schemas /\ pc[t] \notin {"idle", "removing"}
      BY <2>3 DEF TypeInv, CallTypeOK, InCall
    <3>2. tenants' = [tenants EXCEPT ![s] = row] /\ tenants[req[t]] \in seen[t]
      BY <1>10, <2>3 DEF AdminCommit, AdmissionInv
    <3>3. CASE req[t] = s
      <4>1. row \in seen'[t]
        BY <1>10, <3>1, <3>3 DEF AdminCommit
      <4> QED
        BY <3>1, <3>2, <3>3, <4>1 DEF TypeInv
    <3>4. CASE req[t] # s
      BY <2>2, <3>1, <3>2, <3>4 DEF TypeInv
    <3> QED
      BY <3>3, <3>4
  <2> QED
    BY <2>1, <2>2, <2>3 DEF AdmissionInv, InCall, WasThere, Validates
<1>11. CASE UNCHANGED vars
  BY <1>11, CallUnchangedAdmission DEF vars
<1> QED
  BY <1>1, <1>2, <1>3, <1>4, <1>5, <1>6, <1>7, <1>8, <1>9, <1>10, <1>11 DEF Next

\* A call for a schema that needs validation is served only if its tenant was
\* there at some moment of the call, whatever the pool still holds of it.
THEOREM Admission == Spec => []ServedOnlyIfExisted
<1>1. Init => AdmissionInv
  BY DEF Init, AdmissionInv, InCall
<1>2. AdmissionInv => ServedOnlyIfExisted
  BY DEF AdmissionInv, ServedOnlyIfExisted, InCall, WasThere
<1> QED
  BY <1>1, <1>2, Typed, NextAdmission, PTL DEF Spec
=============================================================================
