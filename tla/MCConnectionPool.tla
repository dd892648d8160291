-------------------------- MODULE MCConnectionPool --------------------------
(***************************************************************************)
(* Instances of ConnectionPool for TLC.                                    *)
(*                                                                         *)
(* WarmSpec starts from a full pool, the state after MaxConnections calls  *)
(* of getConnectionForSchema: connection i is the one of the i-th call.    *)
(* Only the pooled "hot1" and the unpooled "hot3" are asked for from then  *)
(* on, so that evictions and sweeps happen at limits where the code's      *)
(* batch of 10% of the pool is not empty: 10 for a batch of one, 20 for a  *)
(* batch of two.                                                           *)
(***************************************************************************)
EXTENDS ConnectionPool, TLC

TaskSymmetry == Permutations(Tasks)

\* The keys of the full pool in insertion order.
WarmOrder ==
    SubSeq(<<"hot1", "hot2", "cold1", "cold2", "cold3", "cold4", "cold5", "cold6",
             "cold7", "cold8", "cold9", "cold10", "cold11", "cold12", "cold13",
             "cold14", "cold15", "cold16", "cold17", "cold18">>,
           1, MaxConnections)

WarmPool == [i \in 1..Len(WarmOrder) |-> [schema |-> WarmOrder[i], conn |-> i]]

IsWarm(c) == c \in DOMAIN WarmPool

WarmEntities == IF OrmType = "drizzle" THEN AllEntities ELSE DefaultConfig

WarmInit ==
    /\ pool = WarmPool
    /\ timer = EnableCleanup
    /\ cstate = [c \in Conns |-> IF IsWarm(c) THEN "open" ELSE "unused"]
    /\ cschema = [c \in Conns |-> IF IsWarm(c) THEN WarmOrder[c] ELSE NoSchema]
    /\ cents = [c \in Conns |-> IF IsWarm(c) THEN WarmEntities ELSE AllEntities]
    /\ tenants = [s \in Schemas |-> NoConfig]
    /\ pc = [t \in Tasks |-> "idle"]
    /\ req = [t \in Tasks |-> NoSchema]
    /\ answer = [t \in Tasks |-> NoAnswer]
    /\ todo = [t \in Tasks |-> <<>>]
    /\ outcome = [t \in Tasks |-> "none"]
    /\ closing = [t \in Tasks |-> {}]
    /\ held = [t \in Tasks |-> NoConn]
    /\ seen = [t \in Tasks |-> {}]

WarmSpec == WarmInit /\ [][Next]_vars

WarmFairSpec == WarmSpec /\ Fairness
=============================================================================
