--------------------------- MODULE TenantRouting ---------------------------
(***************************************************************************)
(* What the connection service promises its callers, whatever it pools,    *)
(* evicts or destroys on the way: a call for a schema ends in a connection *)
(* of that schema or in nothing, and a schema that belongs to a tenant is  *)
(* only served when the tenant existed at some moment of the call.         *)
(***************************************************************************)
CONSTANTS
    Calls,     \* calls alive at once
    Schemas,   \* schema names
    Checked,   \* the schemas that are served to existing tenants only
    NoSchema

VARIABLES
    live,      \* the schemas whose tenant exists
    asked,     \* the schema each call asks for
    met,       \* the call's tenant existed at some moment since it asked
    served     \* the schema of the connection the call was given

vars == <<live, asked, met, served>>

Init ==
    /\ live \subseteq Schemas
    /\ asked = [t \in Calls |-> NoSchema]
    /\ met = [t \in Calls |-> FALSE]
    /\ served = [t \in Calls |-> NoSchema]

Ask(t, s) ==
    /\ asked[t] = NoSchema
    /\ asked' = [asked EXCEPT ![t] = s]
    /\ met' = [met EXCEPT ![t] = s \in live]
    /\ UNCHANGED <<live, served>>

Serve(t) ==
    /\ asked[t] # NoSchema
    /\ served[t] = NoSchema
    /\ asked[t] \in Checked => met[t]
    /\ served' = [served EXCEPT ![t] = asked[t]]
    /\ UNCHANGED <<live, asked, met>>

\* The call rejects, or the caller is done with what it was given.
Leave(t) ==
    /\ asked[t] # NoSchema
    /\ asked' = [asked EXCEPT ![t] = NoSchema]
    /\ met' = [met EXCEPT ![t] = FALSE]
    /\ served' = [served EXCEPT ![t] = NoSchema]
    /\ UNCHANGED live

\* A tenant comes or goes.
Change(s) ==
    /\ live' \in {live \cup {s}, live \ {s}}
    /\ met' = [t \in Calls |-> met[t] \/ (asked[t] = s /\ s \in live')]
    /\ UNCHANGED <<asked, served>>

Next ==
    \/ \E t \in Calls : (\E s \in Schemas : Ask(t, s)) \/ Serve(t) \/ Leave(t)
    \/ \E s \in Schemas : Change(s)

Spec == Init /\ [][Next]_vars
=============================================================================
