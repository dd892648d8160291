-------------------------- MODULE TenantDirectory --------------------------
(***************************************************************************)
(* What the admin services promise about the tenants, as the rest of the   *)
(* library sees them through validateTenantExists and findByCode: a code   *)
(* is never used, then names a tenant with a configuration, then is gone   *)
(* for good.                                                               *)
(***************************************************************************)
CONSTANTS
    Codes,     \* tenant codes, which are the schema names
    Configs,   \* values of a tenant's entityConfig
    Never,     \* no tenant has had the code
    Gone       \* the code's tenant was removed or deactivated

VARIABLE directory

Init == directory = [c \in Codes |-> Never]

Provision(c, k) ==
    /\ directory[c] = Never
    /\ directory' = [directory EXCEPT ![c] = k]

Reconfigure(c, k) ==
    /\ directory[c] \in Configs
    /\ directory' = [directory EXCEPT ![c] = k]

Retire(c) ==
    /\ directory[c] \in Configs
    /\ directory' = [directory EXCEPT ![c] = Gone]

Next ==
    \E c \in Codes :
        \/ \E k \in Configs : Provision(c, k) \/ Reconfigure(c, k)
        \/ Retire(c)

Spec == Init /\ [][Next]_directory

\* The weaker promise ConnectionPool's environment relies on: a step changes
\* one tenant, in whatever way.
Change(c) == \E v \in Configs \cup {Never, Gone} : directory' = [directory EXCEPT ![c] = v]

LooseSpec == Init /\ [][\E c \in Codes : Change(c)]_directory
=============================================================================
