---------------------------- MODULE TenantNaming ----------------------------
(***************************************************************************)
(* How a tenant id becomes the name of a PostgreSQL schema, in the four    *)
(* places that do it: the request's context, the factories of the          *)
(* providers, the admin services and the customer's own strategy.          *)
(*                                                                         *)
(* An id is a sequence of characters.  Of a character the code tells apart *)
(* only what it is to /[^a-z0-9]/ and to toLowerCase.  A schema name is    *)
(* the id it is built from and whether 'tenant_' was put before it.        *)
(***************************************************************************)
EXTENDS Naturals, Sequences

CONSTANTS
    Lowers,      \* [a-z0-9]
    Uppers,      \* [A-Z]
    LowerOf,     \* toLowerCase
    Others,      \* every other character but '_'
    Underscore,
    DefaultId    \* the id 'default'

ASSUME CharsAssumption ==
    /\ LowerOf \in [Uppers -> Lowers]
    /\ Uppers \cap Lowers = {}
    /\ Underscore \notin Lowers \cup Uppers
    /\ Others \cap (Lowers \cup Uppers \cup {Underscore}) = {}

ASSUME DefaultAssumption == DefaultId \in Seq(Lowers)

Chars == Lowers \cup Uppers \cup Others \cup {Underscore}

\* What REGEX_TENANT_NAME lets through.
IsCode(id) == id \in Seq(Lowers \cup {Underscore}) /\ id # <<>>

Prefixed(id) == [id |-> id, prefixed |-> TRUE]
Bare(id) == [id |-> id, prefixed |-> FALSE]

SanitizeChar(c) ==
    CASE c \in Lowers -> c
      [] c \in Uppers -> LowerOf[c]
      [] OTHER -> Underscore

\* tenantId.toLowerCase().replaceAll(/[^a-z0-9]/g, '_')
Sanitize(id) == [i \in 1..Len(id) |-> SanitizeChar(id[i])]

\* The default strategy: the schema of a request's context.
SchemaNamingStrategy(id) ==
    IF id = DefaultId THEN Bare(id) ELSE Prefixed(Sanitize(id))

\* The schema a repository or database factory opens for an id.
FactorySchema(id) == Prefixed(id)

\* The code, and with it the schema, a tenant is created with.
AdminSchema(code) == Prefixed(code)
=============================================================================
