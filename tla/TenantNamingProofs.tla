------------------------- MODULE TenantNamingProofs -------------------------
(***************************************************************************)
(* Where the four ways to name a tenant's schema agree, for ids of any     *)
(* length over any characters.                                             *)
(***************************************************************************)
EXTENDS TenantNaming, TLAPS

CodeChars == Lowers \cup {Underscore}

LEMMA SanitizeCharType == \A c \in Chars : SanitizeChar(c) \in CodeChars
BY CharsAssumption DEF Chars, SanitizeChar, CodeChars

LEMMA SanitizeCharKeeps == \A c \in CodeChars : SanitizeChar(c) = c
BY CharsAssumption DEF SanitizeChar, CodeChars

\* What the default strategy makes of an id, whatever a request carries, has
\* the characters REGEX_TENANT_NAME lets through, one for each.
THEOREM SanitizedIsCode ==
    ASSUME NEW id \in Seq(Chars)
    PROVE  Sanitize(id) \in Seq(CodeChars) /\ Len(Sanitize(id)) = Len(id)
<1>1. \A i \in 1..Len(id) : SanitizeChar(id[i]) \in CodeChars
  <2> TAKE i \in 1..Len(id)
  <2>1. id[i] \in Chars
    OBVIOUS
  <2> QED
    BY <2>1, SanitizeCharType
<1>2. Len(id) \in Nat
  OBVIOUS
<1>3. Sanitize(id) \in [1..Len(id) -> CodeChars]
  BY <1>1 DEF Sanitize
<1> QED
  BY <1>2, <1>3

LEMMA SanitizeKeepsCodes ==
    ASSUME NEW id \in Seq(CodeChars)
    PROVE  Sanitize(id) = id
<1>1. \A i \in 1..Len(id) : SanitizeChar(id[i]) = id[i]
  <2> TAKE i \in 1..Len(id)
  <2>1. id[i] \in CodeChars
    OBVIOUS
  <2> QED
    BY <2>1, SanitizeCharKeeps
<1>2. Sanitize(id) = [i \in 1..Len(id) |-> id[i]]
  BY <1>1 DEF Sanitize
<1> QED
  BY <1>2

\* For a code other than 'default' the request's context, the factories and
\* the admin services name the same schema.
THEOREM CodesNameOneSchema ==
    ASSUME NEW id, IsCode(id), id # DefaultId
    PROVE  /\ SchemaNamingStrategy(id) = AdminSchema(id)
           /\ FactorySchema(id) = AdminSchema(id)
<1>1. Sanitize(id) = id
  BY SanitizeKeepsCodes DEF IsCode, CodeChars
<1> QED
  BY <1>1 DEF SchemaNamingStrategy, AdminSchema, FactorySchema

\* Two codes never share a schema.
THEOREM CodesKeepApart ==
    ASSUME NEW id1, NEW id2, IsCode(id1), IsCode(id2),
           SchemaNamingStrategy(id1) = SchemaNamingStrategy(id2)
    PROVE  id1 = id2
<1>1. Sanitize(id1) = id1 /\ Sanitize(id2) = id2
  BY SanitizeKeepsCodes DEF IsCode, CodeChars
<1>2. /\ SchemaNamingStrategy(id1).id = id1
      /\ SchemaNamingStrategy(id2).id = id2
  BY <1>1 DEF SchemaNamingStrategy, Bare, Prefixed
<1> QED
  BY <1>2

\* The schema a code 'default' is created with is not the one requests of
\* 'default' are routed to.
THEOREM DefaultNamesTwoSchemas == AdminSchema(DefaultId) # SchemaNamingStrategy(DefaultId)
<1>1. /\ AdminSchema(DefaultId).prefixed = TRUE
      /\ SchemaNamingStrategy(DefaultId).prefixed = FALSE
  BY DEF AdminSchema, SchemaNamingStrategy, Bare, Prefixed
<1> QED
  BY <1>1

\* Ids that are no codes share the schema of a code: a request of one is routed
\* to the other's tenant.
THEOREM OthersCollide ==
    ASSUME NEW id \in Seq(Chars), id # DefaultId, Sanitize(id) # DefaultId
    PROVE  SchemaNamingStrategy(id) = SchemaNamingStrategy(Sanitize(id))
<1>1. Sanitize(id) \in Seq(CodeChars)
  BY SanitizedIsCode
<1>2. Sanitize(Sanitize(id)) = Sanitize(id)
  BY <1>1, SanitizeKeepsCodes
<1> QED
  BY <1>2 DEF SchemaNamingStrategy
=============================================================================
