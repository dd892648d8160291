-------------------------- MODULE TenantResolution --------------------------
(***************************************************************************)
(* Which tenant id the Express and the Fastify middleware read from a      *)
(* request, and what they put into the request's context.                  *)
(*                                                                         *)
(* A text is a sequence of the characters of TenantNaming; the empty one   *)
(* is falsy.  A request is                                                 *)
(*   headers  the text of each header, or Undefined                        *)
(*   host     the labels of the Host header, or Undefined                  *)
(*   token    the Authorization header, or Undefined: whether it starts    *)
(*            with 'Bearer ', its parts between dots and the claims of the *)
(*            payload (Undefined when it is no JSON, or null)              *)
(*   answers  what the application's custom resolver does with the whole   *)
(*            request and with the few members Fastify's adapter hands on  *)
(***************************************************************************)
EXTENDS TenantNaming, FiniteSets, FiniteSetsExt

CONSTANTS
    Undefined,   \* JavaScript's undefined, and null
    NotText,     \* a claim that is no string
    Throws,      \* the resolver throws or rejects
    Blank        \* a character that trim removes

ASSUME BlankAssumption == Blank \in Others

\* text?.trim() || undefined
Trimmed(text) ==
    LET kept == IF text = Undefined THEN {} ELSE {i \in DOMAIN text : text[i] # Blank}
    IN  IF kept = {} THEN Undefined ELSE SubSeq(text, Min(kept), Max(kept))

\* value || other
OrElse(value, other) == IF value \in {Undefined, <<>>} THEN other ELSE value

\* The name of the header or the claim.
Named(name, other) == IF name = Undefined THEN other ELSE name

FromHeader(m, c) == Trimmed(m.headers[Named(c.headerName, "x-tenant-id")])

\* The first label of host.split('.').slice(0, -2)
FromSubdomain(m) ==
    IF m.host = Undefined \/ Len(m.host) <= 2 THEN Undefined ELSE Trimmed(Head(m.host))

\* decodeJWTPayload: nothing is verified but the shape.
Claims(m) ==
    IF m.token = Undefined \/ ~m.token.bearer \/ m.token.parts # 3
    THEN Undefined ELSE m.token.claims

\* A claim that has no trim() throws inside the resolver's own try.
FromJWT(m, c) ==
    LET claims == Claims(m)
        claim  == IF claims = Undefined THEN Undefined
                  ELSE claims[Named(c.jwtClaimName, "tenantId")]
    IN  IF claim = NotText THEN Undefined ELSE Trimmed(claim)

\* What a custom resolver answers is taken as it is.
FromCustom(answer, c) == IF c.customResolver THEN answer ELSE Undefined

FromRequest(m, c, answer) ==
    CASE c.strategy = "header" -> FromHeader(m, c)
      [] c.strategy = "subdomain" -> FromSubdomain(m)
      [] c.strategy = "jwt" -> FromJWT(m, c)
      [] c.strategy = "custom" -> FromCustom(answer, c)
      [] OTHER -> Undefined

\* TenantResolverMiddleware.resolveTenantId
ExpressTenant(m, c) == FromRequest(m, c, m.answers.whole)

\* TenantFastifyMiddleware.resolveTenantId, whose resolvers repeat Express's,
\* but for the request that a custom resolver gets.
FastifyTenant(m, c) == FromRequest(m, c, m.answers.adapted)

\* MultiTenantConfigService.getTenantResolutionConfig
ResolutionConfig(c) ==
    IF c # Undefined THEN c
    ELSE [strategy |-> "header", headerName |-> "x-tenant-id", jwtClaimName |-> Undefined,
          customResolver |-> FALSE, defaultTenant |-> DefaultId]

\* The middleware's use(): the default tenant stands in for none, but an error
\* leaves the request without a tenant.
FinalTenant(id, c) ==
    IF id = Throws THEN Undefined ELSE OrElse(OrElse(id, c.defaultTenant), Undefined)

\* The id that goes into the context, on each platform.
ResolvedTenant(platform, m, config) ==
    LET c == ResolutionConfig(config)
    IN  FinalTenant(IF platform = "fastify" THEN FastifyTenant(m, c) ELSE ExpressTenant(m, c), c)
=============================================================================
