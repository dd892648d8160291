--------------------------- MODULE MCRequestScope ---------------------------
(***************************************************************************)
(* Instances of RequestScope for TLC: what two requests may carry, and the *)
(* options of applications that start, that do not, and that start without *)
(* validating.                                                             *)
(***************************************************************************)
EXTENDS RequestScope

MCLowers == {"a", "b", "d"}
MCUppers == {"A"}
MCLowerOf == [c \in MCUppers |-> "a"]
MCOthers == {" ", "-"}
MCDefaultId == <<"d">>

MCNames == {Prefixed(<<"a">>), Prefixed(<<"b">>), Bare(<<"d">>)}
MCAdministered == {Prefixed(<<"a">>)}

Headers(id) == [h \in {"x-tenant-id", "x-org"} |-> IF h = "x-org" THEN Undefined ELSE id]

Bearer(parts, claim) ==
    [parts |-> parts, bearer |-> TRUE,
     claims |-> IF claim = Undefined THEN Undefined
                ELSE [n \in {"tenantId", "org"} |-> IF n = "org" THEN NotText ELSE claim]]

\* A request of tenant a by its header, of b by anything else.
ByHeader ==
    [headers |-> Headers(<<" ", "a">>), host |-> <<<<"b">>, <<"x">>, <<"y">>>>,
     token |-> Bearer(3, <<"b", " ">>), answers |-> [whole |-> <<"b">>, adapted |-> Throws]]

\* One of tenant a by everything but its header.
BySubdomain ==
    [headers |-> Headers(Undefined), host |-> <<<<"A">>, <<"x">>, <<"y">>>>,
     token |-> Bearer(3, <<"A">>), answers |-> [whole |-> <<"A">>, adapted |-> <<"a">>]]

\* One that names no tenant, or not well.
Anonymous ==
    [headers |-> Headers(<<" ">>), host |-> <<<<"x">>, <<"y">>>>,
     token |-> Bearer(2, <<"b">>), answers |-> [whole |-> Throws, adapted |-> Undefined]]

\* One of 'default'.
Unnamed ==
    [headers |-> Headers(<<"d">>), host |-> Undefined, token |-> Undefined,
     answers |-> [whole |-> Undefined, adapted |-> Undefined]]

MCMessages == {ByHeader, BySubdomain, Anonymous, Unnamed}

Resolution(strategy, default) ==
    [strategy |-> strategy, headerName |-> Undefined, jwtClaimName |-> Undefined,
     customResolver |-> TRUE, defaultTenant |-> default]

\* forRoot with nothing but the host's HTTP module and data source.
Plainest ==
    [entry |-> "forRoot", orm |-> Undefined, built |-> "typeorm", validation |-> Undefined,
     admin |-> TRUE, mounts |-> TRUE, given |-> {}, controllers |-> FALSE,
     available |-> {"HttpService", "DataSource"}, url |-> TRUE, platform |-> "express",
     resolution |-> Undefined, wants |-> {"TENANT_DATA_SOURCE", "TENANT_REPOSITORY"}]

OnDrizzle(o) == [o EXCEPT !.orm = "drizzle", !.built = "drizzle", !.wants = {"TENANT_DRIZZLE_DB"}]

\* Applications whose requests differ.
Distinct ==
    {Plainest,
     [Plainest EXCEPT !.entry = "buildAsync", !.resolution = Resolution("jwt", Undefined),
                      !.wants = {"TENANT_DATA_SOURCE"}],
     [OnDrizzle(Plainest) EXCEPT !.resolution = Resolution("subdomain", Undefined)],
     [OnDrizzle(Plainest) EXCEPT !.entry = "forRootAsync", !.validation = "remote",
                                 !.platform = "fastify",
                                 !.resolution = Resolution("custom", <<"d">>)],
     [Plainest EXCEPT !.validation = "custom", !.wants = {"TENANT_REPOSITORY"}],
     \* A repository in an application of Drizzle's.
     [OnDrizzle(Plainest) EXCEPT !.wants = @ \cup {"TENANT_REPOSITORY"}]}

\* Variants that start like one of these, or that do not start.
Variants ==
    {[Plainest EXCEPT !.entry = e, !.validation = v, !.available = a, !.given = g,
                      !.wants = {"TENANT_REPOSITORY"}] :
        e \in {"forRoot", "forRootAsync", "buildAsync"},
        v \in {"local", "remote", "custom"},
        a \in {{}, {"HttpService"}, {"DataSource", "TENANT_ADMIN_REPOSITORY"}},
        g \in {{}, {"TENANT_VALIDATION_STRATEGY"}}}

MCOptions == Distinct \cup Variants
=============================================================================
