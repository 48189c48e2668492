-------------------------- MODULE MCRequestPolicy --------------------------
(***************************************************************************)
(* A small instance of RequestPolicy: two tenants with one identity        *)
(* provider and one audience, a third without a provider, and requests     *)
(* that differ from one that is allowed in one or two respects.            *)
(***************************************************************************)
EXTENDS RequestPolicy

CONSTANTS a, b, c, m1, m2, m3, x1, x2, x3, k1, k2, k3, u1, u2, idp, p1, hostA, hostB, hostC, six, ported, nowhere

MCHeaderNames == RoutingHeaders \union {"x-request-id", "authorization", "x-custom"}

Plain(n) == [name |-> n, upper |-> FALSE, port |-> NoPort]
Sound == [status |-> "active", compatible |-> {m1, m2}, checksum |-> TRUE, signed |-> TRUE]

TenantA == [id |-> a, valid |-> TRUE, jwks |-> idp, audience |-> "gateway",
            domains |-> <<[Plain(hostA) EXCEPT !.upper = TRUE], Plain(six)>>,
            models |-> (m1 :> {x1, x2}) @@ (m2 :> {}),
            artifacts |-> (x1 :> Sound) @@ (x2 :> [Sound EXCEPT !.status = "adapter_quarantined"])]
TenantB == [TenantA EXCEPT !.id = b, !.domains = <<Plain(hostB)>>,
                           !.models = (m1 :> {x1, x2, x3}) @@ (m2 :> {x1}),
                           !.artifacts = (x1 :> [Sound EXCEPT !.compatible = {m1}])
                                         @@ (x2 :> [Sound EXCEPT !.signed = FALSE])]
\* A domain written with a port, and no provider.
TenantC == [TenantA EXCEPT !.id = c, !.jwks = Null,
                           !.domains = <<[Plain(ported) EXCEPT !.port = p1], Plain(hostC)>>]

TwoTenants == <<TenantA, TenantB, TenantC>>
Clash == <<TenantA, [TenantB EXCEPT !.domains = <<Plain(hostA)>>]>>

Strict == [auth |-> "oidc", mockHeader |-> TRUE, tokenUse |-> TRUE, scopes |-> {"invoke"},
           groups |-> {"users"}, catalog |-> TRUE]
Mock == [Strict EXCEPT !.auth = "mock", !.catalog = FALSE]

MCSituations ==
  [strict |-> [settings |-> Strict, document |-> TwoTenants],
   clash |-> [settings |-> [Strict EXCEPT !.scopes = {}], document |-> Clash],
   mock |-> [settings |-> Mock, document |-> TwoTenants],
   bearer |-> [settings |-> [Mock EXCEPT !.mockHeader = FALSE], document |-> TwoTenants]]

GoodToken == [bearer |-> TRUE, kind |-> "jwt", key |-> k1, sound |-> TRUE, audience |-> "gateway",
          use |-> TRUE, scopes |-> {"invoke"}, groups |-> {"users"},
          tenant |-> a, user |-> Null, sub |-> u1]

Allowed == [path |-> "chat", json |-> TRUE, fields |-> {"model", "messages", "lora_adapter"},
            wellFormed |-> TRUE, model |-> [word |-> m1, padded |-> TRUE],
            adapter |-> [word |-> x1, padded |-> FALSE], host |-> Plain(hostA),
            token |-> GoodToken, mockAuth |-> Null, headers |-> {"x-custom"}]

Bodies ==
  {[Allowed EXCEPT !.json = FALSE], [Allowed EXCEPT !.wellFormed = FALSE],
   [Allowed EXCEPT !.fields = @ \union {"adapter"}], [Allowed EXCEPT !.fields = {"model"}],
   [Allowed EXCEPT !.fields = @ \union {"prompt"}], [Allowed EXCEPT !.fields = @ \union {"suffix"}],
   [Allowed EXCEPT !.path = "completion", !.fields = {"model", "prompt", "suffix"}, !.adapter = Null],
   [Allowed EXCEPT !.adapter.word = Blank], [Allowed EXCEPT !.model.word = Blank]}
Strangers ==
  {[Allowed EXCEPT !.model.word = m3, !.token = t] : t \in {GoodToken, [GoodToken EXCEPT !.sound = FALSE], Null}}
Adaptations ==
  {[Allowed EXCEPT !.model.word = m, !.adapter = x, !.host = Plain(h), !.token.tenant = t] :
     m \in {m1, m2}, x \in {Null, [word |-> x1, padded |-> FALSE], [word |-> x2, padded |-> FALSE],
                            [word |-> x3, padded |-> FALSE]},
     h \in {hostA, hostB}, t \in {a, b}}
Tokens ==
  {[GoodToken EXCEPT !.bearer = FALSE], [GoodToken EXCEPT !.sound = FALSE], [GoodToken EXCEPT !.audience = "else"],
   [GoodToken EXCEPT !.use = FALSE], [GoodToken EXCEPT !.scopes = {}], [GoodToken EXCEPT !.groups = {}],
   [GoodToken EXCEPT !.tenant = Null], [GoodToken EXCEPT !.tenant = NotAString],
   [GoodToken EXCEPT !.sub = Null], [GoodToken EXCEPT !.user = u2], [GoodToken EXCEPT !.user = NotAString],
   [GoodToken EXCEPT !.key = k2], [GoodToken EXCEPT !.key = k3], [GoodToken EXCEPT !.kind = "mock"], Null}
Hosts ==
  {Null, [Plain(hostA) EXCEPT !.upper = TRUE, !.port = p1], Plain(six), [Plain(six) EXCEPT !.port = p1],
   [Plain(ported) EXCEPT !.port = p1], Plain(ported), Plain(nowhere), Plain(hostC)}
MockRequests ==
  {[Allowed EXCEPT !.token = [GoodToken EXCEPT !.kind = "mock", !.tenant = t, !.user = u], !.mockAuth = h] :
     t \in {a, b, Null}, u \in {u1, Null},
     h \in {Null, [tenant |-> a, user |-> u2], [tenant |-> b, user |-> u2], [tenant |-> a, user |-> Null]}}

MCRequests ==
  Bodies \union Strangers \union Adaptations
  \union {[Allowed EXCEPT !.token = t] : t \in Tokens}
  \union {[Allowed EXCEPT !.host = h] : h \in Hosts}
  \union {[Allowed EXCEPT !.headers = {n}] : n \in MCHeaderNames}
  \union {[Allowed EXCEPT !.headers = MCHeaderNames]}
  \union MockRequests
============================================================================
