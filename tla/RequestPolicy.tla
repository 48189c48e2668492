---------------------------- MODULE RequestPolicy ----------------------------
(***************************************************************************)
(* What _handle_llm_request (main.py:143-242) decides of a request before  *)
(* quota and upstream: the schema of the body, the tenant of its Host, the *)
(* authentication of its caller against the keys in the JWKS cache, the    *)
(* policy of the tenant and the governance of the adapter; and the headers *)
(* and the body that go upstream when all of them agree.                   *)
(*                                                                         *)
(* The estimate of its tokens, which comes in between, is left out.        *)
(*                                                                         *)
(* Everything from the parsed body to the verdict runs without an await,   *)
(* so a request is one step.  What it meets is the state the provider and  *)
(* earlier requests left the JWKS cache in.                                *)
(***************************************************************************)
EXTENDS JwksCache, TenantRegistry

CONSTANTS
  Users, Models, Adapters, Scopes, Groups,
  KeyIds,          \* the key ids tokens name, those of the provider among them
  Blank,           \* a string of white space
  NotAString,      \* a claim that is a number, a list or an object
  Situations,      \* settings and registry files of a gateway, by name
  Requests         \* the requests clients send

\* What the checks read of AppSettings.
Settings == [auth: {"mock", "oidc"}, mockHeader: BOOLEAN, tokenUse: BOOLEAN,
             scopes: SUBSET Scopes, groups: SUBSET Groups, catalog: BOOLEAN]

\* An entry of the registry file; status is the reason a refusal gives.
Artifact == [status: {"active", "adapter_deprecated", "adapter_quarantined"},
             compatible: SUBSET Models, checksum: BOOLEAN, signed: BOOLEAN]
Entry == [id: TenantIds, valid: BOOLEAN, domains: Seq(Host),
          jwks: Urls \union {Null}, audience: STRING,
          models: UNION {[M -> SUBSET Adapters] : M \in SUBSET Models},
          artifacts: UNION {[X -> Artifact] : X \in SUBSET Adapters}]

\* A name in a body, perhaps with white space around it.
Text == [word: Models \union Adapters \union {Blank}, padded: BOOLEAN]

\* What stands after "Authorization:".  bearer: the scheme, and a token behind it.
\* sound: the signature of the key, the times and the claims that must be there.
Token == [bearer: BOOLEAN, kind: {"jwt", "mock"}, key: KeyIds, sound: BOOLEAN,
          audience: STRING, use: BOOLEAN, scopes: SUBSET Scopes, groups: SUBSET Groups,
          tenant: TenantIds \union {Null, NotAString},
          user: Users \union {Null, NotAString}, sub: Users \union {Null, NotAString}]

\* json: is the body a JSON object?  wellFormed: are the values of its fields?
Request == [path: {"chat", "completion"}, json: BOOLEAN, wellFormed: BOOLEAN,
            fields: SUBSET STRING, model: Text, adapter: Text \union {Null},
            host: Host \union {Null}, token: Token \union {Null},
            mockAuth: [tenant: TenantIds \union {Null}, user: Users \union {Null}] \union {Null},
            headers: SUBSET STRING]

\* Null and NotAString are none of the values they stand for the absence of, and a
\* mock credential is text.
ASSUME PolicyAssumption ==
  /\ Requests \subseteq Request
  /\ \A s \in DOMAIN Situations : /\ Situations[s].settings \in Settings
                                  /\ Situations[s].document \in Seq(Entry)
                                  /\ Load(Situations[s].document) # Null
  /\ {Null, NotAString} \intersect (TenantIds \union Users) = {}
  /\ Null \notin Entry
  /\ \A r \in Requests : r.token # Null /\ r.token.kind = "mock" =>
                          NotAString \notin {r.token.tenant, r.token.user}

VARIABLES
  situation,  \* what the gateway was started with
  answer      \* what was decided of the last request

vars == <<jwksVars, situation, answer>>

settings == Situations[situation].settings
document == Situations[situation].document   \* the registry file at start-up

\* app.state.registry
Registries == [s \in DOMAIN Situations |->
                 IF Loadable(Situations[s].document) THEN Load(Situations[s].document) ELSE Null]
registry == Registries[situation]

Idle == [verdict |-> "none"]

\* The checks of a list are made in order; the first that fails gives the reason.
Checked(holds, reason) == [holds |-> holds, reason |-> reason]
AllHold(checks) == \A i \in DOMAIN checks : checks[i].holds
FirstFailure(checks) ==
  LET i == CHOOSE i \in DOMAIN checks :
             /\ ~ checks[i].holds
             /\ \A j \in DOMAIN checks : j < i => checks[j].holds
  IN checks[i].reason

----------------------------------------------------------------------------
\* The schemas, ChatCompletionGatewayRequest and CompletionGatewayRequest.
Shared == {"model", "lora_adapter", "stream", "max_tokens"}
Required(path) == IF path = "chat" THEN {"model", "messages"} ELSE {"model", "prompt"}
Fields(path) ==
  Shared \union (IF path = "chat" THEN {"messages", "max_completion_tokens"} ELSE {"prompt", "suffix"})

\* normalize_non_empty_strings: white space around a name is cut off.
Strip(text) == text.word

BodyChecks(r) ==
  <<Checked(r.json, "invalid_json"),
    Checked(/\ Required(r.path) \subseteq r.fields
            /\ r.fields \subseteq Fields(r.path)
            /\ r.wellFormed
            /\ r.model.word # Blank
            /\ r.adapter = Null \/ r.adapter.word # Blank,
            "invalid_request_schema")>>

Model(r) == Strip(r.model)
Adapter(r) == IF r.adapter = Null THEN Null ELSE Strip(r.adapter)

\* The tenant is resolved for the authentication, and again, from the domain in
\* lower case, for the policy.
AuthTenant(r) == IF registry = Null THEN Null ELSE ResolveByHost(registry, r.host)
PolicyTenant(r) ==
  IF registry = Null THEN Null
  ELSE ResolveByHost(registry, IF r.host = Null THEN Null ELSE Lower(r.host))

----------------------------------------------------------------------------
\* validate_request_auth.  Of a token: its kind, what its claims say, and whether
\* signature, times and the claims a deployment requires to be there are right.
UsesMockHeader(r) == r.mockAuth # Null /\ settings.mockHeader

\* _extract_bearer_token
BearerChecks(r) == <<Checked(r.token # Null, "missing_token"),
                     Checked(r.token # Null => r.token.bearer, "invalid_token")>>

MockChecks(r) ==
  IF UsesMockHeader(r)
  THEN <<Checked(r.mockAuth.tenant # Null /\ r.mockAuth.user # Null, "invalid_mock_header")>>
  ELSE BearerChecks(r)
       \o <<Checked(r.token # Null => /\ r.token.kind = "mock"
                                      /\ r.token.tenant # Null /\ r.token.user # Null,
                    "invalid_mock_token")>>

UserClaim(token) == IF token.user # Null THEN token.user ELSE token.sub

\* Mutant of ClaimChecks: nobody looks whether there is a user.
ClaimChecksNoUser(token) ==
  <<Checked(settings.tokenUse => token.use, "invalid_token_use"),
    Checked(settings.scopes \subseteq token.scopes, "required_scope_missing"),
    Checked(settings.groups \subseteq token.groups, "required_group_missing"),
    Checked(token.tenant \notin {Null, NotAString}, "tenant_claim_missing")>>

\* _enforce_required_oidc_claims and the claims the principal is made of
ClaimChecks(token) ==
  <<Checked(settings.tokenUse => token.use, "invalid_token_use"),
    Checked(settings.scopes \subseteq token.scopes, "required_scope_missing"),
    Checked(settings.groups \subseteq token.groups, "required_group_missing"),
    Checked(token.tenant # NotAString, "tenant_claim_invalid"),
    Checked(token.tenant # Null, "tenant_claim_missing"),
    Checked(UserClaim(token) \notin {Null, NotAString}, "user_claim_missing")>>

\* A lookup is made when the request carries a bearer token for a tenant with a URL.
AsksProvider(r) ==
  /\ AllHold(BodyChecks(r))
  /\ AuthTenant(r) # Null
  /\ settings.auth = "oidc"
  /\ AllHold(BearerChecks(r))
  /\ AuthTenant(r).jwks # Null

OidcChecks(r, tenant, seen) ==
  BearerChecks(r)
  \o <<Checked(tenant.jwks # Null, "jwks_not_configured"),
       Checked(seen = "found", "invalid_token"),
       Checked(r.token # Null => r.token.sound /\ r.token.audience = tenant.audience,
               "invalid_token")>>
  \o IF r.token = Null THEN <<>> ELSE ClaimChecks(r.token)

\* seen is what the lookup of the token's key gave.
AuthChecks(r, tenant, seen) ==
  IF settings.auth = "mock" THEN MockChecks(r) ELSE OidcChecks(r, tenant, seen)

\* The principal of a request whose authentication succeeded.
Principal(r) ==
  CASE settings.auth = "oidc" -> [tenant |-> r.token.tenant, user |-> UserClaim(r.token)]
    [] settings.auth = "mock" /\ UsesMockHeader(r) -> r.mockAuth
    [] OTHER -> [tenant |-> r.token.tenant, user |-> r.token.user]

----------------------------------------------------------------------------
\* Mutant of PolicyChecks: any adapter of the tenant goes with any model.
PolicyChecksAnyAdapter(r, tenant, principal) ==
  <<Checked(principal.tenant = tenant.id, "tenant_claim_mismatch"),
    Checked(Model(r) \in DOMAIN tenant.models, "unknown_model"),
    Checked(Adapter(r) = Null \/ Adapter(r) \in UNION Range(tenant.models), "unknown_adapter")>>

\* evaluate_policy, once the tenant is known and the caller authenticated.
PolicyChecks(r, tenant, principal) ==
  <<Checked(principal.tenant = tenant.id, "tenant_claim_mismatch"),
    Checked(Model(r) \in DOMAIN tenant.models, "unknown_model"),
    Checked(\/ Adapter(r) = Null
            \/ Model(r) \in DOMAIN tenant.models /\ Adapter(r) \in tenant.models[Model(r)],
            "unknown_adapter")>>

\* evaluate_adapter_governance
GovernanceChecks(adapter, model, tenant) ==
  IF adapter = Null \/ ~ settings.catalog THEN <<>>
  ELSE IF adapter \notin DOMAIN tenant.artifacts THEN <<Checked(FALSE, "adapter_not_governed")>>
  ELSE LET artifact == tenant.artifacts[adapter]
       IN <<Checked(artifact.status = "active", artifact.status),
            Checked(model \in artifact.compatible, "adapter_model_incompatible"),
            Checked(artifact.checksum, "adapter_checksum_missing"),
            Checked(artifact.signed, "adapter_signature_missing")>>

\* Mutant of VerdictChecks: the policy is looked at before the credentials.
VerdictChecksPolicyFirst(r, seen) ==
  LET tenant == PolicyTenant(r)
      found == <<Checked(registry # Null, "registry_unavailable"),
                 Checked(tenant # Null, "unknown_tenant")>>
  IN BodyChecks(r)
     \o IF ~ AllHold(BodyChecks(r)) THEN <<>>
        ELSE found \o IF ~ AllHold(found) THEN <<>>
                      ELSE <<Checked(Model(r) \in DOMAIN tenant.models, "unknown_model")>>
                           \o AuthChecks(r, tenant, seen)

\* All checks of a request, in the order of the code; the later ones need a tenant,
\* and a principal.
VerdictChecks(r, seen) ==
  LET tenant == PolicyTenant(r)
      found == <<Checked(registry # Null, "registry_unavailable"),
                 Checked(tenant # Null, "unknown_tenant")>>
      auth == IF tenant = Null THEN <<>>
              ELSE IF AuthTenant(r) = Null THEN <<Checked(FALSE, "missing_token")>>
              ELSE AuthChecks(r, AuthTenant(r), seen)
      policy == PolicyChecks(r, tenant, Principal(r))
                \o GovernanceChecks(Adapter(r), Model(r), tenant)
  IN BodyChecks(r)
     \o IF ~ AllHold(BodyChecks(r)) THEN <<>>
        ELSE found \o auth \o IF ~ AllHold(found \o auth) THEN <<>> ELSE policy

----------------------------------------------------------------------------
\* header_sanitizer.py
ClientSuppliedRoutingHeaders ==
  {"x-tenant-id", "x-user-id", "x-tier", "user", "external-filter", "config-profile",
   "x-internal-tenant-id", "x-internal-user-id", "x-internal-slo-tier"}
HopByHopOrSensitive ==
  {"authorization", "connection", "keep-alive", "proxy-authenticate", "proxy-authorization",
   "te", "trailer", "transfer-encoding", "upgrade", "host", "content-length"}

Sanitized(headers) ==
  [name \in headers \ (ClientSuppliedRoutingHeaders \union HopByHopOrSensitive) |-> "client"]

\* headers.update(values)
Updated(headers, values) ==
  [name \in DOMAIN headers \union DOMAIN values |->
     IF name \in DOMAIN values THEN values[name] ELSE headers[name]]

\* inject_trusted_headers.  A value is named after what the registry and the
\* principal determine it by.
Trusted(tenant, user) ==
  [name \in {"user", "external-filter", "config-profile", "x-internal-tenant-id", "x-internal-user-id"} |->
     CASE name = "user" -> <<"user", tenant.id, user>>
       [] name = "external-filter" -> <<"filter", tenant.id>>
       [] name = "config-profile" -> <<"profile", tenant.id>>
       [] name = "x-internal-tenant-id" -> <<"tenant", tenant.id>>
       [] OTHER -> <<"user", user>>]

Isolation(tenant) ==
  [name \in {"x-internal-kv-cache-isolation-required", "x-internal-runtime-isolation-mode"} |->
     IF name = "x-internal-runtime-isolation-mode" THEN <<"mode", tenant.id>>
     ELSE <<"isolation", tenant.id>>]

RequestId(r) ==
  [name \in {"x-request-id"} |-> IF name \in r.headers THEN "client" ELSE "generated"]

\* Mutant of OutboundHeaders: what the client sent is merged in last.
OutboundHeadersClientLast(r, tenant, user) ==
  Updated(Updated(Updated(Trusted(tenant, user), RequestId(r)), Isolation(tenant)), Sanitized(r.headers))

\* _build_outbound_headers: each assignment overrides the ones before it.
OutboundHeaders(r, tenant, user) ==
  Updated(Updated(Updated(Sanitized(r.headers), Trusted(tenant, user)), RequestId(r)), Isolation(tenant))

\* The body that goes upstream is the one the checks read; nothing else of it matters here.
OutboundBody(r) == [model |-> Model(r), adapter |-> Adapter(r)]

----------------------------------------------------------------------------
Init == /\ JwksInit
        /\ situation \in DOMAIN Situations
        /\ answer = Idle

\* Whether a key that was looked up is still published, or since when not.
KeyAge(r) ==
  IF AsksProvider(r) /\ r.token.key \in Keys THEN Age(AuthTenant(r).jwks, r.token.key) ELSE 0

Refused(r, reason) == [verdict |-> "refused", request |-> r, reason |-> reason]

Forwarded(r) ==
  LET tenant == PolicyTenant(r)
      user == Principal(r).user
  IN [verdict |-> "forwarded", request |-> r, tenant |-> tenant.id, user |-> user,
      age |-> KeyAge(r), body |-> OutboundBody(r),
      headers |-> OutboundHeaders(r, tenant, user)]

\* The provider answered a lookup with something that is no JSON: the exception is
\* no PyJWTError, leaves the handler, and the client gets a 500.
Escaped(r) == [verdict |-> "escaped", request |-> r]

Verdict(r, seen) ==
  IF seen = "undecodable" THEN Escaped(r)
  ELSE IF AllHold(VerdictChecks(r, seen)) THEN Forwarded(r)
  ELSE Refused(r, FirstFailure(VerdictChecks(r, seen)))

Judge(r) == /\ ~ AsksProvider(r)
            /\ answer' = Verdict(r, "not asked")
            /\ UNCHANGED jwksVars

JudgeByKey(r) ==
  LET url == AuthTenant(r).jwks
  IN /\ AsksProvider(r)
     /\ IF r.token.kind = "jwt"
        THEN \E client \in Signing(url, r.token.key) :
               /\ clients' = [clients EXCEPT ![url] = client]
               /\ answer' = Verdict(r, Seen(url, r.token.key, client))
        ELSE \* get_signing_key_from_jwt cannot read a key id
             /\ clients' = [clients EXCEPT ![url] = Get(url)]
             /\ answer' = Verdict(r, "malformed")
     /\ UNCHANGED <<now, setBack, provider>>

\* The handler of a request that is not held up by the security posture.
Handle(r) == /\ answer = Idle
             /\ Judge(r) \/ JudgeByKey(r)
             /\ UNCHANGED situation

\* The answer is out; it is kept only to state properties of it.
Done == /\ answer # Idle
        /\ answer' = Idle
        /\ UNCHANGED <<jwksVars, situation>>

Next == \/ \E r \in Requests : Handle(r)
        \/ Done
        \/ answer = Idle /\ Surroundings /\ UNCHANGED <<situation, answer>>

Spec == Init /\ [][Next]_vars

----------------------------------------------------------------------------
PolicyReasons ==
  {"unknown_model", "unknown_adapter", "adapter_not_governed", "adapter_deprecated",
   "adapter_quarantined", "adapter_model_incompatible", "adapter_checksum_missing",
   "adapter_signature_missing"}
AuthReasons ==
  {"missing_token", "invalid_token", "jwks_not_configured", "invalid_token_use",
   "required_scope_missing", "required_group_missing", "tenant_claim_invalid",
   "tenant_claim_missing", "user_claim_missing", "invalid_mock_header", "invalid_mock_token"}
Reasons == PolicyReasons \union AuthReasons
           \union {"invalid_json", "invalid_request_schema", "registry_unavailable",
                   "unknown_tenant", "tenant_claim_mismatch"}

TypeOK == /\ JwksTypeOK
          /\ situation \in DOMAIN Situations
          /\ answer.verdict \in {"none", "refused", "forwarded", "escaped"}
          /\ answer # Idle => answer.request \in Requests
          /\ answer.verdict = "refused" => answer.reason \in Reasons
          /\ answer.verdict = "forwarded" => answer.tenant \in TenantIds /\ answer.user \in Users

\* What a tenant may have, read off the registry file and the credentials: the caller is who the entry says, by a mock credential the settings let in, or
\* by a token for the entry's audience with all that is required.
Identified(r, entry, user) ==
  IF settings.auth = "mock"
  THEN \/ settings.mockHeader /\ r.mockAuth # Null
          /\ r.mockAuth.tenant = entry.id /\ r.mockAuth.user = user
       \/ ~ UsesMockHeader(r) /\ r.token # Null /\ r.token.bearer
          /\ r.token.kind = "mock" /\ r.token.tenant = entry.id /\ r.token.user = user
  ELSE /\ r.token # Null /\ r.token.bearer /\ r.token.kind = "jwt" /\ r.token.sound
       /\ r.token.audience = entry.audience /\ r.token.tenant = entry.id
       /\ settings.tokenUse => r.token.use
       /\ settings.scopes \subseteq r.token.scopes /\ settings.groups \subseteq r.token.groups
       /\ user = IF r.token.user # Null THEN r.token.user ELSE r.token.sub

MayUse(entry, model, adapter) ==
  /\ model \in DOMAIN entry.models
  /\ adapter # Null =>
       /\ adapter \in entry.models[model]
       /\ settings.catalog =>
            /\ adapter \in DOMAIN entry.artifacts
            /\ LET artifact == entry.artifacts[adapter]
               IN /\ artifact.status = "active" /\ model \in artifact.compatible
                  /\ artifact.checksum /\ artifact.signed

\* A request is forwarded only for a tenant of the file that its Host and its
\* credentials both name, with the model and the adapter that go upstream allowed
\* to that tenant, and on a key that was published not longer ago than the two
\* caches keep it (evaluate_policy, evaluate_adapter_governance, get_jwks_client).
ForwardedIsEntitled ==
  answer.verdict = "forwarded" =>
    /\ \E entry \in ToSet(document) :
         /\ entry.id = answer.tenant
         /\ NamesHost(entry, answer.request.host)
         /\ Identified(answer.request, entry, answer.user)
         /\ MayUse(entry, answer.body.model, answer.body.adapter)
    /\ answer.age <= Lifespan
    /\ setBack = 0 => answer.age < Ttl

\* The caller of a request is who the tenant's credentials say.
OwnCaller(r, entry) ==
  NamesHost(entry, r.host) /\ \E user \in Users : Identified(r, entry, user)

\* What can be wrong with a request, with the file, or with the key of its token.
AtFault(r) ==
  \/ ~ Loadable(document)
  \/ ~ AllHold(BodyChecks(r))
  \/ \A entry \in ToSet(document) :
       \/ ~ OwnCaller(r, entry)
       \/ ~ MayUse(entry, Model(r), Adapter(r))
       \/ settings.auth = "oidc" /\ entry.jwks = Null
       \/ settings.auth = "oidc" /\ ~ ( /\ r.token.key \in published[entry.jwks]
                                        /\ serving[entry.jwks] = "up")

\* And a request is refused only if something is wrong with it, with the file, or
\* with its key: what the tenant is entitled to, under a key the provider serves,
\* is forwarded whatever earlier requests left in the cache (_handle_llm_request).
RefusedIsDue == answer.verdict \in {"refused", "escaped"} => AtFault(answer.request)

\* What a tenant allows is told only to a caller whom the tenant's credentials
\* identify: no answer about models and adapters comes before authentication
\* (the order of the checks in _handle_llm_request and evaluate_policy).
PolicyIsToldToItsOwn ==
  answer.verdict = "refused" /\ answer.reason \in PolicyReasons =>
    \E entry \in ToSet(document) : OwnCaller(answer.request, entry)

\* The headers the upstream routes by.
RoutingHeaders == ClientSuppliedRoutingHeaders \union
                  {"x-internal-kv-cache-isolation-required", "x-internal-runtime-isolation-mode"}

\* Upstream sees of the routing headers only what the gateway set for the tenant
\* and the user it established, whatever the client sent under those names
\* (sanitize_inbound_headers, inject_trusted_headers, _build_outbound_headers).
HeadersAreTheGateways ==
  answer.verdict = "forwarded" =>
    /\ \A name \in RoutingHeaders \intersect DOMAIN answer.headers :
         answer.headers[name] \in
           {<<kind, answer.tenant>> : kind \in {"filter", "profile", "tenant", "isolation", "mode"}}
           \union {<<"user", answer.tenant, answer.user>>, <<"user", answer.user>>}
    /\ {"user", "external-filter", "config-profile", "x-internal-tenant-id",
        "x-internal-user-id", "x-internal-runtime-isolation-mode"} \subseteq DOMAIN answer.headers
    /\ HopByHopOrSensitive \intersect DOMAIN answer.headers = {}
============================================================================
