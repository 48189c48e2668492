------------------------------ MODULE Startup ------------------------------
(***************************************************************************)
(* The life of a gateway process: the settings it is configured with       *)
(* (config.py), the security posture (security_posture.py), the steps of   *)
(* the lifespan (main.py:45-100) up to serving and down again, and what    *)
(* /readyz and the handler answer from what those steps left.              *)
(*                                                                         *)
(* The steps of the lifespan are synchronous, but what they depend on      *)
(* changes between them: the registry file is edited, Redis, the disk and  *)
(* the tokenizer's assets come and go, and the process is killed.  A start *)
(* that fails ends the process; Kubernetes starts another one.             *)
(***************************************************************************)
EXTENDS TenantRegistry

CONSTANTS
  Configurations,  \* the settings operators deploy
  Files,           \* the contents the registry file can have
  Unloadable,      \* no file, no YAML, or no document of the schema
  Undecodable,     \* a file that is no UTF-8
  MaxDisruptions   \* bound on what operators and failures change

\* APP_ENVIRONMENT: a name that is local, one that stands for production, or another
\* one; plain: it is written in lower case with no white space around it.
EnvironmentName == [kind: {"local", "production", "other"}, plain: BOOLEAN]

\* AppSettings, as far as a start looks at it.
AppSettings ==
  [environment: EnvironmentName, auth: {"mock", "oidc"}, unsafe: BOOLEAN,
   posture: {"audit", "enforce"}, upstream: {"mock", "private", "public"},
   privateRequired: BOOLEAN, quota: {"disabled", "in_memory", "redis"},
   tokenizer: {"tiktoken", "hf_local", "utf8_bytes"}, path: BOOLEAN, strict: BOOLEAN,
   billing: {"disabled", "observability", "ledger_required", "aws_native_reference"},
   bucket: BOOLEAN, audit: {"disabled", "stdout", "jsonl"}, catalog: BOOLEAN]

Content == {Unloadable, Undecodable}
           \union Seq([id: TenantIds, domains: Seq(Host), valid: BOOLEAN])

Dependencies == {"redis", "disk", "assets"}

ASSUME StartupAssumption ==
  /\ Configurations \subseteq AppSettings
  /\ Files \subseteq Content
  /\ MaxDisruptions \in Nat

VARIABLES
  settings,     \* the environment variables a start reads
  file,         \* the registry file
  broken,       \* the dependencies that do not work at the moment
  directories,  \* those of the audit log and of the ledger that exist (./var unless set)
  disruptions,  \* how often operators or failures changed something
  stage,        \* where the process is
  block,        \* security_posture_block, the codes of the findings that block
  encoder,      \* _encoder of metering.py
  enforcer,     \* quota_enforcer
  worker,       \* does the flusher thread of the billing ledger run?
  registry,     \* app.state.registry
  loaded        \* history: the content of the file when it was loaded

process == <<stage, block, encoder, enforcer, worker, registry, loaded>>
world == <<settings, file, broken, directories, disruptions>>
vars == <<world, process>>

----------------------------------------------------------------------------
\* Mutant of Kind: names that are not written plainly are no known ones.
KindAsWritten(s) == IF s.environment.plain THEN s.environment.kind ELSE "other"
\* environment.strip().lower()
Kind(s) == s.environment.kind

\* The validators of AppSettings.
Accepted(s) ==
  /\ s.auth = "mock" => Kind(s) = "local" \/ s.unsafe
  /\ s.tokenizer = "hf_local" => s.path
  /\ s.billing = "aws_native_reference" => s.bucket

\* evaluate_security_posture: the codes of the findings.
Findings(s) ==
  LET production == Kind(s) = "production"
      found(code, when) == IF when THEN {code} ELSE {}
  IN found("mock_auth_enabled", s.auth = "mock")
     \union found("mock_upstream_enabled", production /\ s.upstream = "mock")
     \union found("quota_disabled", production /\ s.quota = "disabled")
     \union found("quota_in_memory_not_distributed", production /\ s.quota = "in_memory")
     \union found("billing_disabled", production /\ s.billing = "disabled")
     \union found("audit_disabled", production /\ s.audit = "disabled")
     \union found("adapter_catalog_not_enforced", production /\ ~ s.catalog)
     \union found("upstream_not_private", s.privateRequired /\ s.upstream = "public")

\* The one finding whose severity is medium.
Medium == {"adapter_catalog_not_enforced"}

\* Mutant of Block: the severity is not looked at.
BlockOnAnything(s) == IF s.posture = "enforce" THEN Findings(s) ELSE {}

\* enforce_security_posture; no finding is no block.
Block(s) == IF s.posture = "enforce" THEN Findings(s) \ Medium ELSE {}

\* initialize_tokenizer raises for utf8_bytes.
BytesRefused(s) ==
  /\ s.tokenizer = "utf8_bytes"
  /\ Kind(s) # "local" /\ ~ s.unsafe /\ s.quota # "disabled" /\ s.strict

RequiresLedger(s) == s.billing \in {"ledger_required", "aws_native_reference"}

----------------------------------------------------------------------------
\* What a process that is not running has.
Fresh(where) ==
  /\ stage' = where
  /\ block' = {} /\ encoder' = Null /\ enforcer' = Null
  /\ worker' = FALSE /\ registry' = Null /\ loaded' = Null

\* The exception leaves the lifespan, and the process exits.
Fail == Fresh("failed")

Init == /\ settings \in Configurations
        /\ file \in Files
        /\ broken = {} /\ directories = {} /\ disruptions = 0
        /\ stage = "down"
        /\ block = {} /\ encoder = Null /\ enforcer = Null
        /\ worker = FALSE /\ registry = Null /\ loaded = Null

\* create_app reads the settings.
Configure ==
  /\ stage \in {"down", "failed"}
  /\ IF Accepted(settings) THEN Fresh("configured") ELSE Fail
  /\ UNCHANGED world

\* Mutant of CanMake: mkdir without exist_ok.
CanMakeNew(directory) == "disk" \notin broken /\ directory \notin directories
\* mkdir(parents=True, exist_ok=True) succeeds.
CanMake(directory) == "disk" \notin broken \/ directory \in directories

\* Mutant of Judge: a block does not keep the rest of the start from running.
JudgeAndGoOn ==
  /\ stage = "configured"
  /\ IF ~ CanMake("audit") THEN Fail /\ UNCHANGED directories
     ELSE /\ directories' = directories \union {"audit"}
          /\ block' = Block(settings)
          /\ stage' = "judged"
          /\ UNCHANGED <<encoder, enforcer, worker, registry, loaded>>
  /\ UNCHANGED <<settings, file, broken, disruptions>>

\* The posture is judged and the audit sink opened; a process that is blocked gets
\* no quota enforcer and a disabled ledger, and skips the steps in between.
Judge ==
  /\ stage = "configured"
  /\ IF ~ CanMake("audit") THEN Fail /\ UNCHANGED directories
     ELSE /\ directories' = directories \union {"audit"}
          /\ block' = Block(settings)
          /\ stage' = IF Block(settings) = {} THEN "judged" ELSE "prepared"
          /\ UNCHANGED <<encoder, enforcer, worker, registry, loaded>>
  /\ UNCHANGED <<settings, file, broken, disruptions>>

\* initialize_tokenizer
InitializeTokenizer ==
  /\ stage = "judged"
  /\ IF BytesRefused(settings) \/ (settings.tokenizer # "utf8_bytes" /\ "assets" \in broken)
     THEN Fail
     ELSE /\ encoder' = IF settings.tokenizer = "utf8_bytes" THEN "bytes" ELSE "exact"
          /\ stage' = "tokenized"
          /\ UNCHANGED <<block, enforcer, worker, registry, loaded>>
  /\ UNCHANGED world

\* Mutant of CreateQuotaEnforcer: without Redis the gateway starts without quota.
CreateQuotaEnforcerOrNot ==
  /\ stage = "tokenized"
  /\ enforcer' = IF settings.quota = "disabled" \/ (settings.quota = "redis" /\ "redis" \in broken)
                 THEN Null ELSE settings.quota
  /\ stage' = "limited"
  /\ UNCHANGED <<world, block, encoder, worker, registry, loaded>>

\* create_quota_enforcer: the constructor for Redis loads its scripts.
CreateQuotaEnforcer ==
  /\ stage = "tokenized"
  /\ IF settings.quota = "redis" /\ "redis" \in broken THEN Fail
     ELSE /\ enforcer' = IF settings.quota = "disabled" THEN Null ELSE settings.quota
          /\ stage' = "limited"
          /\ UNCHANGED <<block, encoder, worker, registry, loaded>>
  /\ UNCHANGED world

\* BillingLedger(...)
CreateLedger ==
  /\ stage = "limited"
  /\ IF ~ CanMake("billing") THEN Fail /\ UNCHANGED directories
     ELSE /\ directories' = directories \union {"billing"}
          /\ worker' = RequiresLedger(settings)
          /\ stage' = "prepared"
          /\ UNCHANGED <<block, encoder, enforcer, registry, loaded>>
  /\ UNCHANGED <<settings, file, broken, disruptions>>

\* TenantRegistry.load: RegistryLoadError is caught, UnicodeDecodeError is not.
LoadRegistry ==
  /\ stage = "prepared"
  /\ IF file = Undecodable THEN Fail
     ELSE /\ registry' = IF file # Unloadable /\ Loadable(file) THEN Load(file) ELSE Null
          /\ loaded' = file
          /\ stage' = "serving"
          /\ UNCHANGED <<block, encoder, enforcer, worker>>
  /\ UNCHANGED world

\* The end of the lifespan: ledger.close(), and the process is gone.
Shutdown == stage = "serving" /\ Fresh("down") /\ UNCHANGED world

Start == \/ Configure \/ Judge \/ InitializeTokenizer \/ CreateQuotaEnforcer
         \/ CreateLedger \/ LoadRegistry

\* What happens around the process.
Disrupted == disruptions < MaxDisruptions /\ disruptions' = disruptions + 1

Kill == /\ stage \notin {"down", "failed"}
        /\ Disrupted /\ Fresh("down")
        /\ UNCHANGED <<settings, file, broken, directories>>

Edit(content) == /\ Disrupted /\ file' = content
                 /\ UNCHANGED <<settings, broken, directories, process>>

\* New environment variables reach a process when it is started.
Reconfigure(s) == /\ stage \in {"down", "failed"}
                  /\ Disrupted /\ settings' = s
                  /\ UNCHANGED <<file, broken, directories, process>>

Break(d) == /\ d \notin broken
            /\ Disrupted /\ broken' = broken \union {d}
            /\ UNCHANGED <<settings, file, directories, process>>

Repair(d) == /\ d \in broken
             /\ broken' = broken \ {d}
             /\ UNCHANGED <<settings, file, directories, disruptions, process>>

Next == \/ Start \/ Shutdown \/ Kill
        \/ \E content \in Files : Edit(content)
        \/ \E s \in Configurations : Reconfigure(s)
        \/ \E d \in Dependencies : Break(d) \/ Repair(d)

\* The lifespan runs on, and Kubernetes restarts a container that exited.
Spec == Init /\ [][Next]_vars /\ WF_vars(Start)

----------------------------------------------------------------------------
\* /readyz answers 200.
Ready == stage = "serving" /\ block = {} /\ registry # Null

Resolved(host) == ResolveByHost(registry, host)

----------------------------------------------------------------------------
TypeOK ==
  /\ settings \in Configurations /\ file \in Files
  /\ broken \subseteq Dependencies /\ directories \subseteq {"audit", "billing"}
  /\ disruptions \in 0 .. MaxDisruptions
  /\ stage \in {"down", "failed", "configured", "judged", "tokenized", "limited", "prepared", "serving"}
  /\ block \subseteq Findings(settings) \ Medium
  /\ encoder \in {Null, "bytes", "exact"} /\ enforcer \in {Null, "in_memory", "redis"}
  /\ worker \in BOOLEAN
  /\ registry # Null => DOMAIN registry \subseteq Host
  /\ loaded # Null => loaded \in Files

\* A ready gateway is complete: no dependency that its settings call for is missing
\* or replaced because it could not be had when the process started, and outside local
\* environments a quota counts bytes for tokens only where one of two settings allows
\* it (lifespan, which has no fallback for any of them, and initialize_tokenizer).
ReadyIsComplete ==
  Ready => /\ settings.quota # "disabled" => enforcer = settings.quota
           /\ settings.billing \in {"ledger_required", "aws_native_reference"} => worker
           /\ settings.tokenizer # "utf8_bytes" => encoder = "exact"
           /\ enforcer # Null /\ encoder # "exact" =>
                \/ settings.environment.kind = "local"
                \/ settings.unsafe \/ ~ settings.strict

\* A blocked gateway holds nothing: no enforcer, no ledger thread, no encoder, in
\* whatever state its dependencies are (lifespan, main.py:56-61).
BlockedStartsNothing ==
  block # {} => /\ enforcer = Null /\ encoder = Null /\ ~ worker
                  /\ stage \in {"prepared", "serving"}

\* In production and in enforce mode only a hardened gateway lets requests past,
\* however the name of the environment is written: three modules read it, each with
\* its own notion of production (config.py, security_posture.py, metering.py).
ProductionIsHardened ==
  Ready /\ settings.environment.kind = "production" /\ settings.posture = "enforce" =>
    /\ settings.auth = "oidc" /\ settings.audit # "disabled" /\ settings.billing # "disabled"
    /\ enforcer = "redis"
    /\ settings.upstream = "private" \/ (settings.upstream = "public" /\ ~ settings.privateRequired)

\* A ready gateway resolves a host to the one entry that claims it in the file as it
\* was loaded, whatever the file holds now (TenantRegistry.load, resolve_by_host).
ResolvesToClaimant ==
  Ready => \A host \in Host :
             LET claimants == {i \in DOMAIN loaded : NamesHost(loaded[i], host)}
             IN IF claimants = {} THEN Resolved(host) = Null
                ELSE \E i \in claimants : claimants = {i} /\ Resolved(host) = loaded[i]

\* Settings and a file with which a start can get through.
Startable == /\ Accepted(settings) /\ file # Undecodable
             /\ BytesRefused(settings) => Block(settings) # {}

\* When failures and edits end with everything in place, a gateway serves again,
\* whatever starts that failed or were killed have left behind.
EventuallyServes == <>[](broken = {} /\ Startable) => []<>(stage = "serving")
============================================================================
