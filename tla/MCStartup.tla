----------------------------- MODULE MCStartup -----------------------------
(***************************************************************************)
(* A small instance of Startup: the settings of the manifests under k8s/   *)
(* and of the Makefile, variants of them, and registry files with and      *)
(* without mistakes.                                                       *)
(***************************************************************************)
EXTENDS Startup

CONSTANTS a, b, hostA, hostB, six, p1

Named(kind) == [kind |-> kind, plain |-> TRUE]

\* k8s/overlays/aws-danger/tenant-gateway-full-stack.yaml.tpl: no tokenizer is named.
FullStack ==
  [environment |-> Named("production"), auth |-> "oidc", unsafe |-> FALSE,
   posture |-> "enforce", upstream |-> "private", privateRequired |-> TRUE,
   quota |-> "redis", tokenizer |-> "utf8_bytes", path |-> FALSE, strict |-> TRUE,
   billing |-> "aws_native_reference", bucket |-> TRUE, audit |-> "stdout", catalog |-> TRUE]
\* k8s/tenant-policy-gateway/deployment.yaml
Base == [FullStack EXCEPT !.quota = "in_memory", !.billing = "ledger_required", !.audit = "jsonl"]
\* k8s/overlays/aws-demo/tenant-gateway-aws-demo.yaml
Demo == [Base EXCEPT !.environment = Named("other"), !.auth = "mock", !.unsafe = TRUE,
                     !.posture = "audit", !.upstream = "mock", !.privateRequired = FALSE,
                     !.billing = "observability"]
\* make run-hardening
Local == [Base EXCEPT !.environment = Named("local"), !.auth = "mock", !.posture = "audit",
                      !.upstream = "mock"]

MCConfigurations ==
  {FullStack, Base, Demo, Local,
   [FullStack EXCEPT !.tokenizer = "tiktoken"],
   [FullStack EXCEPT !.tokenizer = "tiktoken", !.catalog = FALSE],
   [FullStack EXCEPT !.tokenizer = "hf_local", !.path = TRUE, !.environment.plain = FALSE],
   [Base EXCEPT !.tokenizer = "tiktoken", !.environment.plain = FALSE],
   [Demo EXCEPT !.unsafe = FALSE], [Demo EXCEPT !.unsafe = FALSE, !.auth = "oidc"],
   [Local EXCEPT !.posture = "enforce"],
   [FullStack EXCEPT !.quota = "disabled", !.posture = "audit"],
   [FullStack EXCEPT !.bucket = FALSE, !.tokenizer = "hf_local"]}

Plain(n) == [name |-> n, upper |-> FALSE, port |-> NoPort]
Entry(id, domains) == [id |-> id, domains |-> domains, valid |-> TRUE]
A == Entry(a, <<[Plain(hostA) EXCEPT !.upper = TRUE], Plain(six)>>)

MCFiles ==
  {Unloadable, Undecodable, <<>>,
   <<A, Entry(b, <<Plain(hostB)>>)>>,
   <<A, Entry(b, <<Plain(hostA)>>)>>,
   <<A, Entry(b, <<[Plain(hostB) EXCEPT !.port = p1]>>)>>,
   <<A, [Entry(b, <<Plain(hostB)>>) EXCEPT !.valid = FALSE]>>}
============================================================================
