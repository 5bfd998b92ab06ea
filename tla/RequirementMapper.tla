-------------------------- MODULE RequirementMapper --------------------------
(***************************************************************************)
(* MapRequirements: which requirements the plugin takes, and the collector *)
(* service it derives from those it takes.  The collector's configuration  *)
(* is kept as what its parts say of one another: the exporters it          *)
(* configures, the environment they refer to, the exporters of a pipeline. *)
(***************************************************************************)
EXTENDS Naturals, Sequences

Signal == {"traces", "metrics", "logs"}
Backend == {"otel", "datadog", "prometheus", "loki", "grafana"}
Collector == "infra.container_service"

(***************************************************************************)
(* A requirement is [kind, hint, runtimes, modes, signals, backends]; a    *)
(* request is the runtime and a sequence of requirements.  (One that names *)
(* another provider is answered an error and nothing else: such requests   *)
(* are left out.)                                                          *)
(***************************************************************************)
AllowsRuntime(r, runtime) == r.runtimes = {} \/ runtime \in r.runtimes
AllowsDeploymentMode(r) == r.modes = {} \/ r.modes \cap {"sidecar", "sibling", "managed"} # {}

Rejection(runtime, r) ==
    IF r.kind # "observability" THEN "unsupported_kind"
    ELSE IF r.hint \notin {"", Collector} THEN "unsupported_resource_type_hint"
    ELSE IF runtime # "cloud_run" \/ ~AllowsRuntime(r, runtime) THEN "unsupported_runtime"
    ELSE IF ~AllowsDeploymentMode(r) THEN "unsupported_deployment_mode"
    ELSE "none"

\* What the requirements ask for together; nothing means everything, or OTEL.
OrElse(set, default) == IF set = {} THEN default ELSE set
RequestedSignals(reqs) == OrElse(UNION {reqs[i].signals : i \in DOMAIN reqs}, Signal)
\* Mutant of RequestedBackends: those of the first requirement.
RequestedBackendsFirst(reqs) ==
    LET first == CHOOSE i \in DOMAIN reqs : \A j \in DOMAIN reqs : i <= j
    IN  OrElse(reqs[first].backends, {"otel"})
RequestedBackends(reqs) == OrElse(UNION {reqs[i].backends : i \in DOMAIN reqs}, {"otel"})

\* The name of a backend's exporter, in the exporters section and in the pipelines.
Exporter(b) ==
    CASE b = "otel" -> "otlp"
      [] b = "grafana" -> "otlp/grafana_otlp"
      [] OTHER -> b

\* Prometheus takes metrics only and Loki logs only.
Takes(b, signal) ==
    CASE b = "prometheus" -> signal = "metrics"
      [] b = "loki" -> signal = "logs"
      [] OTHER -> TRUE
ExportersForSignal(signal, backends) == {Exporter(b) : b \in {b \in backends : Takes(b, signal)}}

\* Mutant of EnvVars: Datadog's site, which has a default elsewhere, is left out.
EnvVarsShort(backends) ==
    UNION {CASE b = "otel" -> {"OTEL_EXPORTER_OTLP_ENDPOINT"}
             [] b = "loki" -> {"LOKI_ENDPOINT"}
             [] b = "grafana" -> {"GRAFANA_OTLP_ENDPOINT"}
             [] OTHER -> {} : b \in backends}
EnvVars(backends) ==
    UNION {CASE b = "otel" -> {"OTEL_EXPORTER_OTLP_ENDPOINT"}
             [] b = "datadog" -> {"DD_SITE"}
             [] b = "loki" -> {"LOKI_ENDPOINT"}
             [] b = "grafana" -> {"GRAFANA_OTLP_ENDPOINT"}
             [] OTHER -> {} : b \in backends}
SecretVars(backends) ==
    UNION {CASE b = "datadog" -> {"DD_API_KEY"}
             [] b = "grafana" -> {"GRAFANA_OTLP_HEADERS"}
             [] OTHER -> {} : b \in backends}
Ports(backends) == {4317, 4318} \cup (IF "prometheus" \in backends THEN {9464} ELSE {})

\* A backend's part of the exporters section: what its exporter reads from the environment,
\* and where it listens.
Section(b) ==
    CASE b = "otel" -> [name |-> "otlp", env |-> {"OTEL_EXPORTER_OTLP_ENDPOINT"}, port |-> 0]
      [] b = "datadog" -> [name |-> "datadog", env |-> {"DD_API_KEY", "DD_SITE"}, port |-> 0]
      [] b = "prometheus" -> [name |-> "prometheus", env |-> {}, port |-> 9464]
      [] b = "loki" -> [name |-> "loki", env |-> {"LOKI_ENDPOINT"}, port |-> 0]
      [] b = "grafana" -> [name |-> "otlp/grafana_otlp",
                           env |-> {"GRAFANA_OTLP_ENDPOINT", "GRAFANA_OTLP_HEADERS"}, port |-> 0]
WriteExporters(backends) == {Section(b) : b \in backends}

\* A signal without exporters gets no pipeline.
CollectorModuleConfig(reqs) ==
    LET backends == RequestedBackends(reqs)
        exporters == [s \in RequestedSignals(reqs) |-> ExportersForSignal(s, backends)]
    IN  [exporters |-> WriteExporters(backends),
         pipelines |-> [s \in {s \in DOMAIN exporters : exporters[s] # {}} |-> exporters[s]],
         env |-> EnvVars(backends) \cup SecretVars(backends), ports |-> Ports(backends)]

\* The requirements taken, and the ones refused, by their place in the request, which both lists
\* of the answer follow.
Accepted(runtime, reqs) == {i \in DOMAIN reqs : Rejection(runtime, reqs[i]) = "none"}

\* The answer to a request: nothing is derived when nothing is accepted.
MapRequirements(runtime, reqs) ==
    LET accepted == Accepted(runtime, reqs)
        config == CollectorModuleConfig([i \in accepted |-> reqs[i]])
    IN  [accepted |-> accepted, rejected |-> DOMAIN reqs \ accepted,
         modules |-> IF accepted = {} THEN <<>>
                     ELSE <<[satisfies |-> accepted, config |-> config]>>]
=============================================================================
