---------------------------- MODULE ConfigLoading ----------------------------
(***************************************************************************)
(* The plugin while a host loads a configuration: it may have requirements *)
(* mapped to modules first, and then has the modules created, started,     *)
(* used and stopped (CredentialModules).                                   *)
(***************************************************************************)
EXTENDS CredentialModules, RequirementMapper

CONSTANTS
    Runtime,      \* runtimes a request may name
    Requirements  \* sequences of requirements a request may hold

\* An unspecified signal or backend is dropped before it counts; the mapper knows no others.
ASSUME RequirementsAssumption ==
    \A reqs \in Requirements : \A i \in DOMAIN reqs :
        reqs[i].signals \subseteq Signal /\ reqs[i].backends \subseteq Backend

VARIABLES
    request,  \* the request being mapped, or None
    answer    \* what MapRequirements made of it, or None

deriving == <<request, answer>>

LoadInit == Init /\ request = None /\ answer = None

Unloaded == registry = [n \in Name |-> None] /\ \A s \in Storage : module[s] = Absent

Ask(runtime, reqs) ==
    /\ request' = [runtime |-> runtime, reqs |-> reqs]
    /\ answer' = MapRequirements(runtime, reqs)
    /\ UNCHANGED vars

\* The host turns the answer into configuration, which is its own from here on.
Take == request # None /\ request' = None /\ answer' = None /\ UNCHANGED vars

LoadNext ==
    \/ Unloaded /\ request = None /\ \E runtime \in Runtime, reqs \in Requirements : Ask(runtime, reqs)
    \/ Take
    \/ request = None /\ Next /\ UNCHANGED deriving

LoadSpec == LoadInit /\ [][LoadNext]_<<vars, deriving>>

(***************************************************************************)
(* Properties.                                                             *)
(***************************************************************************)
Derived == answer # None /\ answer.modules # <<>>
Config == answer.modules[1].config

\* The derived collector starts: its pipelines name exporters that are configured, no two
\* exporters have one name, what an exporter reads from the environment is given to the
\* service, and the port one listens on is open.
CollectorHoldsTogether ==
    Derived =>
        /\ \A s \in DOMAIN Config.pipelines : \A e \in Config.pipelines[s] :
              \E x \in Config.exporters : x.name = e
        /\ \A x, y \in Config.exporters : x.name = y.name => x = y
        /\ \A x \in Config.exporters : x.env \subseteq Config.env /\ x.port \in Config.ports \cup {0}

\* Telemetry an accepted requirement asks for reaches every backend it asks for, as far as the
\* backend takes that kind of telemetry.  (When no backend takes it, nothing says so.)
TelemetryArrives ==
    Derived => \A i \in answer.accepted :
        LET r == request.reqs[i]
        IN  \A s \in r.signals, b \in r.backends :
               \/ b = "prometheus" /\ s # "metrics"
               \/ b = "loki" /\ s # "logs"
               \/ s \in DOMAIN Config.pipelines /\ Exporter(b) \in Config.pipelines[s]
=============================================================================
