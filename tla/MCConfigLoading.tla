---------------------------- MODULE MCConfigLoading ----------------------------
(***************************************************************************)
(* An instance of ConfigLoading for TLC: the callers are alike, and so are *)
(* the two credentials.                                                    *)
(***************************************************************************)
EXTENDS ConfigLoading, TLC

CONSTANTS c1, c2, k1, k2

MCCaller == {c1, c2}
MCCred == {k1, k2}
Symmetric == Permutations(MCCaller) \cup Permutations(MCCred)

\* Every choice of telemetry and backends that is asked for alone or beside each other kind of
\* requirement.
Plain == [kind |-> "observability", hint |-> "", runtimes |-> {"cloud_run"}, modes |-> {"sidecar"},
          signals |-> {}, backends |-> {}]
Asks == {[Plain EXCEPT !.signals = s, !.backends = b] : s \in SUBSET Signal, b \in SUBSET Backend}
Others == {[Plain EXCEPT !.kind = "storage"], [Plain EXCEPT !.hint = "infra.vpc"],
           [Plain EXCEPT !.hint = Collector, !.runtimes = {}, !.modes = {}],
           [Plain EXCEPT !.runtimes = {"gke"}], [Plain EXCEPT !.modes = {"daemonset"}],
           [Plain EXCEPT !.signals = {"logs"}, !.backends = {"loki"}]}
MCRequirements == {<<a>> : a \in Asks} \cup {<<a, o>> : a \in Asks, o \in Others}
                  \cup {<<o>> : o \in Others} \cup {<<>>}
=============================================================================
