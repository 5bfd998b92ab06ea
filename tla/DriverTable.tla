----------------------------- MODULE DriverTable -----------------------------
(***************************************************************************)
(* What tells the one-part resource drivers of provider/drivers apart: a   *)
(* record of facts for each driver and for each real client.  Every driver *)
(* otherwise runs the same code (see ResourceDrivers).  VPC and DNS, whose *)
(* resources have parts, are not in the table.                             *)
(*                                                                         *)
(* A config reaches the drivers as decoded JSON (specFromPB), so a number  *)
(* is never an int and a list never a []string: a key a client reads only  *)
(* in one of these forms is a key it never reads.                          *)
(***************************************************************************)

(***************************************************************************)
(* Of a client:                                                            *)
(*   answers    what its create call returns, which Create answers as the  *)
(*              ProviderID: the bare "name", the full "path" of the        *)
(*              resource, or the name of the create "operation"            *)
(*   takesPath  its other calls accept a full path besides a bare name     *)
(*   waits      create, update and delete wait for the end of the operation*)
(*   sets       config keys the create call sends                          *)
(*   updates    config keys the update call sends                          *)
(*   refuses    the update call always fails                               *)
(*   shows      config keys the get call returns as they were configured   *)
(*   garbles    config keys the get call returns in another form           *)
(***************************************************************************)

\* Create returns svc.Name, a path, which GetService and the others wrap once more.
CloudRunClient ==
    [answers |-> "path", takesPath |-> FALSE, waits |-> TRUE, sets |-> {"image"},
     updates |-> {"image", "labels"}, refuses |-> FALSE, shows |-> {}, garbles |-> {"name"}]

\* Create returns op.Name; node_count is read as an int only.
GKEClient ==
    [answers |-> "operation", takesPath |-> TRUE, waits |-> FALSE, sets |-> {"machine_type"},
     updates |-> {}, refuses |-> FALSE, shows |-> {"name"}, garbles |-> {}]

\* No call waits for its operation.
CloudSQLClient ==
    [answers |-> "name", takesPath |-> FALSE, waits |-> FALSE,
     sets |-> {"tier", "database_version", "region"},
     updates |-> {"tier", "labels"}, refuses |-> FALSE, shows |-> {"name", "tier"}, garbles |-> {}]

\* memory_size_gb is read as an int only.
MemorystoreClient ==
    [answers |-> "path", takesPath |-> FALSE, waits |-> TRUE, sets |-> {"tier"},
     updates |-> {"labels"}, refuses |-> FALSE, shows |-> {}, garbles |-> {"name"}]

\* An update without a "target" sends an empty one, which the API cannot take for a target; here
\* it changes nothing.
LoadBalancerClient ==
    [answers |-> "name", takesPath |-> FALSE, waits |-> TRUE, sets |-> {"target", "port_range"},
     updates |-> {"target"}, refuses |-> FALSE, shows |-> {"name", "target"}, garbles |-> {}]

ArtifactRegistryClient ==
    [answers |-> "path", takesPath |-> FALSE, waits |-> TRUE, sets |-> {"format"},
     updates |-> {"description", "labels"}, refuses |-> FALSE, shows |-> {"format"}, garbles |-> {"name"}]

APIGatewayClient ==
    [answers |-> "path", takesPath |-> FALSE, waits |-> TRUE, sets |-> {"api_config"},
     updates |-> {"api_config"}, refuses |-> FALSE, shows |-> {"api_config"}, garbles |-> {"name"}]

\* The update call sends the rule's name and nothing of the config.
FirewallClient ==
    [answers |-> "name", takesPath |-> FALSE, waits |-> TRUE, sets |-> {"network", "direction"},
     updates |-> {}, refuses |-> FALSE, shows |-> {"name", "direction"}, garbles |-> {"network"}]

\* role_id names the role, and stands here as "name"; Get answers no role_id.
\* permissions is read as a []string only.
IAMClient ==
    [answers |-> "path", takesPath |-> FALSE, waits |-> TRUE, sets |-> {"title"},
     updates |-> {"title"}, refuses |-> FALSE, shows |-> {"title", "permissions"}, garbles |-> {}]

\* Mutant of GCSClient: the storage class is not sent.
GCSClientDeaf ==
    [answers |-> "name", takesPath |-> FALSE, waits |-> TRUE, sets |-> {"location", "storage_class"},
     updates |-> {}, refuses |-> FALSE,
     shows |-> {"name", "location", "storage_class"}, garbles |-> {}]

GCSClient ==
    [answers |-> "name", takesPath |-> FALSE, waits |-> TRUE, sets |-> {"location", "storage_class"},
     updates |-> {"storage_class", "labels"}, refuses |-> FALSE,
     shows |-> {"name", "location", "storage_class"}, garbles |-> {}]

\* One domain is configured as a string and shown as a list.
SSLClient ==
    [answers |-> "name", takesPath |-> FALSE, waits |-> TRUE, sets |-> {"domains"},
     updates |-> {}, refuses |-> TRUE, shows |-> {"name"}, garbles |-> {"domains"}]

(***************************************************************************)
(* Of a driver:                                                            *)
(*   echoes     config keys Create's own outputs repeat                    *)
(*   distorts   config keys Create's own outputs hold in another form, or  *)
(*              with the provider's value (its region) for the configured  *)
(*   forces     keys a change of which Diff answers NeedsReplace for       *)
(*   swallows   "already exists" is a success of Create, "not found" one   *)
(*              of Delete                                                  *)
(***************************************************************************)
CloudRunDriver       == [echoes |-> {}, distorts |-> {"region"}, forces |-> {}, swallows |-> FALSE]
GKEDriver            == [echoes |-> {}, distorts |-> {"location"}, forces |-> {}, swallows |-> TRUE]
CloudSQLDriver       == [echoes |-> {}, distorts |-> {"region"},
                         forces |-> {"engine", "database_version"}, swallows |-> FALSE]
MemorystoreDriver    == [echoes |-> {}, distorts |-> {"region"}, forces |-> {}, swallows |-> FALSE]
LoadBalancerDriver   == [echoes |-> {}, distorts |-> {"region"}, forces |-> {}, swallows |-> FALSE]
ArtifactRegistryDriver == [echoes |-> {}, distorts |-> {"location"}, forces |-> {"format"},
                         swallows |-> FALSE]
APIGatewayDriver     == [echoes |-> {}, distorts |-> {"region"}, forces |-> {}, swallows |-> FALSE]
FirewallDriver       == [echoes |-> {"direction"}, distorts |-> {}, forces |-> {}, swallows |-> FALSE]
IAMDriver            == [echoes |-> {}, distorts |-> {"name"}, forces |-> {}, swallows |-> FALSE]
\* Mutant of GCSDriver: as idempotent as GKE's.
GCSDriverAdopts      == [echoes |-> {}, distorts |-> {}, forces |-> {"location"}, swallows |-> TRUE]
GCSDriver            == [echoes |-> {}, distorts |-> {}, forces |-> {"location"}, swallows |-> FALSE]
SSLCertificateDriver == [echoes |-> {}, distorts |-> {}, forces |-> {"domains"}, swallows |-> FALSE]

Types == {"infra.container_service", "infra.k8s_cluster", "infra.database", "infra.cache",
          "infra.load_balancer", "infra.registry", "infra.api_gateway", "infra.firewall",
          "infra.iam_role", "infra.storage", "infra.certificate"}

\* The driver registered for a resource type, and its client.
Driver == [t \in Types |->
    CASE t = "infra.container_service" -> CloudRunDriver
      [] t = "infra.k8s_cluster"       -> GKEDriver
      [] t = "infra.database"          -> CloudSQLDriver
      [] t = "infra.cache"             -> MemorystoreDriver
      [] t = "infra.load_balancer"     -> LoadBalancerDriver
      [] t = "infra.registry"          -> ArtifactRegistryDriver
      [] t = "infra.api_gateway"       -> APIGatewayDriver
      [] t = "infra.firewall"          -> FirewallDriver
      [] t = "infra.iam_role"          -> IAMDriver
      [] t = "infra.storage"           -> GCSDriver
      [] t = "infra.certificate"       -> SSLCertificateDriver]

Client == [t \in Types |->
    CASE t = "infra.container_service" -> CloudRunClient
      [] t = "infra.k8s_cluster"       -> GKEClient
      [] t = "infra.database"          -> CloudSQLClient
      [] t = "infra.cache"             -> MemorystoreClient
      [] t = "infra.load_balancer"     -> LoadBalancerClient
      [] t = "infra.registry"          -> ArtifactRegistryClient
      [] t = "infra.api_gateway"       -> APIGatewayClient
      [] t = "infra.firewall"          -> FirewallClient
      [] t = "infra.iam_role"          -> IAMClient
      [] t = "infra.storage"           -> GCSClient
      [] t = "infra.certificate"       -> SSLClient]
=============================================================================
