-------------------------- MODULE MCResourceDrivers --------------------------
(***************************************************************************)
(* Instances of ResourceDrivers for TLC: one or two resources, two values, *)
(* two config keys.                                                        *)
(***************************************************************************)
EXTENDS ResourceDrivers, TLC

CONSTANTS r1, r2, v1, v2

\* Every config of keys k1 and k2 over the values, with a name of its own or without.
Plain(k1, k2) == [{k1, k2} -> {v1, v2}]
Named(r, k1, k2) == {cfg @@ ("name" :> r) : cfg \in Plain(k1, k2)}

\* Two buckets whose configs give no name, and so get one name in the cloud.
MCBuckets == [r \in Resource |-> "infra.storage"]
MCUnnamedSpecs == [r \in Resource |-> Plain("location", "storage_class")]
\* Buckets with a name of their own.
MCNamedSpecs == [r \in Resource |-> Named(r, "location", "storage_class")]

\* A bucket and a database, both with a name; the tier of the database is not edited, but may
\* drift.
MCBucketAndDatabase == (r1 :> "infra.storage") @@ (r2 :> "infra.database")
MCBucketAndDatabaseSpecs == (r1 :> Named(r1, "location", "storage_class"))
                            @@ (r2 :> {[name |-> r2, tier |-> v1]})

\* A Cloud Run service.
MCService == [r \in Resource |-> "infra.container_service"]
MCServiceSpecs == [r \in Resource |-> {[name |-> r, image |-> v] : v \in {v1, v2}}]
=============================================================================
