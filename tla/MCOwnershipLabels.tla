--------------------------- MODULE MCOwnershipLabels ---------------------------
(***************************************************************************)
(* An instance of OwnershipLabels for TLC: a service with a namesake in    *)
(* another region, a database, a cache in another region, a bucket, and a  *)
(* type without owners.                                                    *)
(***************************************************************************)
EXTENDS OwnershipLabels, TLC

CONSTANTS c1, c2

MCCaller == {c1, c2}
Symmetric == Permutations(MCCaller)

MCAsset ==
    {[name |-> "service", region |-> "home"], [name |-> "service", region |-> "away"],
     [name |-> "database", region |-> "home"], [name |-> "bucket", region |-> "home"],
     [name |-> "cache", region |-> "away"], [name |-> "topic", region |-> "home"]}
MCWrites == [service |-> "etag", database |-> "whole", cache |-> "whole", bucket |-> "keys",
             topic |-> "none"]
=============================================================================
