---------------------------- MODULE MCPartedDrivers ----------------------------
(***************************************************************************)
(* Instances of PartedDrivers for TLC: a VPC and a zone, both named, or    *)
(* the zone alone.                                                         *)
(***************************************************************************)
EXTENDS PartedDrivers, TLC

CONSTANTS net, zone, www, mx, v1, v2

MCTypeOf == [r \in Resource |-> IF r = net THEN "infra.vpc" ELSE "infra.dns"]

\* A VPC with a key that plans compare, with and without the name of its subnet.
MCNetSpecs == {[name |-> net, routing_mode |-> v1],
               [name |-> net, routing_mode |-> v1, subnet_id |-> net]}
Rec(n, v) == [name |-> n, value |-> v]
\* A zone whose second config gives one record two values.
MCZoneSpecs == {[name |-> zone, records |-> rs] :
                   rs \in {<<Rec(www, v1), Rec(mx, v1)>>, <<Rec(www, v1), Rec(www, v2)>>, Malformed}}
MCSpecs == [r \in Resource |-> IF r = net THEN MCNetSpecs ELSE MCZoneSpecs]
=============================================================================
