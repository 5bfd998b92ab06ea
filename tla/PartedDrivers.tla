---------------------------- MODULE PartedDrivers ----------------------------
(***************************************************************************)
(* The drivers whose resources have parts: a VPC is a network and its      *)
(* subnet, a DNS resource a managed zone and its record sets.  One RPC is  *)
(* several calls of the cloud, made one after the other, so a handler is a *)
(* sequence of steps here and can be cut off between any two of them.      *)
(* Hosts, entries and plans are those of ResourceDrivers; what differs is  *)
(* which of the parts a plan can see and which a call can put right.       *)
(*                                                                         *)
(* Others may write and remove records of a zone at any time.              *)
(***************************************************************************)
EXTENDS Sequences, Naturals

CONSTANTS
    Resource,   \* the resources the host manages, by spec name
    TypeOf,     \* "infra.vpc" or "infra.dns"
    Record,     \* the record sets of a zone, by name and type
    Value,      \* what a record set holds
    Specs,      \* the configs each resource may be given: functions on keys
    Retirable,  \* resources the host may stop wanting
    Default,    \* the cloud name a client falls back to without a "name"
    Nobody,     \* the maker of a network or zone that does not exist
    Unset,      \* the value of a record set, or of an attribute, that does not exist
    Malformed,  \* "records" that are not a list
    Unwanted,   \* the config of a resource the host does not want
    MaxEdits,   \* bound: config edits
    MaxFaults,  \* bound: calls cut off
    MaxDrifts   \* bound: records others write or remove

Config == UNION {Specs[r] : r \in Resource}
Entries == {[name |-> n, value |-> v] : n \in Record, v \in Value}

\* A VPC's subnet_id, if given, names a subnet of these; a resource's configs agree on its name.
ASSUME PartsAssumption ==
    /\ TypeOf \in [Resource -> {"infra.vpc", "infra.dns"}]
    /\ Default \notin Resource /\ Nobody \notin Resource /\ Unset \notin Value
    /\ \A r \in Resource : \A cfg \in Specs[r] :
          /\ "subnet_id" \in DOMAIN cfg => cfg["subnet_id"] \in Resource
          /\ TypeOf[r] = "infra.dns" => cfg["records"] \in Seq(Entries) \cup {Malformed}
    /\ \A r \in Resource :
          \/ \A cfg \in Specs[r] : "name" \in DOMAIN cfg /\ cfg["name"] = r
          \/ \A cfg \in Specs[r] : "name" \notin DOMAIN cfg
    /\ Unwanted \notin Config
ASSUME PartBounds == MaxEdits \in Nat /\ MaxFaults \in Nat /\ MaxDrifts \in Nat

VARIABLES
    desired,  \* the config the host wants of each resource, or Unwanted
    state,    \* the host's state entries; from: the config last answered (history)
    call,     \* the call under way on each resource, and the last answer
    wholes,   \* networks and zones: which resource each was made for (history), or Nobody
    subnets,  \* the subnet named after each resource: the network it is in, or Unset
    records,  \* the record sets of each zone
    doubt,    \* history: resources one of whose calls ended half way
    altered,  \* history: records somebody else was the last to change
    edits, faults, drifts

cloud == <<wholes, subnets, records>>
vars == <<desired, state, call, cloud, doubt, altered, edits, faults, drifts>>

Slot == {TypeOf[r] : r \in Resource} \X (Resource \cup {Default})
NoEntry == [seen |-> "none", cname |-> Default, from |-> Unwanted]
Idle == [at |-> "idle", op |-> "none", on |-> <<>>, cfg |-> Unwanted, left |-> <<>>,
         told |-> "none"]

Init ==
    /\ desired \in [Resource -> Config] /\ \A r \in Resource : desired[r] \in Specs[r]
    /\ state = [r \in Resource |-> NoEntry]
    /\ call = [r \in Resource |-> Idle]
    /\ wholes = [s \in Slot |-> Nobody]
    /\ subnets = [r \in Resource |-> Unset]
    /\ records = [s \in Slot |-> [n \in Record |-> Unset]]
    /\ doubt = {} /\ altered = {} /\ edits = 0 /\ faults = 0 /\ drifts = 0

(***************************************************************************)
(* Names, outputs and the plan.                                            *)
(***************************************************************************)
SlotFor(r, cfg) == <<TypeOf[r], IF "name" \in DOMAIN cfg THEN cfg["name"] ELSE Default>>
HasEntry(r) == state[r].seen # "none"
Addressed(r) == <<TypeOf[r], state[r].cname>>
Stands(s) == wholes[s] # Nobody

\* What GetNetwork answers.  No subnet, which VPCDriver.Delete asks it for.
NetworkShown == {"name", "network_id", "self_link", "routing_mode"}

\* The config keys the remembered outputs have.  A read zone's records are shown in a form
\* in which they never equal those of a config.
Outputs(r) ==
    IF TypeOf[r] = "infra.vpc"
    THEN IF state[r].seen = "created" THEN {"network_id", "subnet_id", "region"} ELSE NetworkShown
    ELSE IF state[r].seen = "created" THEN {"zone_id", "domain", "dns_name"}
         ELSE {"name", "dns_name", "domain", "records", "record_count"}
\* The network's routing mode is never sent: one that is configured differs for ever.
Agrees(r, k) == \/ k \in {"name", "dns_name"}
                \/ k = "subnet_id" /\ desired[r][k] = r
                \/ k = "routing_mode" /\ desired[r][k] = Unset

\* subnet_cidr would force a replacement, and is in no outputs.
PlanAction(r) ==
    IF ~HasEntry(r) THEN "create"
    ELSE IF \E k \in DOMAIN desired[r] \cap Outputs(r) : ~Agrees(r, k) THEN "update"
    ELSE "none"

(***************************************************************************)
(* The host's steps.                                                       *)
(***************************************************************************)
Want(r, cfg) ==
    /\ edits < MaxEdits /\ cfg # desired[r]
    /\ desired' = [desired EXCEPT ![r] = cfg] /\ edits' = edits + 1
    /\ UNCHANGED <<state, call, cloud, doubt, altered, faults, drifts>>

FirstStep(r, action) ==
    CASE action = "delete" -> "delete"
      [] action = "create" -> IF TypeOf[r] = "infra.dns" THEN "zone" ELSE "network"
      [] action = "update" -> IF TypeOf[r] = "infra.dns" THEN "patch_zone"
                              ELSE IF "subnet_id" \in DOMAIN desired[r] THEN "drop_subnet"
                              ELSE "read"

Start(r) ==
    LET action == IF desired[r] # Unwanted THEN PlanAction(r)
                  ELSE IF HasEntry(r) THEN "delete" ELSE "none"
    IN  /\ call[r].at = "idle" /\ action # "none"
        /\ call' = [call EXCEPT ![r] =
              [at |-> FirstStep(r, action), op |-> action, cfg |-> desired[r], left |-> <<>>,
               on |-> IF action = "create" THEN SlotFor(r, desired[r]) ELSE Addressed(r),
               told |-> "none"]]
        /\ UNCHANGED <<desired, state, cloud, doubt, altered, edits, faults, drifts>>

Ended(r, told) == [call EXCEPT ![r] = [Idle EXCEPT !.told = told]]
Entry(seen, cname, from) == [seen |-> seen, cname |-> cname, from |-> from]

\* Status: the outputs read are kept.
Refresh(r) ==
    /\ call[r].at = "idle" /\ HasEntry(r) /\ Stands(Addressed(r))
    /\ state' = [state EXCEPT ![r].seen = "read"]
    /\ call' = Ended(r, "ok")
    /\ UNCHANGED <<desired, cloud, doubt, altered, edits, faults, drifts>>

\* Told that the resource exists, the host imports it by its name: parts are not looked at.
Import(r) ==
    /\ call[r].at = "idle" /\ call[r].told = "exists" /\ ~HasEntry(r)
    /\ desired[r] # Unwanted /\ "name" \in DOMAIN desired[r]
    /\ Stands(SlotFor(r, desired[r]))
    /\ state' = [state EXCEPT ![r] = Entry("read", desired[r]["name"], desired[r])]
    /\ call' = Ended(r, "ok") /\ doubt' = doubt \cup {r}
    /\ UNCHANGED <<desired, cloud, altered, edits, faults, drifts>>

(***************************************************************************)
(* The handlers, call by call.                                             *)
(***************************************************************************)
To(r, step) == [call EXCEPT ![r].at = step]
Refused(r, told) == call' = Ended(r, told) /\ UNCHANGED <<cloud, doubt, altered>>
CutShort(r) == /\ call' = Ended(r, "error") /\ doubt' = doubt \cup {r}
               /\ UNCHANGED <<cloud, altered>>

CreateNetwork(r) ==
    /\ call[r].at = "network"
    /\ \/ /\ ~Stands(call[r].on)
          /\ wholes' = [wholes EXCEPT ![call[r].on] = r] /\ call' = To(r, "subnet")
          /\ UNCHANGED <<subnets, records, doubt, altered>>
       \/ Stands(call[r].on) /\ Refused(r, "exists")
    /\ UNCHANGED <<desired, state, edits, faults, drifts>>

\* The subnet is named after the spec, and needs its network.
CreateSubnet(r) ==
    /\ call[r].at = "subnet"
    /\ IF subnets[r] = Unset /\ Stands(call[r].on)
       THEN /\ subnets' = [subnets EXCEPT ![r] = call[r].on]
            /\ call' = To(r, IF call[r].op = "create" THEN "answer" ELSE "read")
            /\ UNCHANGED <<wholes, records, doubt, altered>>
       ELSE CutShort(r)
    /\ UNCHANGED <<desired, state, edits, faults, drifts>>

\* Mutant of DropSubnet: the new subnet is left for later.
DropSubnetOnly(r) ==
    /\ call[r].at = "drop_subnet"
    /\ LET old == call[r].cfg["subnet_id"]
       IN  IF subnets[old] # Unset
           THEN /\ subnets' = [subnets EXCEPT ![old] = Unset] /\ call' = To(r, "read")
                /\ UNCHANGED <<wholes, records, doubt, altered>>
           ELSE Refused(r, "error")
    /\ UNCHANGED <<desired, state, edits, faults, drifts>>

\* Update removes the subnet the config names before it creates the new one.
DropSubnet(r) ==
    /\ call[r].at = "drop_subnet"
    /\ LET old == call[r].cfg["subnet_id"]
       IN  IF subnets[old] # Unset
           THEN /\ subnets' = [subnets EXCEPT ![old] = Unset] /\ call' = To(r, "subnet")
                /\ UNCHANGED <<wholes, records, doubt, altered>>
           ELSE Refused(r, "error")
    /\ UNCHANGED <<desired, state, edits, faults, drifts>>

\* Mutant of Upserting: the loop over the records goes on past their end.
UpsertingPast(r, todo) == [To(r, "upsert") EXCEPT ![r].left = todo]

\* The records of the config are read once the zone is there: a bad list is found late.
Upserting(r, todo) ==
    LET step == IF todo # <<>> THEN "upsert" ELSE IF call[r].op = "create" THEN "answer" ELSE "read"
    IN  [To(r, step) EXCEPT ![r].left = todo]
UpsertConfigured(r) ==
    IF call[r].cfg["records"] = Malformed
    THEN call' = Ended(r, "error") /\ doubt' = doubt \cup {r}
    ELSE call' = Upserting(r, call[r].cfg["records"]) /\ UNCHANGED doubt

CreateZone(r) ==
    /\ call[r].at = "zone"
    /\ \/ /\ ~Stands(call[r].on)
          /\ wholes' = [wholes EXCEPT ![call[r].on] = r] /\ UpsertConfigured(r)
          /\ UNCHANGED <<subnets, records, altered>>
       \/ Stands(call[r].on) /\ Refused(r, "exists")
    /\ UNCHANGED <<desired, state, edits, faults, drifts>>

\* Update patches the zone's description.
PatchZone(r) ==
    /\ call[r].at = "patch_zone"
    /\ \/ Stands(call[r].on) /\ UpsertConfigured(r) /\ UNCHANGED <<cloud, altered>>
       \/ ~Stands(call[r].on) /\ Refused(r, "error")
    /\ UNCHANGED <<desired, state, edits, faults, drifts>>

Written(r) ==
    LET s == call[r].on  rec == Head(call[r].left)
    IN  /\ records' = [records EXCEPT ![s][rec.name] = rec.value]
        /\ altered' = altered \ {<<s, rec.name>>}
        /\ call' = Upserting(r, Tail(call[r].left))
        /\ UNCHANGED <<wholes, subnets, doubt>>

\* Mutant of CreateRecord: a record that exists is left as it is.
CreateRecordOnce(r) ==
    /\ call[r].at = "upsert"
    /\ LET s == call[r].on  n == Head(call[r].left).name
       IN  \/ Stands(s) /\ records[s][n] = Unset /\ Written(r)
           \/ /\ Stands(s) /\ records[s][n] # Unset
              /\ call' = Upserting(r, Tail(call[r].left)) /\ UNCHANGED <<cloud, doubt, altered>>
           \/ ~Stands(s) /\ CutShort(r)
    /\ UNCHANGED <<desired, state, edits, faults, drifts>>

\* An upsert creates the record set and, told that it exists, patches it.
CreateRecord(r) ==
    /\ call[r].at = "upsert"
    /\ LET s == call[r].on  n == Head(call[r].left).name
       IN  \/ Stands(s) /\ records[s][n] = Unset /\ Written(r)
           \/ /\ Stands(s) /\ records[s][n] # Unset
              /\ call' = To(r, "repatch") /\ UNCHANGED <<cloud, doubt, altered>>
           \/ ~Stands(s) /\ CutShort(r)
    /\ UNCHANGED <<desired, state, edits, faults, drifts>>

\* What exists when it is to be created may be gone when it is to be patched.
PatchRecord(r) ==
    /\ call[r].at = "repatch"
    /\ LET s == call[r].on  n == Head(call[r].left).name
       IN  \/ records[s][n] # Unset /\ Written(r)
           \/ records[s][n] = Unset /\ CutShort(r)
    /\ UNCHANGED <<desired, state, edits, faults, drifts>>

\* Update's closing Read.
ReadBack(r) ==
    /\ call[r].at = "read"
    /\ IF Stands(call[r].on) THEN call' = To(r, "answer") /\ UNCHANGED <<cloud, doubt, altered>>
       ELSE CutShort(r)
    /\ UNCHANGED <<desired, state, edits, faults, drifts>>

\* Mutant of Delete: the cloud's refusal is taken for "gone".
DeleteAnyway(r) ==
    /\ call[r].at = "delete"
    /\ LET s == call[r].on
           parts == {x \in Resource : subnets[x] = s} \cup {n \in Record : records[s][n] # Unset}
       IN  wholes' = IF parts = {} THEN [wholes EXCEPT ![s] = Nobody] ELSE wholes
    /\ call' = To(r, "answer")
    /\ UNCHANGED <<subnets, records, doubt, altered, desired, state, edits, faults, drifts>>

\* A network's subnet is removed before it if GetNetwork answers one; the cloud refuses to
\* remove a network with a subnet and a zone with records.
Delete(r) ==
    /\ call[r].at = "delete"
    /\ LET s == call[r].on
           remain == IF TypeOf[r] = "infra.vpc" /\ "subnet_id" \in NetworkShown
                     THEN [subnets EXCEPT ![r] = Unset] ELSE subnets
           parts == {x \in Resource : remain[x] = s} \cup {n \in Record : records[s][n] # Unset}
       IN  /\ subnets' = remain
           /\ \/ /\ Stands(s) /\ parts = {}
                 /\ wholes' = [wholes EXCEPT ![s] = Nobody] /\ call' = To(r, "answer")
              \/ /\ ~(Stands(s) /\ parts = {})
                 /\ call' = Ended(r, "error") /\ UNCHANGED wholes
    /\ UNCHANGED <<records, doubt, altered, desired, state, edits, faults, drifts>>

\* The answer arrives.  An Update that left the subnet alone settles no doubt about it.
Answer(r) ==
    /\ call[r].at = "answer"
    /\ state' = [state EXCEPT ![r] =
          CASE call[r].op = "create" -> Entry("created", call[r].on[2], call[r].cfg)
            [] call[r].op = "update" -> Entry("read", call[r].on[2], call[r].cfg)
            [] OTHER -> NoEntry]
    /\ doubt' = IF call[r].op = "update" /\ TypeOf[r] = "infra.vpc"
                   /\ "subnet_id" \notin DOMAIN call[r].cfg
                THEN doubt ELSE doubt \ {r}
    /\ call' = Ended(r, "ok")
    /\ UNCHANGED <<desired, cloud, altered, edits, faults, drifts>>

\* A call of the cloud fails, the context ends or the plugin dies: what was done stays done.
Lost(r) ==
    /\ call[r].at # "idle" /\ faults < MaxFaults
    /\ call' = Ended(r, "error") /\ faults' = faults + 1 /\ doubt' = doubt \cup {r}
    /\ UNCHANGED <<desired, state, cloud, altered, edits, drifts>>

\* Somebody else writes or removes a record.
OthersChange(s, n, v) ==
    /\ drifts < MaxDrifts /\ s[1] = "infra.dns" /\ Stands(s) /\ records[s][n] # v
    /\ records' = [records EXCEPT ![s][n] = v] /\ drifts' = drifts + 1
    /\ altered' = altered \cup {<<s, n>>}
    /\ UNCHANGED <<desired, state, call, wholes, subnets, doubt, edits, faults>>

Handle(r) ==
    \/ CreateNetwork(r) \/ CreateSubnet(r) \/ DropSubnet(r)
    \/ CreateZone(r) \/ PatchZone(r) \/ CreateRecord(r) \/ PatchRecord(r)
    \/ ReadBack(r) \/ Delete(r) \/ Answer(r)

Next ==
    \/ \E r \in Resource :
          \/ \E cfg \in Specs[r] \cup (IF r \in Retirable THEN {Unwanted} ELSE {}) : Want(r, cfg)
          \/ Start(r) \/ Refresh(r) \/ Import(r) \/ Handle(r) \/ Lost(r)
    \/ \E s \in Slot, n \in Record, v \in Value \cup {Unset} : OthersChange(s, n, v)

Spec == Init /\ [][Next]_vars

\* As in ResourceDrivers: handlers go on, and the host plans, refreshes and imports; of zones,
\* which alone are claimed to converge.
Zones == {r \in Resource : TypeOf[r] = "infra.dns"}
FairSpec ==
    /\ Spec
    /\ \A r \in Zones : /\ WF_vars(Handle(r)) /\ SF_vars(Start(r))
                        /\ SF_vars(Refresh(r)) /\ SF_vars(Import(r))

(***************************************************************************)
(* Properties.                                                             *)
(***************************************************************************)
Steps == {"idle", "network", "subnet", "drop_subnet", "zone", "patch_zone", "upsert",
          "repatch", "read", "delete", "answer"}
TypeOK ==
    /\ \A r \in Resource :
          /\ desired[r] \in Specs[r] \cup {Unwanted}
          /\ state[r] = Entry(state[r].seen, state[r].cname, state[r].from)
          /\ state[r].seen \in {"none", "created", "read"}
          /\ state[r].cname \in Resource \cup {Default}
          /\ state[r].from \in Config \cup {Unwanted}
          /\ call[r].at \in Steps /\ call[r].op \in {"none", "create", "update", "delete"}
          /\ call[r].cfg \in Config \cup {Unwanted} /\ call[r].left \in Seq(Entries)
          /\ call[r].on \in Slot \cup {<<>>}
          /\ call[r].told \in {"none", "ok", "error", "exists"}
          /\ call[r].at # "idle" => call[r].on \in Slot
          /\ call[r].at \in {"upsert", "repatch"} => call[r].left # <<>>
    /\ wholes \in [Slot -> Resource \cup {Nobody}]
    /\ subnets \in [Resource -> Slot \cup {Unset}]
    /\ records \in [Slot -> [Record -> Value \cup {Unset}]]
    /\ doubt \subseteq Resource /\ altered \subseteq Slot \X Record
    /\ edits \in 0..MaxEdits /\ faults \in 0..MaxFaults /\ drifts \in 0..MaxDrifts

\* Of the records of one name and type in a config the last one is written last, and counts.
Lasting(recs) == {i \in DOMAIN recs : \A k \in DOMAIN recs : k > i => recs[k].name # recs[i].name}

\* An entry that no call was cut off on leads to the resource made for it with all its parts:
\* a network with its subnet, a zone in which every record of the config last answered has
\* the value configured, unless somebody else changed it since.
PartsKept ==
    \A r \in Resource \ doubt : (HasEntry(r) /\ call[r].at = "idle") =>
        /\ wholes[Addressed(r)] = r
        /\ TypeOf[r] = "infra.vpc" => subnets[r] = Addressed(r)
        /\ TypeOf[r] = "infra.dns" =>
              \A i \in Lasting(state[r].from["records"]) :
                  LET rec == state[r].from["records"][i]
                  IN  \/ records[Addressed(r)][rec.name] = rec.value
                      \/ <<Addressed(r), rec.name>> \in altered

\* No network or zone stands that its maker has no entry for: it is still being created, or
\* a call was cut off.
NothingStray ==
    \A s \in Slot : Stands(s) =>
        LET r == wholes[s]
        IN  \/ r \in doubt
            \/ HasEntry(r) /\ Addressed(r) = s
            \/ call[r].at # "idle" /\ call[r].op = "create" /\ call[r].on = s

\* The zone is gone by a Delete whose answer was lost, and its entry is not.
LeftOver(r) == HasEntry(r) /\ r \in doubt /\ ~Stands(Addressed(r))

\* Once edits, failures and other writers stop, the zone of every named DNS resource that is
\* wanted stands with all its records as configured, wherever a Create or Update was cut off
\* and whatever the host wanted in between.  Two cases are excepted.  Where a Delete that took
\* effect lost its answer and the zone is wanted again, its entry keeps the host from ever
\* creating it.  And a record that is configured twice has either value by turns, as every
\* plan updates a zone it read.
AsConfigured(r) ==
    \/ desired[r] = Unwanted \/ desired[r]["records"] = Malformed \/ LeftOver(r)
    \/ LET slot == SlotFor(r, desired[r])
           recs == desired[r]["records"]
       IN  \/ Lasting(recs) # DOMAIN recs
           \/ Stands(slot) /\ \A i \in DOMAIN recs : records[slot][recs[i].name] = recs[i].value
ZonesConverge == \A r \in Zones : <>[]AsConfigured(r)
=============================================================================
