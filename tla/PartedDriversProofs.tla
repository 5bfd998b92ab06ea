------------------------- MODULE PartedDriversProofs -------------------------
(***************************************************************************)
(* Of the drivers whose resources have parts, for any configs, edits, cut  *)
(* off calls and writers of records: the types; and, where resources are   *)
(* named, that an entry leads to a resource with all its parts and that    *)
(* nothing stands unknown.                                                 *)
(***************************************************************************)
EXTENDS PartedDrivers, SequenceTheorems, TLAPS

-----------------------------------------------------------------------------
(* Types *)

Told == {"none", "ok", "error", "exists"}
Ops == {"none", "create", "update", "delete"}
Calls == [at : Steps, op : Ops, on : Slot \cup {<<>>}, cfg : Config \cup {Unwanted},
          left : Seq(Entries), told : Told]
StateEntries == [seen : {"none", "created", "read"}, cname : Resource \cup {Default},
                 from : Config \cup {Unwanted}]

\* Which steps belong to which RPC of which type, and what config they work on.
StepFits(r, c) ==
    /\ c.at = "idle" <=> c.op = "none"
    /\ c.at # "idle" => c.on \in Slot
    /\ c.at \in {"network", "zone"} => c.op = "create"
    /\ c.at \in {"subnet", "upsert", "repatch"} => c.op \in {"create", "update"}
    /\ c.at \in {"drop_subnet", "patch_zone", "read"} => c.op = "update"
    /\ c.at = "delete" => c.op = "delete"
    /\ c.at \in {"network", "subnet", "drop_subnet"} => TypeOf[r] = "infra.vpc"
    /\ c.at \in {"zone", "patch_zone", "upsert", "repatch"} => TypeOf[r] = "infra.dns"
    /\ c.op \in {"create", "update"} => c.cfg \in Specs[r]
    /\ c.at = "drop_subnet" \/ (c.at = "subnet" /\ c.op = "update") => "subnet_id" \in DOMAIN c.cfg
    /\ c.at \in {"upsert", "repatch"} => c.left # <<>>

CallTyped(r, c) == c \in Calls /\ StepFits(r, c)
CallsTyped == call \in [Resource -> Calls] /\ \A r \in Resource : StepFits(r, call[r])
DesiredTyped == /\ desired \in [Resource -> Config \cup {Unwanted}]
                /\ \A r \in Resource : desired[r] \in Specs[r] \cup {Unwanted}
EntriesTyped == state \in [Resource -> StateEntries]
CloudTyped == /\ wholes \in [Slot -> Resource \cup {Nobody}]
              /\ subnets \in [Resource -> Slot \cup {Unset}]
              /\ records \in [Slot -> [Record -> Value \cup {Unset}]]
HistoryTyped == doubt \subseteq Resource /\ altered \subseteq Slot \X Record
CountsTyped == edits \in 0..MaxEdits /\ faults \in 0..MaxFaults /\ drifts \in 0..MaxDrifts
TypeInv == /\ DesiredTyped /\ EntriesTyped /\ CallsTyped /\ CloudTyped /\ HistoryTyped
           /\ CountsTyped

-----------------------------------------------------------------------------
(* What entries, parts and calls say of one another, where resources are named *)

\* Every config gives its resource's name, and a VPC's subnet_id is its own subnet's.
Named == \A r \in Resource : \A cfg \in Specs[r] : "name" \in DOMAIN cfg
OwnSubnets ==
    \A r \in Resource : \A cfg \in Specs[r] : "subnet_id" \in DOMAIN cfg => cfg["subnet_id"] = r

Home(r) == <<TypeOf[r], r>>
IsVPC(r) == TypeOf[r] = "infra.vpc"
IsZone(r) == TypeOf[r] = "infra.dns"

\* What stands was made for the resource that has its place.
Standing == \A s \in Slot : Stands(s) => s = Home(wholes[s])

\* Calls and entries of r lead to its place, and so does its subnet; Create is called without
\* an entry, Update and Delete with one.
Placed(r) ==
    /\ call[r].at # "idle" => call[r].on = Home(r)
    /\ HasEntry(r) => state[r].cname = r
    /\ subnets[r] \in {Unset, Home(r)}
    /\ call[r].op = "create" => ~HasEntry(r)
    /\ call[r].op \in {"update", "delete"} => HasEntry(r)

\* What stands is in doubt, has its entry, or is being created.
Known(r) ==
    /\ Stands(Home(r)) => \/ r \in doubt \/ HasEntry(r)
                          \/ call[r].op = "create" /\ call[r].at \notin {"network", "zone"}
    /\ call[r].op = "delete" /\ call[r].at = "answer" => ~Stands(Home(r))

\* The network of r has its subnet, except while an Update replaces it.
VPCWhole(r) == wholes[Home(r)] = r /\ subnets[r] = Home(r)
VPCKept(r) ==
    LET c == call[r]
        replaces == c.op = "update" /\ "subnet_id" \in DOMAIN c.cfg
    IN  /\ (r \notin doubt /\ HasEntry(r) /\ c.at # "subnet"
               /\ ~(c.at = "answer" /\ c.op = "delete"))
           => VPCWhole(r)
        /\ (c.at = "answer" /\ (c.op = "create" \/ replaces)) => VPCWhole(r)
        /\ (c.at = "read" /\ replaces) => subnets[r] = Home(r)

\* The first m records of a config that count are in the zone, or were altered by others.
HoldTo(r, recs, m) ==
    \A i \in Lasting(recs) : i <= m =>
        \/ records[Home(r)][recs[i].name] = recs[i].value
        \/ <<Home(r), recs[i].name>> \in altered
Hold(r, recs) ==
    \A i \in Lasting(recs) : \/ records[Home(r)][recs[i].name] = recs[i].value
                             \/ <<Home(r), recs[i].name>> \in altered

\* What is left to write are the last of the records configured.
LeftOf(recs, left) ==
    /\ recs \in Seq(Entries) /\ Len(left) <= Len(recs)
    /\ \A i \in 1..Len(left) : left[i] = recs[Len(recs) - Len(left) + i]

ZoneKept(r) ==
    LET c == call[r]
        recs == c.cfg["records"]
    IN  /\ (r \notin doubt /\ HasEntry(r) /\ c.at \in {"idle", "patch_zone", "delete"})
           => wholes[Home(r)] = r /\ Hold(r, state[r].from["records"])
        /\ c.at \in {"upsert", "repatch"} =>
              /\ wholes[Home(r)] = r /\ LeftOf(recs, c.left)
              /\ HoldTo(r, recs, Len(recs) - Len(c.left))
        /\ (c.at \in {"read", "answer"} /\ c.op \in {"create", "update"})
           => wholes[Home(r)] = r /\ Hold(r, recs)

\* What the parts say of one resource.
Fits(r) == Placed(r) /\ Known(r) /\ (IsVPC(r) => VPCKept(r)) /\ (IsZone(r) => ZoneKept(r))
PartsInv == Standing /\ \A r \in Resource : Fits(r)

-----------------------------------------------------------------------------
(* Types: how calls move *)

\* A call that becomes another of its resource leaves the others alone.
LEMMA CallBecomes ==
    ASSUME CallsTyped, NEW r \in Resource, NEW c, CallTyped(r, c), call' = [call EXCEPT ![r] = c]
    PROVE  CallsTyped' /\ call'[r] = c /\ \A q \in Resource \ {r} : call'[q] = call[q]
BY DEF CallsTyped, CallTyped

LEMMA Ends ==
    ASSUME CallsTyped, NEW r \in Resource, NEW told \in Told, call' = Ended(r, told)
    PROVE  /\ CallsTyped' /\ call'[r].at = "idle" /\ call'[r].op = "none"
           /\ \A q \in Resource \ {r} : call'[q] = call[q]
<1> DEFINE c == [Idle EXCEPT !.told = told]
<1>1. c = [at |-> "idle", op |-> "none", on |-> <<>>, cfg |-> Unwanted, left |-> <<>>,
           told |-> told]
  BY DEF Idle
<1>2. c.at = "idle" /\ c.op = "none"
  BY <1>1
<1>3. CallTyped(r, c)
  <2>1. <<>> \in Seq(Entries) /\ "idle" \in Steps /\ "none" \in Ops
    BY DEF Steps, Ops
  <2>2. c \in Calls
    BY <1>1, <2>1 DEF Calls
  <2>3. StepFits(r, c)
    BY <1>2 DEF StepFits
  <2> QED
    BY <2>2, <2>3 DEF CallTyped
<1> HIDE DEF c
<1>4. call' = [call EXCEPT ![r] = c]
  BY DEF Ended, c
<1> QED
  BY <1>2, <1>3, <1>4, CallBecomes

LEMMA Moves ==
    ASSUME CallsTyped, NEW r \in Resource, NEW step \in Steps, call' = To(r, step),
           StepFits(r, [call[r] EXCEPT !.at = step])
    PROVE  /\ CallsTyped' /\ call'[r].at = step
           /\ call'[r].op = call[r].op /\ call'[r].on = call[r].on
           /\ call'[r].cfg = call[r].cfg /\ call'[r].left = call[r].left
           /\ \A q \in Resource \ {r} : call'[q] = call[q]
<1> DEFINE c == [call[r] EXCEPT !.at = step]
<1>1. call[r] \in Calls
  BY DEF CallsTyped
<1>2. /\ c \in Calls /\ c.at = step /\ c.op = call[r].op /\ c.on = call[r].on
      /\ c.cfg = call[r].cfg /\ c.left = call[r].left
  BY <1>1 DEF Calls
<1>3. CallTyped(r, c)
  BY <1>2 DEF CallTyped
<1>4. call' = [call EXCEPT ![r] = c]
  BY DEF To
<1> HIDE DEF c
<1> QED
  BY <1>2, <1>3, <1>4, CallBecomes

\* The step after todo has been left to write.
After(r, todo) ==
    IF todo # <<>> THEN "upsert" ELSE IF call[r].op = "create" THEN "answer" ELSE "read"

LEMMA Upserts ==
    ASSUME CallsTyped, NEW r \in Resource, NEW todo \in Seq(Entries), IsZone(r),
           call[r].op \in {"create", "update"}, call' = Upserting(r, todo)
    PROVE  /\ CallsTyped' /\ call'[r].at = After(r, todo) /\ call'[r].left = todo
           /\ call'[r].op = call[r].op /\ call'[r].on = call[r].on
           /\ call'[r].cfg = call[r].cfg
           /\ \A q \in Resource \ {r} : call'[q] = call[q]
<1> DEFINE step == After(r, todo)
           mid == To(r, step)
           c == [mid[r] EXCEPT !.left = todo]
<1>1. call \in [Resource -> Calls] /\ call[r] \in Calls /\ StepFits(r, call[r])
  BY DEF CallsTyped
<1>2. step \in {"upsert", "answer", "read"} /\ step \in Steps
  BY DEF After, Steps
<1>3. /\ mid \in [Resource -> Calls] /\ mid[r] \in Calls /\ mid[r].at = step
      /\ mid[r].op = call[r].op /\ mid[r].on = call[r].on /\ mid[r].cfg = call[r].cfg
      /\ \A q \in Resource \ {r} : mid[q] = call[q]
  BY <1>1, <1>2 DEF To, Calls
<1>4. call' = [mid EXCEPT ![r].left = todo]
  BY DEF Upserting, After
<1> HIDE DEF mid
<1>5. /\ c \in Calls /\ c.at = step /\ c.op = call[r].op /\ c.on = call[r].on
      /\ c.cfg = call[r].cfg /\ c.left = todo
  BY <1>3 DEF Calls
<1>6. StepFits(r, c)
  BY <1>1, <1>5 DEF StepFits, IsZone, After
<1>7. call' = [mid EXCEPT ![r] = c]
  BY <1>4
<1> HIDE DEF c
<1>8. call'[r] = c /\ \A q \in Resource \ {r} : call'[q] = call[q]
  BY <1>3, <1>7
<1>9. CallsTyped'
  BY <1>1, <1>3, <1>5, <1>6, <1>7, <1>8 DEF CallsTyped
<1> QED
  BY <1>5, <1>8, <1>9

-----------------------------------------------------------------------------
(* Types: the steps *)

\* The configs of a resource, their names and records.
LEMMA ConfigFacts ==
    ASSUME NEW r \in Resource, NEW cfg \in Specs[r]
    PROVE  /\ cfg \in Config /\ cfg # Unwanted /\ SlotFor(r, cfg) \in Slot
           /\ "name" \in DOMAIN cfg => cfg["name"] = r
           /\ IsZone(r) => cfg["records"] \in Seq(Entries) \cup {Malformed}
<1>1. cfg \in Config /\ cfg # Unwanted
  BY PartsAssumption DEF Config
<1>2. "name" \in DOMAIN cfg => cfg["name"] = r
  BY PartsAssumption
<1>3. IsZone(r) => cfg["records"] \in Seq(Entries) \cup {Malformed}
  BY PartsAssumption DEF IsZone
<1> QED
  BY <1>1, <1>2, <1>3 DEF SlotFor, Slot

LEMMA TypeInvInit == Init => TypeInv
<1> SUFFICES ASSUME Init PROVE TypeInv  OBVIOUS
<1>1. DesiredTyped
  BY DEF Init, DesiredTyped
<1>2. EntriesTyped
  BY DEF Init, EntriesTyped, NoEntry, StateEntries
<1>3. CallsTyped
  <2>1. <<>> \in Seq(Entries) /\ "idle" \in Steps /\ "none" \in Ops /\ "none" \in Told
    BY DEF Steps, Ops, Told
  <2>2. Idle \in Calls
    BY <2>1 DEF Idle, Calls
  <2>3. \A r \in Resource : StepFits(r, Idle)
    BY DEF StepFits, Idle
  <2> QED
    BY <2>2, <2>3 DEF CallsTyped, Init
<1>4. CloudTyped
  BY DEF Init, CloudTyped
<1> QED
  BY <1>1, <1>2, <1>3, <1>4, PartBounds DEF TypeInv, HistoryTyped, CountsTyped, Init

\* An answer that ends a call and changes nothing else.
LEMMA RefusedTypes ==
    ASSUME TypeInv, NEW r \in Resource, NEW told \in Told, Refused(r, told) \/ CutShort(r),
           UNCHANGED <<desired, state, edits, faults, drifts>>
    PROVE  TypeInv'
<1>1. CallsTyped'
  BY Ends DEF TypeInv, Refused, CutShort, Told
<1>2. doubt' \subseteq Resource
  BY DEF Refused, CutShort, TypeInv, HistoryTyped
<1> QED
  BY <1>1, <1>2 DEF TypeInv, DesiredTyped, EntriesTyped, CloudTyped, HistoryTyped, CountsTyped,
     Refused, CutShort, cloud

\* A step of a handler that leaves the host's side alone.
LEMMA HandlerTypes ==
    ASSUME TypeInv, UNCHANGED <<desired, state, edits, faults, drifts>>,
           CallsTyped', CloudTyped', doubt' \subseteq Resource, altered' \subseteq altered
    PROVE  TypeInv'
BY DEF TypeInv, DesiredTyped, EntriesTyped, HistoryTyped, CountsTyped

\* The call under way on r, as its step fits it.
LEMMA Busy ==
    ASSUME TypeInv, NEW r \in Resource
    PROVE  /\ call[r] \in Calls /\ StepFits(r, call[r])
           /\ call[r].at # "idle" => call[r].on \in Slot
           /\ call[r].at \in {"upsert", "repatch"} =>
                 /\ call[r].left \in Seq(Entries) /\ call[r].left # <<>>
                 /\ Head(call[r].left) \in Entries /\ Tail(call[r].left) \in Seq(Entries)
<1>1. call[r] \in Calls /\ StepFits(r, call[r])
  BY DEF TypeInv, CallsTyped
<1>2. call[r].left \in Seq(Entries)
  BY <1>1 DEF Calls
<1>3. call[r].at \in {"upsert", "repatch"} => call[r].left # <<>>
  BY <1>1 DEF StepFits
<1>4. call[r].at # "idle" => call[r].on \in Slot
  BY <1>1 DEF StepFits
<1> QED
  BY <1>1, <1>2, <1>3, <1>4, HeadTailProperties

LEMMA NetworkTypes ==
    ASSUME TypeInv, NEW r \in Resource, CreateNetwork(r)
    PROVE  TypeInv'
<1>1. CASE Stands(call[r].on) /\ Refused(r, "exists")
  BY <1>1, RefusedTypes DEF CreateNetwork, Told
<1>2. CASE /\ wholes' = [wholes EXCEPT ![call[r].on] = r] /\ call' = To(r, "subnet")
           /\ UNCHANGED <<subnets, records, doubt, altered>>
  <2>1. call[r].op = "create" /\ IsVPC(r) /\ call[r].on \in Slot
    BY Busy DEF CreateNetwork, StepFits, IsVPC
  <2>2. StepFits(r, [call[r] EXCEPT !.at = "subnet"])
    BY <2>1, Busy DEF Calls, StepFits, IsVPC
  <2>3. CallsTyped'
    BY <1>2, <2>2, Moves DEF TypeInv, Steps
  <2>4. CloudTyped'
    BY <1>2, <2>1 DEF TypeInv, CloudTyped
  <2> QED
    BY <1>2, <2>3, <2>4, HandlerTypes DEF CreateNetwork, TypeInv, HistoryTyped
<1> QED
  BY <1>1, <1>2 DEF CreateNetwork

LEMMA SubnetTypes ==
    ASSUME TypeInv, NEW r \in Resource, CreateSubnet(r)
    PROVE  TypeInv'
<1>1. CASE CutShort(r)
  BY <1>1, RefusedTypes DEF CreateSubnet, Told
<1>2. CASE /\ subnets' = [subnets EXCEPT ![r] = call[r].on]
           /\ call' = To(r, IF call[r].op = "create" THEN "answer" ELSE "read")
           /\ UNCHANGED <<wholes, records, doubt, altered>>
  <2> DEFINE step == IF call[r].op = "create" THEN "answer" ELSE "read"
  <2>1. call[r].op \in {"create", "update"} /\ call[r].on \in Slot
    BY Busy DEF CreateSubnet, StepFits
  <2>2. StepFits(r, [call[r] EXCEPT !.at = step])
    BY <2>1, Busy DEF Calls, StepFits
  <2>3. CallsTyped'
    BY <1>2, <2>2, Moves DEF TypeInv, Steps
  <2>4. CloudTyped'
    BY <1>2, <2>1 DEF TypeInv, CloudTyped
  <2> QED
    BY <1>2, <2>3, <2>4, HandlerTypes DEF CreateSubnet, TypeInv, HistoryTyped
<1> QED
  BY <1>1, <1>2 DEF CreateSubnet

LEMMA DropTypes ==
    ASSUME TypeInv, NEW r \in Resource, DropSubnet(r)
    PROVE  TypeInv'
<1>1. CASE Refused(r, "error")
  BY <1>1, RefusedTypes DEF DropSubnet, Told
<1>2. CASE /\ subnets' = [subnets EXCEPT ![call[r].cfg["subnet_id"]] = Unset]
           /\ call' = To(r, "subnet") /\ UNCHANGED <<wholes, records, doubt, altered>>
  <2>1. call[r].op = "update" /\ IsVPC(r) /\ "subnet_id" \in DOMAIN call[r].cfg
    BY Busy DEF DropSubnet, StepFits, IsVPC
  <2>2. StepFits(r, [call[r] EXCEPT !.at = "subnet"])
    BY <2>1, Busy DEF Calls, StepFits, IsVPC, DropSubnet
  <2>3. CallsTyped'
    BY <1>2, <2>2, Moves DEF TypeInv, Steps
  <2>4. CloudTyped'
    BY <1>2, <2>1 DEF TypeInv, CloudTyped
  <2> QED
    BY <1>2, <2>3, <2>4, HandlerTypes DEF DropSubnet, TypeInv, HistoryTyped
<1> QED
  BY <1>1, <1>2 DEF DropSubnet

\* What UpsertConfigured leaves of the call.
LEMMA ConfiguredTypes ==
    ASSUME TypeInv, NEW r \in Resource, call[r].at \in {"zone", "patch_zone"}, UpsertConfigured(r)
    PROVE  /\ CallsTyped' /\ doubt' \subseteq Resource
           /\ IsZone(r) /\ call[r].op \in {"create", "update"} /\ call[r].cfg \in Specs[r]
<1>1. IsZone(r) /\ call[r].op \in {"create", "update"} /\ call[r].cfg \in Specs[r]
  BY Busy DEF StepFits, IsZone
<1>2. CASE call' = Ended(r, "error") /\ doubt' = doubt \cup {r}
  BY <1>1, <1>2, Ends DEF TypeInv, Told, HistoryTyped
<1>3. CASE /\ call[r].cfg["records"] # Malformed
           /\ call' = Upserting(r, call[r].cfg["records"]) /\ UNCHANGED doubt
  <2>1. call[r].cfg["records"] \in Seq(Entries)
    BY <1>1, <1>3, ConfigFacts
  <2> QED
    BY <1>1, <1>3, <2>1, Upserts DEF TypeInv, HistoryTyped
<1> QED
  BY <1>2, <1>3 DEF UpsertConfigured

LEMMA ZoneTypes ==
    ASSUME TypeInv, NEW r \in Resource, CreateZone(r)
    PROVE  TypeInv'
<1>1. CASE Refused(r, "exists")
  BY <1>1, RefusedTypes DEF CreateZone, Told
<1>2. CASE /\ wholes' = [wholes EXCEPT ![call[r].on] = r] /\ UpsertConfigured(r)
           /\ UNCHANGED <<subnets, records, altered>>
  <2>1. call[r].at = "zone" /\ call[r].on \in Slot
    BY Busy DEF CreateZone
  <2>2. CallsTyped' /\ doubt' \subseteq Resource
    BY <1>2, <2>1, ConfiguredTypes
  <2>3. CloudTyped'
    BY <1>2, <2>1 DEF TypeInv, CloudTyped
  <2> QED
    BY <1>2, <2>2, <2>3, HandlerTypes DEF CreateZone
<1> QED
  BY <1>1, <1>2 DEF CreateZone

LEMMA PatchZoneTypes ==
    ASSUME TypeInv, NEW r \in Resource, PatchZone(r)
    PROVE  TypeInv'
<1>1. CASE Refused(r, "error")
  BY <1>1, RefusedTypes DEF PatchZone, Told
<1>2. CASE UpsertConfigured(r) /\ UNCHANGED <<cloud, altered>>
  <2>1. CallsTyped' /\ doubt' \subseteq Resource
    BY <1>2, ConfiguredTypes DEF PatchZone
  <2>2. CloudTyped'
    BY <1>2 DEF TypeInv, CloudTyped, cloud
  <2> QED
    BY <1>2, <2>1, <2>2, HandlerTypes DEF PatchZone
<1> QED
  BY <1>1, <1>2 DEF PatchZone

LEMMA EntryFields == \A rec \in Entries : rec.name \in Record /\ rec.value \in Value
BY DEF Entries

\* A record set gets a value.
LEMMA RecordBecomes ==
    ASSUME CloudTyped, NEW s \in Slot, NEW n \in Record, NEW v \in Value \cup {Unset},
           records' = [records EXCEPT ![s][n] = v]
    PROVE  /\ records' \in [Slot -> [Record -> Value \cup {Unset}]]
           /\ records'[s][n] = v /\ \A m \in Record \ {n} : records'[s][m] = records[s][m]
           /\ \A t \in Slot \ {s} : records'[t] = records[t]
BY DEF CloudTyped

LEMMA WrittenTypes ==
    ASSUME TypeInv, NEW r \in Resource, call[r].at \in {"upsert", "repatch"}, Written(r),
           UNCHANGED <<desired, state, edits, faults, drifts>>
    PROVE  TypeInv'
<1> DEFINE rec == Head(call[r].left)
<1>1. rec.name \in Record /\ rec.value \in Value
  BY Busy, EntryFields
<1>2. Tail(call[r].left) \in Seq(Entries) /\ IsZone(r) /\ call[r].op \in {"create", "update"}
  BY Busy DEF StepFits, IsZone
<1>3. CallsTyped'
  BY <1>2, Upserts DEF Written, TypeInv
<1>4. CloudTyped'
  BY <1>1, Busy, RecordBecomes DEF Written, TypeInv, CloudTyped
<1> QED
  BY <1>3, <1>4, HandlerTypes DEF Written, TypeInv, HistoryTyped

LEMMA CreateRecordTypes ==
    ASSUME TypeInv, NEW r \in Resource, CreateRecord(r)
    PROVE  TypeInv'
<1>1. CASE Written(r)
  BY <1>1, WrittenTypes DEF CreateRecord
<1>2. CASE CutShort(r)
  BY <1>2, RefusedTypes DEF CreateRecord, Told
<1>3. CASE call' = To(r, "repatch") /\ UNCHANGED <<cloud, doubt, altered>>
  <2>1. StepFits(r, [call[r] EXCEPT !.at = "repatch"])
    BY Busy DEF Calls, StepFits, CreateRecord
  <2>2. CallsTyped'
    BY <1>3, <2>1, Moves DEF TypeInv, Steps
  <2>3. CloudTyped'
    BY <1>3 DEF TypeInv, CloudTyped, cloud
  <2> QED
    BY <1>3, <2>2, <2>3, HandlerTypes DEF CreateRecord, TypeInv, HistoryTyped
<1> QED
  BY <1>1, <1>2, <1>3 DEF CreateRecord

LEMMA PatchRecordTypes ==
    ASSUME TypeInv, NEW r \in Resource, PatchRecord(r)
    PROVE  TypeInv'
<1>1. CASE Written(r)
  BY <1>1, WrittenTypes DEF PatchRecord
<1>2. CASE CutShort(r)
  BY <1>2, RefusedTypes DEF PatchRecord, Told
<1> QED
  BY <1>1, <1>2 DEF PatchRecord

LEMMA ReadTypes ==
    ASSUME TypeInv, NEW r \in Resource, ReadBack(r)
    PROVE  TypeInv'
<1>1. CASE CutShort(r)
  BY <1>1, RefusedTypes DEF ReadBack, Told
<1>2. CASE call' = To(r, "answer") /\ UNCHANGED <<cloud, doubt, altered>>
  <2>1. StepFits(r, [call[r] EXCEPT !.at = "answer"])
    BY Busy DEF Calls, StepFits, ReadBack
  <2>2. CallsTyped'
    BY <1>2, <2>1, Moves DEF TypeInv, Steps
  <2>3. CloudTyped'
    BY <1>2 DEF TypeInv, CloudTyped, cloud
  <2> QED
    BY <1>2, <2>2, <2>3, HandlerTypes DEF ReadBack, TypeInv, HistoryTyped
<1> QED
  BY <1>1, <1>2 DEF ReadBack

\* What Delete does: the network it is answered has no subnet to remove.
LEMMA DeleteIs ==
    ASSUME NEW r \in Resource, Delete(r)
    PROVE  /\ call[r].at = "delete" /\ subnets' = subnets
           /\ \/ /\ \A x \in Resource : subnets[x] # call[r].on
                 /\ wholes' = [wholes EXCEPT ![call[r].on] = Nobody] /\ call' = To(r, "answer")
              \/ call' = Ended(r, "error") /\ UNCHANGED wholes
           /\ UNCHANGED <<records, doubt, altered, desired, state, edits, faults, drifts>>
BY DEF Delete, NetworkShown

LEMMA DeleteTypes ==
    ASSUME TypeInv, NEW r \in Resource, Delete(r)
    PROVE  TypeInv'
<1>1. CASE wholes' = [wholes EXCEPT ![call[r].on] = Nobody] /\ call' = To(r, "answer")
  <2>1. StepFits(r, [call[r] EXCEPT !.at = "answer"])
    BY Busy, DeleteIs DEF Calls, StepFits
  <2>2. CallsTyped'
    BY <1>1, <2>1, Moves DEF TypeInv, Steps
  <2>3. CloudTyped'
    BY <1>1, DeleteIs DEF TypeInv, CloudTyped
  <2> QED
    BY <2>2, <2>3, DeleteIs, HandlerTypes DEF TypeInv, HistoryTyped
<1>2. CASE call' = Ended(r, "error") /\ UNCHANGED wholes
  <2>1. CallsTyped'
    BY <1>2, Ends DEF TypeInv, Told
  <2>2. CloudTyped'
    BY <1>2, DeleteIs DEF TypeInv, CloudTyped
  <2> QED
    BY <2>1, <2>2, DeleteIs, HandlerTypes DEF TypeInv, HistoryTyped
<1> QED
  BY <1>1, <1>2, DeleteIs

\* The call a plan starts with.
Planned(r, action) ==
    [at |-> FirstStep(r, action), op |-> action, cfg |-> desired[r], left |-> <<>>,
     on |-> IF action = "create" THEN SlotFor(r, desired[r]) ELSE Addressed(r), told |-> "none"]

LEMMA PlanFits ==
    ASSUME TypeInv, NEW r \in Resource, Start(r)
    PROVE  \E action \in {"create", "update", "delete"} :
              /\ call' = [call EXCEPT ![r] = Planned(r, action)] /\ call[r].at = "idle"
              /\ action = "create" <=> ~HasEntry(r)
              /\ action # "delete" => desired[r] \in Specs[r]
              /\ UNCHANGED <<desired, state, cloud, doubt, altered, edits, faults, drifts>>
<1>1. desired[r] \in Specs[r] \cup {Unwanted}
  BY DEF TypeInv, DesiredTyped
<1> DEFINE action == IF desired[r] # Unwanted THEN PlanAction(r)
                     ELSE IF HasEntry(r) THEN "delete" ELSE "none"
<1>2. /\ call' = [call EXCEPT ![r] = Planned(r, action)] /\ action # "none"
      /\ call[r].at = "idle"
      /\ UNCHANGED <<desired, state, cloud, doubt, altered, edits, faults, drifts>>
  BY DEF Start, Planned
<1>3. /\ action \in {"create", "update", "delete", "none"}
      /\ action = "create" => ~HasEntry(r)
      /\ ~HasEntry(r) /\ action # "none" => action = "create"
      /\ action \in {"create", "update"} => desired[r] # Unwanted
  BY DEF PlanAction
<1> HIDE DEF action
<1> QED
  BY <1>1, <1>2, <1>3

LEMMA AddressedIsSlot == ASSUME TypeInv, NEW r \in Resource PROVE Addressed(r) \in Slot
BY DEF TypeInv, EntriesTyped, StateEntries, Addressed, Slot

LEMMA PlannedTyped ==
    ASSUME TypeInv, NEW r \in Resource, NEW action \in {"create", "update", "delete"},
           action # "delete" => desired[r] \in Specs[r]
    PROVE  CallTyped(r, Planned(r, action))
<1> DEFINE c == Planned(r, action)
           first == FirstStep(r, action)
           on == IF action = "create" THEN SlotFor(r, desired[r]) ELSE Addressed(r)
<1>1. on \in Slot
  BY ConfigFacts, AddressedIsSlot
<1>2. /\ first \in {"delete", "zone", "patch_zone", "network", "drop_subnet", "read"}
      /\ first = "delete" <=> action = "delete"
      /\ first \in {"network", "zone"} <=> action = "create"
      /\ first \in {"zone", "patch_zone"} => TypeOf[r] = "infra.dns"
      /\ first \in {"network", "drop_subnet"} => TypeOf[r] = "infra.vpc"
      /\ first = "drop_subnet" => "subnet_id" \in DOMAIN desired[r]
  BY PartsAssumption DEF FirstStep
<1>3. /\ c.at = first /\ c.op = action /\ c.cfg = desired[r] /\ c.left = <<>> /\ c.on = on
      /\ c = [at |-> first, op |-> action, cfg |-> desired[r], left |-> <<>>, on |-> on,
              told |-> "none"]
  BY DEF Planned
<1>4. desired[r] \in Config \cup {Unwanted}
  BY DEF TypeInv, DesiredTyped
<1>5. first \in Steps /\ action \in Ops /\ <<>> \in Seq(Entries) /\ "none" \in Told
  BY <1>2 DEF Steps, Ops, Told
<1> HIDE DEF first, on, c
<1>6. c \in Calls
  BY <1>1, <1>3, <1>4, <1>5 DEF Calls
<1>7. StepFits(r, c)
  BY <1>1, <1>2, <1>3 DEF StepFits
<1> QED
  BY <1>6, <1>7 DEF CallTyped, c

LEMMA StartTypes ==
    ASSUME TypeInv, NEW r \in Resource, Start(r)
    PROVE  TypeInv'
<1>1. PICK action \in {"create", "update", "delete"} :
         /\ call' = [call EXCEPT ![r] = Planned(r, action)]
         /\ action # "delete" => desired[r] \in Specs[r]
         /\ UNCHANGED <<desired, state, cloud, doubt, altered, edits, faults, drifts>>
  BY PlanFits
<1>2. CallsTyped'
  BY <1>1, PlannedTyped, CallBecomes DEF TypeInv
<1> QED
  BY <1>1, <1>2 DEF TypeInv, DesiredTyped, EntriesTyped, CloudTyped, HistoryTyped, CountsTyped,
     cloud

\* The entry Answer leaves.
Answered(r) ==
    CASE call[r].op = "create" -> Entry("created", call[r].on[2], call[r].cfg)
      [] call[r].op = "update" -> Entry("read", call[r].on[2], call[r].cfg)
      [] OTHER -> NoEntry

LEMMA EntryBecomes ==
    ASSUME EntriesTyped, NEW r \in Resource, NEW e \in StateEntries,
           state' = [state EXCEPT ![r] = e]
    PROVE  EntriesTyped' /\ state'[r] = e /\ \A q \in Resource \ {r} : state'[q] = state[q]
BY DEF EntriesTyped

LEMMA AnswerIs ==
    ASSUME TypeInv, NEW r \in Resource, Answer(r)
    PROVE  /\ EntriesTyped' /\ CallsTyped' /\ call'[r].at = "idle" /\ call'[r].op = "none"
           /\ state'[r] = Answered(r) /\ call[r].at = "answer"
           /\ \A q \in Resource \ {r} : state'[q] = state[q] /\ call'[q] = call[q]
<1>1. call[r].on[2] \in Resource \cup {Default} /\ call[r].cfg \in Config \cup {Unwanted}
  BY Busy DEF Answer, Slot, Calls
<1>2. Answered(r) \in StateEntries
  BY <1>1 DEF Answered, StateEntries, Entry, NoEntry
<1>3. state' = [state EXCEPT ![r] = Answered(r)]
  BY DEF Answer, Answered
<1>4. call' = Ended(r, "ok") /\ "ok" \in Told
  BY DEF Answer, Told
<1> QED
  BY ZenonT(30), <1>2, <1>3, <1>4, EntryBecomes, Ends DEF TypeInv, Answer

LEMMA AnswerTypes ==
    ASSUME TypeInv, NEW r \in Resource, Answer(r)
    PROVE  TypeInv'
<1>1. doubt' \subseteq Resource
  BY DEF Answer, TypeInv, HistoryTyped
<1> QED
  BY <1>1, AnswerIs DEF Answer, TypeInv, DesiredTyped, CloudTyped, HistoryTyped, CountsTyped, cloud

LEMMA RefreshIs ==
    ASSUME TypeInv, NEW r \in Resource, Refresh(r)
    PROVE  /\ EntriesTyped' /\ CallsTyped' /\ call'[r].at = "idle" /\ call'[r].op = "none"
           /\ state'[r].cname = state[r].cname /\ state'[r].from = state[r].from
           /\ HasEntry(r) /\ HasEntry(r)'
           /\ \A q \in Resource \ {r} : state'[q] = state[q] /\ call'[q] = call[q]
<1> DEFINE e == [state[r] EXCEPT !.seen = "read"]
<1>1. state[r] \in StateEntries
  BY DEF TypeInv, EntriesTyped
<1>2. e \in StateEntries /\ e.cname = state[r].cname /\ e.from = state[r].from /\ e.seen = "read"
  BY <1>1 DEF StateEntries
<1>3. state' = [state EXCEPT ![r] = e]
  BY DEF Refresh
<1> HIDE DEF e
<1>4. EntriesTyped' /\ state'[r] = e /\ \A q \in Resource \ {r} : state'[q] = state[q]
  BY <1>2, <1>3, EntryBecomes DEF TypeInv
<1>5. /\ CallsTyped' /\ call'[r].at = "idle" /\ call'[r].op = "none"
      /\ \A q \in Resource \ {r} : call'[q] = call[q]
  BY Ends DEF Refresh, TypeInv, Told
<1> QED
  BY <1>2, <1>4, <1>5 DEF Refresh, HasEntry

LEMMA RefreshTypes ==
    ASSUME TypeInv, NEW r \in Resource, Refresh(r)
    PROVE  TypeInv'
BY RefreshIs DEF Refresh, TypeInv, DesiredTyped, CloudTyped, HistoryTyped, CountsTyped, cloud

LEMMA ImportIs ==
    ASSUME TypeInv, NEW r \in Resource, Import(r)
    PROVE  /\ EntriesTyped' /\ CallsTyped' /\ call'[r].at = "idle" /\ call'[r].op = "none"
           /\ state'[r].cname = r /\ doubt' = doubt \cup {r} /\ UNCHANGED <<cloud, altered>>
           /\ \A q \in Resource \ {r} : state'[q] = state[q] /\ call'[q] = call[q]
<1>1. desired[r] \in Specs[r] /\ "name" \in DOMAIN desired[r]
  BY DEF Import, TypeInv, DesiredTyped
<1>2. desired[r]["name"] = r /\ desired[r] \in Config
  BY <1>1, ConfigFacts
<1> DEFINE e == Entry("read", desired[r]["name"], desired[r])
<1>3. e \in StateEntries /\ e.cname = r
  BY <1>2 DEF StateEntries, Entry
<1>4. state' = [state EXCEPT ![r] = e]
  BY DEF Import
<1> HIDE DEF e
<1>5. EntriesTyped' /\ state'[r] = e /\ \A q \in Resource \ {r} : state'[q] = state[q]
  BY <1>3, <1>4, EntryBecomes DEF TypeInv
<1>6. /\ CallsTyped' /\ call'[r].at = "idle" /\ call'[r].op = "none"
      /\ \A q \in Resource \ {r} : call'[q] = call[q]
  BY Ends DEF Import, TypeInv, Told
<1> QED
  BY <1>3, <1>5, <1>6 DEF Import

LEMMA ImportTypes ==
    ASSUME TypeInv, NEW r \in Resource, Import(r)
    PROVE  TypeInv'
BY ImportIs DEF Import, TypeInv, DesiredTyped, CloudTyped, HistoryTyped, CountsTyped, cloud

LEMMA LostTypes ==
    ASSUME TypeInv, NEW r \in Resource, Lost(r)
    PROVE  TypeInv'
<1>1. CallsTyped'
  BY Ends DEF Lost, TypeInv, Told
<1>2. faults' \in 0..MaxFaults
  BY PartBounds DEF Lost, TypeInv, CountsTyped
<1> QED
  BY <1>1, <1>2 DEF Lost, TypeInv, DesiredTyped, EntriesTyped, CloudTyped, HistoryTyped,
     CountsTyped, cloud

LEMMA OthersTypes ==
    ASSUME TypeInv, NEW s \in Slot, NEW n \in Record, NEW v \in Value \cup {Unset},
           OthersChange(s, n, v)
    PROVE  TypeInv'
<1>1. CloudTyped'
  BY RecordBecomes DEF OthersChange, TypeInv, CloudTyped
<1>2. drifts' \in 0..MaxDrifts
  BY PartBounds DEF OthersChange, TypeInv, CountsTyped
<1>3. altered' \subseteq Slot \X Record
  BY DEF OthersChange, TypeInv, HistoryTyped
<1> QED
  BY <1>1, <1>2, <1>3 DEF OthersChange, TypeInv, DesiredTyped, EntriesTyped, CallsTyped,
     HistoryTyped, CountsTyped

LEMMA WantTypes ==
    ASSUME TypeInv, NEW r \in Resource, NEW cfg \in Specs[r] \cup {Unwanted}, Want(r, cfg)
    PROVE  TypeInv'
<1>1. DesiredTyped'
  BY ConfigFacts DEF Want, TypeInv, DesiredTyped
<1>2. edits' \in 0..MaxEdits
  BY PartBounds DEF Want, TypeInv, CountsTyped
<1> QED
  BY <1>1, <1>2 DEF Want, TypeInv, EntriesTyped, CallsTyped, CloudTyped, HistoryTyped, CountsTyped,
     cloud

LEMMA StutterTypes == TypeInv /\ UNCHANGED vars => TypeInv'
BY DEF TypeInv, DesiredTyped, EntriesTyped, CallsTyped, CloudTyped, HistoryTyped, CountsTyped,
   vars, cloud

LEMMA TypeInvStep == TypeInv /\ [Next]_vars => TypeInv'
<1> SUFFICES ASSUME TypeInv, [Next]_vars PROVE TypeInv'  OBVIOUS
<1>1. ASSUME NEW r \in Resource, NEW cfg \in Specs[r] \cup {Unwanted}, Want(r, cfg)
      PROVE  TypeInv'
  BY <1>1, WantTypes
<1>2. ASSUME NEW r \in Resource, Handle(r)
      PROVE  TypeInv'
  BY <1>2, NetworkTypes, SubnetTypes, DropTypes, ZoneTypes, PatchZoneTypes, CreateRecordTypes,
     PatchRecordTypes, ReadTypes, DeleteTypes, AnswerTypes DEF Handle
<1>3. ASSUME NEW r \in Resource, Start(r) \/ Refresh(r) \/ Import(r) \/ Lost(r)
      PROVE  TypeInv'
  BY <1>3, StartTypes, RefreshTypes, ImportTypes, LostTypes
<1>4. ASSUME NEW s \in Slot, NEW n \in Record, NEW v \in Value \cup {Unset}, OthersChange(s, n, v)
      PROVE  TypeInv'
  BY <1>4, OthersTypes
<1> QED
  BY <1>1, <1>2, <1>3, <1>4, StutterTypes DEF Next

LEMMA TypesInvariant == Spec => []TypeInv
BY TypeInvInit, TypeInvStep, PTL DEF Spec

\* The types of hosts, handlers and cloud, for any resources with parts.
THEOREM PartedTypes == Spec => []TypeOK
<1>1. TypeInv => TypeOK
  BY DEF TypeInv, TypeOK, DesiredTyped, EntriesTyped, CallsTyped, CloudTyped, HistoryTyped,
     CountsTyped, Calls, StateEntries, StepFits, Ops, Told, Entry
<1> QED
  BY <1>1, TypesInvariant, PTL

-----------------------------------------------------------------------------
(* Parts: a step touches one resource and its place *)

LEMMA HomeFacts ==
    ASSUME NEW r \in Resource
    PROVE  /\ Home(r) \in Slot /\ Home(r)[2] = r
           /\ \A q \in Resource : Home(q) = Home(r) => q = r
BY DEF Home, Slot

\* What stands at home was made for the resource.
LEMMA AtHome ==
    ASSUME TypeInv, Standing, NEW r \in Resource, Stands(Home(r))
    PROVE  wholes[Home(r)] = r
<1>1. wholes[Home(r)] \in Resource
  BY HomeFacts DEF TypeInv, CloudTyped, Stands
<1> QED
  BY <1>1, HomeFacts DEF Standing

\* Nothing that Fits speaks of changes for q.
Same(q) ==
    /\ call'[q] = call[q] /\ state'[q] = state[q] /\ subnets'[q] = subnets[q]
    /\ wholes'[Home(q)] = wholes[Home(q)] /\ records'[Home(q)] = records[Home(q)]
    /\ q \in doubt' <=> q \in doubt
    /\ \A n : <<Home(q), n>> \in altered' <=> <<Home(q), n>> \in altered

LEMMA SameHolds ==
    ASSUME NEW q, Same(q), NEW recs, NEW m
    PROVE  (Hold(q, recs) => Hold(q, recs)') /\ (HoldTo(q, recs, m) => HoldTo(q, recs, m)')
BY DEF Same, Hold, HoldTo

LEMMA SameFits ==
    ASSUME NEW q \in Resource, Same(q), Fits(q)
    PROVE  Fits(q)'
<1>1. (HasEntry(q)' <=> HasEntry(q)) /\ (Stands(Home(q))' <=> Stands(Home(q)))
  BY DEF Same, HasEntry, Stands
<1>2. Placed(q)'
  BY <1>1 DEF Same, Fits, Placed
<1>3. Known(q)'
  BY <1>1 DEF Same, Fits, Known
<1>4. IsVPC(q) => VPCKept(q)'
  BY <1>1 DEF Same, Fits, VPCKept, VPCWhole
<1>5. IsZone(q) => ZoneKept(q)'
  BY <1>1, SameHolds DEF Same, Fits, ZoneKept
<1> QED
  BY <1>2, <1>3, <1>4, <1>5 DEF Fits, IsVPC, IsZone

\* A step that makes or removes nothing but what stands at r's place.
WholesAt(r) == wholes' = wholes \/ \E w \in {r, Nobody} : wholes' = [wholes EXCEPT ![Home(r)] = w]

LEMMA WholesStand ==
    ASSUME TypeInv, Standing, NEW r \in Resource, WholesAt(r)
    PROVE  Standing' /\ \A q \in Resource \ {r} : wholes'[Home(q)] = wholes[Home(q)]
<1>1. CASE wholes' = wholes
  BY <1>1 DEF Standing, Stands
<1>2. ASSUME NEW w \in {r, Nobody}, wholes' = [wholes EXCEPT ![Home(r)] = w]
      PROVE  Standing' /\ \A q \in Resource \ {r} : wholes'[Home(q)] = wholes[Home(q)]
  <2>1. wholes'[Home(r)] = w /\ \A s \in Slot \ {Home(r)} : wholes'[s] = wholes[s]
    BY <1>2, HomeFacts DEF TypeInv, CloudTyped
  <2>2. \A q \in Resource \ {r} : Home(q) \in Slot \ {Home(r)}
    BY HomeFacts
  <2>3. Standing'
    <3> SUFFICES ASSUME NEW s \in Slot, wholes'[s] # Nobody
                 PROVE  s = Home(wholes'[s])
      BY DEF Standing, Stands
    <3> QED
      BY <2>1 DEF Standing, Stands
  <2> QED
    BY <2>1, <2>2, <2>3
<1> QED
  BY <1>1, <1>2 DEF WholesAt

\* A step of r, which leaves the others' calls, entries, subnets and records alone.
Alone(r) ==
    \A q \in Resource \ {r} :
        /\ call'[q] = call[q] /\ state'[q] = state[q] /\ subnets'[q] = subnets[q]
        /\ records'[Home(q)] = records[Home(q)]
        /\ q \in doubt' <=> q \in doubt
        /\ \A n : <<Home(q), n>> \in altered' <=> <<Home(q), n>> \in altered

LEMMA Local ==
    ASSUME TypeInv, PartsInv, NEW r \in Resource, WholesAt(r), Alone(r), Fits(r)'
    PROVE  PartsInv'
<1>1. Standing' /\ \A q \in Resource \ {r} : wholes'[Home(q)] = wholes[Home(q)]
  BY WholesStand DEF PartsInv
<1>2. \A q \in Resource \ {r} : Same(q)
  BY <1>1 DEF Alone, Same
<1>3. \A q \in Resource \ {r} : Fits(q)'
  BY <1>2, SameFits DEF PartsInv
<1> QED
  BY <1>1, <1>3 DEF PartsInv

-----------------------------------------------------------------------------
(* Parts: the steps *)

\* A call that is cut off leaves its resource in doubt, and all else as it was.
LEMMA CutParts ==
    ASSUME TypeInv, PartsInv, NEW r \in Resource, call' = Ended(r, "error"),
           doubt' = doubt \cup {r}, UNCHANGED <<cloud, altered, state>>
    PROVE  PartsInv'
<1>1. /\ call'[r].at = "idle" /\ call'[r].op = "none"
      /\ \A q \in Resource \ {r} : call'[q] = call[q]
  BY Ends DEF TypeInv, Told
<1>2. wholes' = wholes /\ subnets' = subnets /\ records' = records /\ state' = state
      /\ altered' = altered
  BY DEF cloud
<1>3. Fits(r)
  BY DEF PartsInv
<1>4. Placed(r)'
  BY <1>1, <1>2, <1>3 DEF Fits, Placed, HasEntry
<1>5. Known(r)' /\ VPCKept(r)' /\ ZoneKept(r)'
  BY <1>1 DEF Known, VPCKept, ZoneKept
<1> QED
  BY <1>1, <1>2, <1>4, <1>5, Local DEF WholesAt, Alone, Fits, IsVPC, IsZone

\* A call that is refused before it did anything leaves all as it was.
LEMMA RefusedParts ==
    ASSUME TypeInv, PartsInv, NEW r \in Resource, NEW told \in Told, call' = Ended(r, told),
           call[r].at \in {"network", "zone", "drop_subnet", "patch_zone", "delete"},
           UNCHANGED <<cloud, doubt, altered, state>>
    PROVE  PartsInv'
<1>1. /\ call'[r].at = "idle" /\ call'[r].op = "none"
      /\ \A q \in Resource \ {r} : call'[q] = call[q]
  BY Ends DEF TypeInv, Told
<1>2. wholes' = wholes /\ subnets' = subnets /\ records' = records /\ state' = state
      /\ doubt' = doubt /\ altered' = altered
  BY DEF cloud
<1>3. Fits(r) /\ StepFits(r, call[r])
  BY Busy DEF PartsInv
<1>4. (HasEntry(r)' <=> HasEntry(r)) /\ (Stands(Home(r))' <=> Stands(Home(r)))
  BY <1>2 DEF HasEntry, Stands
<1>5. Placed(r)'
  BY <1>1, <1>2, <1>3, <1>4 DEF Fits, Placed
<1>6. Known(r)'
  BY <1>1, <1>2, <1>3, <1>4 DEF Fits, Known, StepFits
<1>7. IsVPC(r) => VPCKept(r)'
  BY <1>1, <1>2, <1>3, <1>4 DEF Fits, VPCKept, VPCWhole
<1>8. IsZone(r) => ZoneKept(r)'
  <2>1. ASSUME IsZone(r), r \notin doubt, HasEntry(r)
        PROVE  wholes[Home(r)] = r /\ Hold(r, state[r].from["records"])
    <3>1. call[r].at \in {"patch_zone", "delete"}
      BY <1>3, <2>1, PartsAssumption DEF Fits, Placed, StepFits, IsZone
    <3> QED
      BY <1>3, <2>1, <3>1 DEF Fits, ZoneKept
  <2> QED
    BY <1>1, <1>2, <1>4, <2>1 DEF ZoneKept, Hold
<1> QED
  BY <1>1, <1>2, <1>5, <1>6, <1>7, <1>8, Local DEF WholesAt, Alone, Fits, IsVPC, IsZone

LEMMA NetworkParts ==
    ASSUME TypeInv, PartsInv, NEW r \in Resource, CreateNetwork(r)
    PROVE  PartsInv'
<1>1. CASE Stands(call[r].on) /\ Refused(r, "exists")
  BY <1>1, RefusedParts DEF CreateNetwork, Refused, Told
<1>2. CASE /\ wholes' = [wholes EXCEPT ![call[r].on] = r] /\ call' = To(r, "subnet")
           /\ UNCHANGED <<subnets, records, doubt, altered>>
  <2>1. call[r].op = "create" /\ IsVPC(r) /\ call[r].at = "network"
    BY Busy DEF CreateNetwork, StepFits, IsVPC
  <2>2. StepFits(r, [call[r] EXCEPT !.at = "subnet"])
    BY <2>1, Busy DEF Calls, StepFits, IsVPC
  <2>3. /\ call'[r].at = "subnet" /\ call'[r].op = "create" /\ call'[r].on = call[r].on
        /\ \A q \in Resource \ {r} : call'[q] = call[q]
    BY <1>2, <2>1, <2>2, Moves DEF TypeInv, Steps
  <2>4. Fits(r) /\ call[r].on = Home(r) /\ ~HasEntry(r) /\ state' = state
    BY <2>1 DEF PartsInv, Fits, Placed, CreateNetwork
  <2>5. ~HasEntry(r)'
    BY <2>4 DEF HasEntry
  <2>6. Placed(r)' /\ Known(r)' /\ VPCKept(r)' /\ ~IsZone(r)
    BY <1>2, <2>1, <2>3, <2>4, <2>5 DEF Fits, Placed, Known, VPCKept, IsVPC, IsZone
  <2> QED
    BY <1>2, <2>3, <2>4, <2>6, Local DEF WholesAt, Alone, Fits, IsVPC, IsZone
<1> QED
  BY <1>1, <1>2 DEF CreateNetwork

LEMMA SubnetParts ==
    ASSUME TypeInv, PartsInv, NEW r \in Resource, CreateSubnet(r)
    PROVE  PartsInv'
<1>1. CASE CutShort(r)
  BY <1>1, CutParts DEF CreateSubnet, CutShort
<1>2. CASE /\ Stands(call[r].on) /\ subnets' = [subnets EXCEPT ![r] = call[r].on]
           /\ call' = To(r, IF call[r].op = "create" THEN "answer" ELSE "read")
           /\ UNCHANGED <<wholes, records, doubt, altered>>
  <2> DEFINE step == IF call[r].op = "create" THEN "answer" ELSE "read"
  <2>1. call[r].op \in {"create", "update"} /\ call[r].on \in Slot /\ IsVPC(r)
        /\ call[r].at = "subnet"
    BY Busy DEF CreateSubnet, StepFits, IsVPC
  <2>2. StepFits(r, [call[r] EXCEPT !.at = step])
    BY <2>1, Busy DEF Calls, StepFits
  <2>3. /\ call'[r].at = step /\ call'[r].op = call[r].op /\ call'[r].on = call[r].on
        /\ call'[r].cfg = call[r].cfg /\ \A q \in Resource \ {r} : call'[q] = call[q]
    BY <1>2, <2>2, Moves DEF TypeInv, Steps
  <2>4. Fits(r) /\ call[r].on = Home(r) /\ state' = state
    BY <2>1 DEF PartsInv, Fits, Placed, CreateSubnet
  <2>5. wholes[Home(r)] = r
    BY <1>2, <2>4, AtHome DEF PartsInv
  <2>6. subnets'[r] = Home(r) /\ \A q \in Resource \ {r} : subnets'[q] = subnets[q]
    BY <1>2, <2>4 DEF TypeInv, CloudTyped
  <2>7. VPCWhole(r)' /\ (HasEntry(r)' <=> HasEntry(r)) /\ (Stands(Home(r))' <=> Stands(Home(r)))
    BY <1>2, <2>4, <2>5, <2>6 DEF VPCWhole, HasEntry, Stands
  <2>8. Placed(r)'
    BY <2>1, <2>3, <2>4, <2>6, <2>7 DEF Fits, Placed
  <2>9. Known(r)'
    BY <1>2, <2>1, <2>3, <2>4, <2>7 DEF Fits, Known
  <2>10. VPCKept(r)' /\ ~IsZone(r)
    BY <2>1, <2>6, <2>7 DEF VPCKept, IsVPC, IsZone
  <2> QED
    BY <1>2, <2>3, <2>4, <2>6, <2>8, <2>9, <2>10, Local DEF WholesAt, Alone, Fits, IsVPC, IsZone
<1> QED
  BY <1>1, <1>2 DEF CreateSubnet

LEMMA DropParts ==
    ASSUME OwnSubnets, TypeInv, PartsInv, NEW r \in Resource, DropSubnet(r)
    PROVE  PartsInv'
<1>1. CASE Refused(r, "error")
  BY <1>1, RefusedParts DEF DropSubnet, Refused, Told
<1>2. CASE /\ subnets' = [subnets EXCEPT ![call[r].cfg["subnet_id"]] = Unset]
           /\ call' = To(r, "subnet") /\ UNCHANGED <<wholes, records, doubt, altered>>
  <2>1. call[r].op = "update" /\ IsVPC(r) /\ "subnet_id" \in DOMAIN call[r].cfg
        /\ call[r].cfg \in Specs[r] /\ call[r].at = "drop_subnet"
    BY Busy DEF DropSubnet, StepFits, IsVPC
  <2>2. StepFits(r, [call[r] EXCEPT !.at = "subnet"])
    BY <2>1, Busy DEF Calls, StepFits, IsVPC, DropSubnet
  <2>3. /\ call'[r].at = "subnet" /\ call'[r].op = call[r].op /\ call'[r].on = call[r].on
        /\ call'[r].cfg = call[r].cfg /\ \A q \in Resource \ {r} : call'[q] = call[q]
    BY <1>2, <2>2, Moves DEF TypeInv, Steps
  <2>4. call[r].cfg["subnet_id"] = r
    BY <2>1 DEF OwnSubnets
  <2>5. subnets'[r] = Unset /\ \A q \in Resource \ {r} : subnets'[q] = subnets[q]
    BY <1>2, <2>4 DEF TypeInv, CloudTyped
  <2>6. Fits(r) /\ state' = state
    BY DEF PartsInv, DropSubnet
  <2>7. (HasEntry(r)' <=> HasEntry(r)) /\ (Stands(Home(r))' <=> Stands(Home(r))) /\ HasEntry(r)
    BY <1>2, <2>1, <2>6 DEF HasEntry, Stands, Fits, Placed
  <2>8. Placed(r)' /\ Known(r)' /\ VPCKept(r)' /\ ~IsZone(r)
    BY <1>2, <2>1, <2>3, <2>5, <2>6, <2>7 DEF Fits, Placed, Known, VPCKept, IsVPC, IsZone
  <2> QED
    BY <1>2, <2>3, <2>5, <2>6, <2>8, Local DEF WholesAt, Alone, Fits, IsVPC, IsZone
<1> QED
  BY <1>1, <1>2 DEF DropSubnet

\* A zone whose configured records have all been written, or none of them.
LEMMA AllWritten ==
    ASSUME NEW q, NEW recs \in Seq(Entries), HoldTo(q, recs, Len(recs))
    PROVE  Hold(q, recs)
<1>1. \A i \in Lasting(recs) : i <= Len(recs)
  BY DEF Lasting
<1> QED
  BY <1>1 DEF HoldTo, Hold

LEMMA NoneWritten ==
    ASSUME NEW q, NEW recs \in Seq(Entries)
    PROVE  HoldTo(q, recs, 0) /\ LeftOf(recs, recs)
<1>1. \A i \in Lasting(recs) : i \in 1..Len(recs)
  BY DEF Lasting
<1>2. Len(recs) \in Nat
  OBVIOUS
<1> QED
  BY <1>1, <1>2 DEF HoldTo, LeftOf

\* A handler that begins to write its records stands before the first of them.
LEMMA ConfiguredParts ==
    ASSUME TypeInv, PartsInv, NEW r \in Resource, call[r].at \in {"zone", "patch_zone"},
           UpsertConfigured(r), wholes'[Home(r)] = r, WholesAt(r),
           UNCHANGED <<subnets, records, altered, state>>
    PROVE  PartsInv'
<1>1. /\ IsZone(r) /\ call[r].op \in {"create", "update"} /\ call[r].cfg \in Specs[r]
      /\ call[r].on = Home(r) /\ Fits(r) /\ ~IsVPC(r)
  BY ConfiguredTypes DEF PartsInv, Fits, Placed, IsZone, IsVPC
<1>2. CASE call' = Ended(r, "error") /\ doubt' = doubt \cup {r}
  <2>1. /\ call'[r].at = "idle" /\ call'[r].op = "none"
        /\ \A q \in Resource \ {r} : call'[q] = call[q]
    BY <1>2, Ends DEF TypeInv, Told
  <2>2. Placed(r)'
    BY <1>1, <2>1 DEF Fits, Placed, HasEntry
  <2>3. Known(r)' /\ ZoneKept(r)'
    BY <1>2, <2>1 DEF Known, ZoneKept
  <2> QED
    BY <1>1, <1>2, <2>1, <2>2, <2>3, Local DEF Alone, Fits, IsVPC, IsZone
<1>3. CASE /\ call[r].cfg["records"] # Malformed
           /\ call' = Upserting(r, call[r].cfg["records"]) /\ UNCHANGED doubt
  <2>0. PICK recs : recs = call[r].cfg["records"]
    OBVIOUS
  <2>1. recs \in Seq(Entries)
    BY <1>1, <1>3, <2>0, ConfigFacts
  <2>2. /\ call'[r].at = After(r, recs) /\ call'[r].left = recs
        /\ call'[r].op = call[r].op /\ call'[r].on = call[r].on /\ call'[r].cfg = call[r].cfg
        /\ \A q \in Resource \ {r} : call'[q] = call[q]
    BY <1>1, <1>3, <2>0, <2>1, Upserts DEF TypeInv
  <2>3. HasEntry(r)' <=> HasEntry(r)
    BY DEF HasEntry
  <2>4. Placed(r)'
    BY <1>1, <2>2, <2>3 DEF Fits, Placed
  <2>5. call'[r].at \in {"upsert", "answer", "read"} /\ (call'[r].at = "upsert" <=> recs # <<>>)
    BY <2>2 DEF After
  <2>6. Known(r)'
    BY <1>1, <2>2, <2>3, <2>5 DEF Fits, Known, Placed
  <2>7. Len(recs) - Len(recs) = 0 /\ (recs = <<>> => Len(recs) = 0)
    BY <2>1
  <2>8. HoldTo(r, recs, 0)' /\ LeftOf(recs, recs)
    <3>1. \A i \in Lasting(recs) : ~(i <= 0)
      <4>1. \A i \in Lasting(recs) : i \in 1..Len(recs)
        BY <2>1 DEF Lasting
      <4> QED
        BY <2>1, <4>1
    <3> QED
      BY <3>1, <2>1, NoneWritten DEF HoldTo
  <2>9. recs = <<>> => Hold(r, recs)'
    BY DEF Hold, Lasting
  <2>10. call'[r].cfg["records"] = recs
    BY <2>0, <2>2
  <2>11. ZoneKept(r)'
    BY <2>2, <2>5, <2>7, <2>8, <2>9, <2>10 DEF ZoneKept, LeftOf
  <2> QED
    BY <1>1, <1>3, <2>2, <2>4, <2>6, <2>11, Local DEF Alone, Fits, IsVPC, IsZone
<1> QED
  BY <1>2, <1>3 DEF UpsertConfigured

LEMMA ZoneParts ==
    ASSUME TypeInv, PartsInv, NEW r \in Resource, CreateZone(r)
    PROVE  PartsInv'
<1>1. CASE Stands(call[r].on) /\ Refused(r, "exists")
  BY <1>1, RefusedParts DEF CreateZone, Refused, Told
<1>2. CASE /\ wholes' = [wholes EXCEPT ![call[r].on] = r] /\ UpsertConfigured(r)
           /\ UNCHANGED <<subnets, records, altered>>
  <2>1. call[r].on = Home(r)
    BY DEF PartsInv, Fits, Placed, CreateZone
  <2>2. wholes'[Home(r)] = r /\ WholesAt(r)
    BY <1>2, <2>1, HomeFacts DEF TypeInv, CloudTyped, WholesAt
  <2> QED
    BY <1>2, <2>2, ConfiguredParts DEF CreateZone
<1> QED
  BY <1>1, <1>2 DEF CreateZone

LEMMA PatchZoneParts ==
    ASSUME TypeInv, PartsInv, NEW r \in Resource, PatchZone(r)
    PROVE  PartsInv'
<1>1. CASE Refused(r, "error")
  BY <1>1, RefusedParts DEF PatchZone, Refused, Told
<1>2. CASE Stands(call[r].on) /\ UpsertConfigured(r) /\ UNCHANGED <<cloud, altered>>
  <2>1. call[r].on = Home(r)
    BY DEF PartsInv, Fits, Placed, PatchZone
  <2>2. wholes'[Home(r)] = r /\ WholesAt(r)
    BY <1>2, <2>1, AtHome DEF PartsInv, WholesAt, cloud
  <2> QED
    BY <1>2, <2>2, ConfiguredParts DEF PatchZone, cloud
<1> QED
  BY <1>1, <1>2 DEF PatchZone

\* One more record is written, whichever came before it under its name.
LEMMA OneMoreWritten ==
    ASSUME TypeInv, NEW r \in Resource, NEW recs \in Seq(Entries), NEW left \in Seq(Entries),
           left # <<>>, LeftOf(recs, left), HoldTo(r, recs, Len(recs) - Len(left)),
           records' = [records EXCEPT ![Home(r)][Head(left).name] = Head(left).value],
           altered' = altered \ {<<Home(r), Head(left).name>>}
    PROVE  /\ LeftOf(recs, Tail(left)) /\ HoldTo(r, recs, Len(recs) - Len(Tail(left)))'
           /\ Tail(left) = <<>> => Hold(r, recs)'
<1> DEFINE m == Len(recs) - Len(left)
           rec == Head(left)
           rest == Tail(left)
<1>1. /\ Len(recs) \in Nat /\ Len(left) \in Nat /\ Len(left) # 0 /\ Len(left) <= Len(recs)
      /\ DOMAIN recs = 1..Len(recs)
  BY EmptySeq DEF LeftOf
<1>2. /\ rec \in Entries /\ rest \in Seq(Entries) /\ Len(rest) = Len(left) - 1
      /\ \A i \in 1..Len(rest) : rest[i] = left[i + 1]
  BY HeadTailProperties
<1>3. rec = recs[m + 1] /\ m + 1 \in DOMAIN recs
  <2>1. rec = left[1]
    OBVIOUS
  <2> QED
    BY <1>1, <2>1 DEF LeftOf
<1>4. LeftOf(recs, rest)
  <2>1. \A i \in 1..Len(rest) : rest[i] = recs[Len(recs) - Len(rest) + i]
    <3> SUFFICES ASSUME NEW i \in 1..Len(rest) PROVE rest[i] = recs[Len(recs) - Len(rest) + i]
      OBVIOUS
    <3>1. i + 1 \in 1..Len(left) /\ rest[i] = left[i + 1]
      BY <1>1, <1>2
    <3>2. left[i + 1] = recs[Len(recs) - Len(left) + (i + 1)]
      BY <3>1 DEF LeftOf
    <3>3. Len(recs) - Len(left) + (i + 1) = Len(recs) - Len(rest) + i
      BY <1>1, <1>2
    <3> QED
      BY <3>1, <3>2, <3>3
  <2> QED
    BY <1>1, <1>2, <2>1 DEF LeftOf
<1>5. rec.name \in Record /\ rec.value \in Value
  BY <1>2, EntryFields
<1>6. /\ records'[Home(r)][rec.name] = rec.value
      /\ \A n \in Record \ {rec.name} : records'[Home(r)][n] = records[Home(r)][n]
  BY ZenonT(30), <1>5, HomeFacts, RecordBecomes DEF TypeInv
<1>7. HoldTo(r, recs, m + 1)'
  <2> SUFFICES ASSUME NEW i \in Lasting(recs), i <= m + 1
               PROVE  \/ records'[Home(r)][recs[i].name] = recs[i].value
                      \/ <<Home(r), recs[i].name>> \in altered'
    BY DEF HoldTo
  <2>1. i \in DOMAIN recs /\ i \in 1..Len(recs)
    BY <1>1 DEF Lasting
  <2>2. CASE i = m + 1
    BY <1>3, <1>6, <2>2
  <2>3. CASE i <= m
    <3>1. recs[i].name # rec.name
      BY <1>1, <1>3, <2>1, <2>3 DEF Lasting
    <3>2. recs[i].name \in Record
      BY <2>1, ElementOfSeq, EntryFields
    <3>3. \/ records[Home(r)][recs[i].name] = recs[i].value
          \/ <<Home(r), recs[i].name>> \in altered
      BY <2>3 DEF HoldTo
    <3> QED
      BY <1>6, <3>1, <3>2, <3>3
  <2> QED
    BY <1>1, <2>1, <2>2, <2>3
<1>8. Len(recs) - Len(rest) = m + 1
  BY <1>1, <1>2
<1>9. HoldTo(r, recs, Len(recs) - Len(rest))'
  BY <1>7, <1>8
<1>10. rest = <<>> => Hold(r, recs)'
  <2>1. rest = <<>> => Len(recs) - Len(rest) = Len(recs)
    <3> HIDE DEF rest
    <3>1. Len(<<>>) = 0
      OBVIOUS
    <3> QED
      BY <1>1, <3>1
  <2>2. \A i \in Lasting(recs) : i <= Len(recs)
    BY <1>1 DEF Lasting
  <2> QED
    BY <1>9, <2>1, <2>2 DEF HoldTo, Hold
<1> QED
  BY <1>4, <1>9, <1>10

LEMMA WrittenParts ==
    ASSUME TypeInv, PartsInv, NEW r \in Resource, call[r].at \in {"upsert", "repatch"},
           Written(r), UNCHANGED state
    PROVE  PartsInv'
<1>0. PICK left, rest, recs :
         left = call[r].left /\ rest = Tail(call[r].left) /\ recs = call[r].cfg["records"]
  OBVIOUS
<1>1. /\ left \in Seq(Entries) /\ left # <<>> /\ rest \in Seq(Entries) /\ IsZone(r) /\ ~IsVPC(r)
      /\ call[r].op \in {"create", "update"}
  BY <1>0, Busy DEF StepFits, IsZone, IsVPC
<1>2. /\ Fits(r) /\ call[r].on = Home(r) /\ wholes[Home(r)] = r
      /\ LeftOf(recs, left) /\ HoldTo(r, recs, Len(recs) - Len(left))
  BY <1>0, <1>1 DEF PartsInv, Fits, Placed, ZoneKept
<1>3. recs \in Seq(Entries)
  BY <1>2 DEF LeftOf
<1>4. /\ records' = [records EXCEPT ![Home(r)][Head(left).name] = Head(left).value]
      /\ altered' = altered \ {<<Home(r), Head(left).name>>}
      /\ call' = Upserting(r, rest) /\ wholes' = wholes /\ subnets' = subnets /\ doubt' = doubt
  BY <1>0, <1>2 DEF Written
<1>5. /\ call'[r].at = After(r, rest) /\ call'[r].left = rest
      /\ call'[r].op = call[r].op /\ call'[r].on = call[r].on /\ call'[r].cfg = call[r].cfg
      /\ \A q \in Resource \ {r} : call'[q] = call[q]
  BY <1>1, <1>4, Upserts DEF TypeInv
<1>6. /\ LeftOf(recs, rest) /\ HoldTo(r, recs, Len(recs) - Len(rest))'
      /\ rest = <<>> => Hold(r, recs)'
  BY <1>0, <1>1, <1>2, <1>3, <1>4, OneMoreWritten
<1>7. HasEntry(r)' <=> HasEntry(r)
  BY DEF HasEntry
<1>8. call'[r].at \in {"upsert", "answer", "read"} /\ (call'[r].at = "upsert" <=> rest # <<>>)
  BY <1>5 DEF After
<1>9. Placed(r)' /\ Known(r)'
  BY <1>1, <1>2, <1>4, <1>5, <1>7, <1>8 DEF Fits, Placed, Known, Stands
<1>10. call'[r].cfg["records"] = recs
  BY <1>0, <1>5
<1>11. Alone(r)
  <2>1. \A q \in Resource \ {r} : Home(q) \in Slot \ {Home(r)}
    BY HomeFacts
  <2>2. \A q \in Resource \ {r} : records'[Home(q)] = records[Home(q)]
    <3>1. Head(left).name \in Record /\ Head(left).value \in Value
      BY <1>0, Busy, EntryFields
    <3> QED
      BY <1>4, <2>1, <3>1, HomeFacts, RecordBecomes DEF TypeInv
  <2> QED
    BY <1>4, <1>5, <2>1, <2>2 DEF Alone
<1>12. ZoneKept(r)'
  BY <1>2, <1>4, <1>5, <1>6, <1>8, <1>10 DEF ZoneKept, LeftOf
<1> QED
  BY <1>1, <1>4, <1>9, <1>11, <1>12, Local DEF WholesAt, Fits, IsVPC, IsZone

LEMMA CreateRecordParts ==
    ASSUME TypeInv, PartsInv, NEW r \in Resource, CreateRecord(r)
    PROVE  PartsInv'
<1>1. CASE Written(r)
  BY <1>1, WrittenParts DEF CreateRecord
<1>2. CASE CutShort(r)
  BY <1>2, CutParts DEF CreateRecord, CutShort
<1>3. CASE call' = To(r, "repatch") /\ UNCHANGED <<cloud, doubt, altered>>
  <2>1. StepFits(r, [call[r] EXCEPT !.at = "repatch"])
    BY Busy DEF Calls, StepFits, CreateRecord
  <2>2. /\ call'[r].at = "repatch" /\ call'[r].op = call[r].op /\ call'[r].on = call[r].on
        /\ call'[r].cfg = call[r].cfg /\ call'[r].left = call[r].left
        /\ \A q \in Resource \ {r} : call'[q] = call[q]
    BY <1>3, <2>1, Moves DEF TypeInv, Steps
  <2>3. wholes' = wholes /\ subnets' = subnets /\ records' = records /\ doubt' = doubt
        /\ altered' = altered /\ state' = state
    BY <1>3 DEF cloud, CreateRecord
  <2>4. Fits(r) /\ call[r].at = "upsert" /\ IsZone(r) /\ ~IsVPC(r)
    BY Busy DEF PartsInv, CreateRecord, StepFits, IsZone, IsVPC
  <2>5. (HasEntry(r)' <=> HasEntry(r)) /\ (Stands(Home(r))' <=> Stands(Home(r)))
    BY <2>3 DEF HasEntry, Stands
  <2>6. Placed(r)' /\ Known(r)'
    BY <2>2, <2>3, <2>4, <2>5 DEF Fits, Placed, Known
  <2>7. ZoneKept(r)'
    BY <2>2, <2>3, <2>4 DEF Fits, ZoneKept, LeftOf, HoldTo
  <2> QED
    BY <2>2, <2>3, <2>4, <2>6, <2>7, Local DEF WholesAt, Alone, Fits, IsVPC, IsZone
<1> QED
  BY <1>1, <1>2, <1>3 DEF CreateRecord

LEMMA PatchRecordParts ==
    ASSUME TypeInv, PartsInv, NEW r \in Resource, PatchRecord(r)
    PROVE  PartsInv'
<1>1. CASE Written(r)
  BY <1>1, WrittenParts DEF PatchRecord
<1>2. CASE CutShort(r)
  BY <1>2, CutParts DEF PatchRecord, CutShort
<1> QED
  BY <1>1, <1>2 DEF PatchRecord

LEMMA ReadParts ==
    ASSUME TypeInv, PartsInv, NEW r \in Resource, ReadBack(r)
    PROVE  PartsInv'
<1>1. CASE CutShort(r)
  BY <1>1, CutParts DEF ReadBack, CutShort
<1>2. CASE Stands(call[r].on) /\ call' = To(r, "answer") /\ UNCHANGED <<cloud, doubt, altered>>
  <2>1. StepFits(r, [call[r] EXCEPT !.at = "answer"])
    BY Busy DEF Calls, StepFits, ReadBack
  <2>2. /\ call'[r].at = "answer" /\ call'[r].op = call[r].op /\ call'[r].on = call[r].on
        /\ call'[r].cfg = call[r].cfg /\ \A q \in Resource \ {r} : call'[q] = call[q]
    BY <1>2, <2>1, Moves DEF TypeInv, Steps
  <2>3. wholes' = wholes /\ subnets' = subnets /\ records' = records /\ doubt' = doubt
        /\ altered' = altered /\ state' = state
    BY <1>2 DEF cloud, ReadBack
  <2>4. Fits(r) /\ call[r].at = "read" /\ call[r].op = "update" /\ call[r].on = Home(r)
    BY Busy DEF PartsInv, ReadBack, StepFits, Fits, Placed
  <2>5. wholes[Home(r)] = r
    BY <1>2, <2>4, AtHome DEF PartsInv
  <2>6. (HasEntry(r)' <=> HasEntry(r)) /\ (Stands(Home(r))' <=> Stands(Home(r)))
    BY <2>3 DEF HasEntry, Stands
  <2>7. Placed(r)' /\ Known(r)'
    BY <2>2, <2>3, <2>4, <2>6 DEF Fits, Placed, Known
  <2>8. IsVPC(r) => VPCKept(r)'
    BY <2>2, <2>3, <2>4, <2>5, <2>6 DEF Fits, VPCKept, VPCWhole
  <2>9. IsZone(r) => ZoneKept(r)'
    BY <2>2, <2>3, <2>4 DEF Fits, ZoneKept, Hold
  <2> QED
    BY <2>2, <2>3, <2>7, <2>8, <2>9, Local DEF WholesAt, Alone, Fits, IsVPC, IsZone
<1> QED
  BY <1>1, <1>2 DEF ReadBack

LEMMA DeleteParts ==
    ASSUME TypeInv, PartsInv, NEW r \in Resource, Delete(r)
    PROVE  PartsInv'
<1>1. CASE call' = Ended(r, "error") /\ UNCHANGED wholes
  BY <1>1, DeleteIs, RefusedParts DEF cloud, Told
<1>2. CASE wholes' = [wholes EXCEPT ![call[r].on] = Nobody] /\ call' = To(r, "answer")
  <2>1. call[r].at = "delete" /\ call[r].op = "delete" /\ call[r].on = Home(r) /\ Fits(r)
    BY Busy, DeleteIs DEF StepFits, PartsInv, Fits, Placed
  <2>2. StepFits(r, [call[r] EXCEPT !.at = "answer"])
    BY <2>1, Busy DEF Calls, StepFits
  <2>3. /\ call'[r].at = "answer" /\ call'[r].op = "delete" /\ call'[r].on = call[r].on
        /\ \A q \in Resource \ {r} : call'[q] = call[q]
    BY <1>2, <2>1, <2>2, Moves DEF TypeInv, Steps
  <2>4. subnets' = subnets /\ records' = records /\ doubt' = doubt /\ altered' = altered
        /\ state' = state
    BY DeleteIs
  <2>5. ~Stands(Home(r))' /\ WholesAt(r)
    BY <1>2, <2>1, HomeFacts DEF Stands, WholesAt, TypeInv, CloudTyped
  <2>6. HasEntry(r)' <=> HasEntry(r)
    BY <2>4 DEF HasEntry
  <2>7. Placed(r)' /\ Known(r)' /\ VPCKept(r)' /\ ZoneKept(r)'
    BY <2>1, <2>3, <2>4, <2>5, <2>6 DEF Fits, Placed, Known, VPCKept, ZoneKept
  <2> QED
    BY <2>3, <2>4, <2>5, <2>7, Local DEF Alone, Fits, IsVPC, IsZone
<1> QED
  BY <1>1, <1>2, DeleteIs

LEMMA AnswerParts ==
    ASSUME TypeInv, PartsInv, NEW r \in Resource, Answer(r)
    PROVE  PartsInv'
<1>1. /\ call'[r].at = "idle" /\ call'[r].op = "none" /\ state'[r] = Answered(r)
      /\ call[r].at = "answer"
      /\ \A q \in Resource \ {r} : state'[q] = state[q] /\ call'[q] = call[q]
  BY AnswerIs
<1>2. wholes' = wholes /\ subnets' = subnets /\ records' = records /\ altered' = altered
  BY DEF Answer, cloud
<1>3. /\ doubt \ {r} \subseteq doubt' /\ doubt' \subseteq doubt
      /\ r \in doubt' => /\ call[r].op = "update" /\ r \in doubt
      /\ r \notin doubt' =>
            r \notin doubt \/ ~(/\ call[r].op = "update" /\ IsVPC(r)
                                /\ "subnet_id" \notin DOMAIN call[r].cfg)
  BY DEF Answer, IsVPC
<1>4. Fits(r) /\ call[r].on[2] = r /\ call[r].op \in {"create", "update", "delete"}
  BY <1>1, Busy, HomeFacts DEF PartsInv, Fits, Placed, StepFits, Calls, Ops
<1>5. Alone(r)
  BY <1>1, <1>2, <1>3 DEF Alone
<1>6. CASE call[r].op = "delete"
  <2>1. state'[r] = NoEntry
    BY <1>1, <1>6 DEF Answered
  <2>2. ~HasEntry(r)'
    BY <2>1 DEF HasEntry, NoEntry
  <2>3. ~Stands(Home(r))'
    BY <1>1, <1>2, <1>4, <1>6 DEF Fits, Known, Stands
  <2>4. Placed(r)' /\ Known(r)' /\ VPCKept(r)' /\ ZoneKept(r)'
    BY <1>1, <1>2, <1>4, <2>2, <2>3 DEF Fits, Placed, Known, VPCKept, ZoneKept
  <2> QED
    BY <1>2, <1>5, <2>4, Local DEF WholesAt, Fits
<1>7. CASE call[r].op \in {"create", "update"}
  <2>1. HasEntry(r)' /\ state'[r].cname = r /\ state'[r].from = call[r].cfg
    BY <1>1, <1>4, <1>7 DEF Answered, Entry, HasEntry
  <2>2. Placed(r)' /\ Known(r)'
    BY <1>1, <1>2, <1>4, <2>1 DEF Fits, Placed, Known
  <2>3. IsVPC(r) => VPCKept(r)'
    <3> SUFFICES ASSUME IsVPC(r), r \notin doubt' PROVE VPCWhole(r)'
      BY <1>1 DEF VPCKept
    <3>1. CASE call[r].op = "create" \/ "subnet_id" \in DOMAIN call[r].cfg
      BY <1>1, <1>2, <1>4, <1>7, <3>1 DEF Fits, VPCKept, VPCWhole
    <3>2. CASE call[r].op = "update" /\ "subnet_id" \notin DOMAIN call[r].cfg
      BY <1>1, <1>2, <1>3, <1>4, <3>2 DEF Fits, Placed, VPCKept, VPCWhole
    <3> QED
      BY <1>7, <3>1, <3>2
  <2>4. IsZone(r) => ZoneKept(r)'
    <3>1. ASSUME IsZone(r)
          PROVE  wholes[Home(r)] = r /\ Hold(r, call[r].cfg["records"])
      BY <1>1, <1>4, <1>7, <3>1 DEF Fits, ZoneKept
    <3> QED
      BY <1>1, <1>2, <2>1, <3>1 DEF ZoneKept, Hold
  <2> QED
    BY <1>2, <1>5, <2>2, <2>3, <2>4, Local DEF WholesAt, Fits, IsVPC, IsZone
<1> QED
  BY <1>4, <1>6, <1>7

LEMMA StartParts ==
    ASSUME Named, TypeInv, PartsInv, NEW r \in Resource, Start(r)
    PROVE  PartsInv'
<1>1. PICK action \in {"create", "update", "delete"} :
         /\ call' = [call EXCEPT ![r] = Planned(r, action)] /\ call[r].at = "idle"
         /\ action = "create" <=> ~HasEntry(r)
         /\ action # "delete" => desired[r] \in Specs[r]
         /\ UNCHANGED <<desired, state, cloud, doubt, altered, edits, faults, drifts>>
  BY PlanFits
<1>2. wholes' = wholes /\ subnets' = subnets /\ records' = records /\ doubt' = doubt
      /\ altered' = altered /\ state' = state
  BY <1>1 DEF cloud
<1>3. call'[r] = Planned(r, action) /\ \A q \in Resource \ {r} : call'[q] = call[q]
  BY <1>1, PlannedTyped, CallBecomes DEF TypeInv
<1> DEFINE first == FirstStep(r, action)
<1>4. /\ call'[r].at = first /\ call'[r].op = action /\ call'[r].cfg = desired[r]
      /\ call'[r].on = IF action = "create" THEN SlotFor(r, desired[r]) ELSE Addressed(r)
  BY <1>3 DEF Planned
<1>5. /\ first \notin {"idle", "subnet", "answer", "upsert", "repatch"}
      /\ IsZone(r) => first # "read"
      /\ first = "read" => "subnet_id" \notin DOMAIN desired[r]
      /\ action = "create" => first \in {"network", "zone"}
  BY DEF FirstStep, IsZone
<1>6. Fits(r) /\ call[r].op = "none"
  BY <1>1, Busy DEF PartsInv, StepFits
<1>7. call'[r].on = Home(r)
  <2>1. CASE action = "create"
    <3>1. desired[r]["name"] = r /\ "name" \in DOMAIN desired[r]
      BY <1>1, <2>1, ConfigFacts DEF Named
    <3> QED
      BY <1>4, <2>1, <3>1 DEF SlotFor, Home
  <2>2. CASE action # "create"
    BY <1>1, <1>4, <1>6, <2>2 DEF Fits, Placed, Addressed, Home
  <2> QED
    BY <2>1, <2>2
<1> HIDE DEF first
<1>8. (HasEntry(r)' <=> HasEntry(r)) /\ (Stands(Home(r))' <=> Stands(Home(r)))
  BY <1>2 DEF HasEntry, Stands
<1>9. Placed(r)'
  BY <1>1, <1>2, <1>4, <1>6, <1>7, <1>8 DEF Fits, Placed
<1>10. Known(r)'
  BY <1>2, <1>4, <1>5, <1>6, <1>8 DEF Fits, Known
<1>11. IsVPC(r) => VPCKept(r)'
  BY <1>1, <1>2, <1>4, <1>5, <1>6, <1>8 DEF Fits, VPCKept, VPCWhole
<1>12. IsZone(r) => ZoneKept(r)'
  BY <1>1, <1>2, <1>4, <1>5, <1>6, <1>8 DEF Fits, ZoneKept, Hold
<1> QED
  BY <1>2, <1>3, <1>9, <1>10, <1>11, <1>12, Local DEF WholesAt, Alone, Fits, IsVPC, IsZone

LEMMA RefreshParts ==
    ASSUME TypeInv, PartsInv, NEW r \in Resource, Refresh(r)
    PROVE  PartsInv'
<1>1. /\ call'[r].at = "idle" /\ call'[r].op = "none"
      /\ state'[r].cname = state[r].cname /\ state'[r].from = state[r].from
      /\ HasEntry(r) /\ HasEntry(r)'
      /\ \A q \in Resource \ {r} : state'[q] = state[q] /\ call'[q] = call[q]
  BY RefreshIs
<1>2. wholes' = wholes /\ subnets' = subnets /\ records' = records /\ doubt' = doubt
      /\ altered' = altered /\ call[r].at = "idle"
  BY DEF cloud, Refresh
<1>3. Fits(r)
  BY DEF PartsInv
<1>4. Placed(r)' /\ Known(r)'
  BY <1>1, <1>2, <1>3 DEF Fits, Placed, Known
<1>5. IsVPC(r) => VPCKept(r)'
  BY <1>1, <1>2, <1>3 DEF Fits, VPCKept, VPCWhole
<1>6. IsZone(r) => ZoneKept(r)'
  BY <1>1, <1>2, <1>3 DEF Fits, ZoneKept, Hold
<1> QED
  BY <1>1, <1>2, <1>4, <1>5, <1>6, Local DEF WholesAt, Alone, Fits, IsVPC, IsZone

LEMMA ImportParts ==
    ASSUME TypeInv, PartsInv, NEW r \in Resource, Import(r)
    PROVE  PartsInv'
<1>1. /\ call'[r].at = "idle" /\ call'[r].op = "none"
      /\ state'[r].cname = r /\ doubt' = doubt \cup {r} /\ UNCHANGED <<cloud, altered>>
      /\ \A q \in Resource \ {r} : state'[q] = state[q] /\ call'[q] = call[q]
  BY ImportIs
<1>2. Fits(r) /\ wholes' = wholes /\ subnets' = subnets /\ records' = records
  BY <1>1 DEF PartsInv, cloud
<1>3. Placed(r)' /\ Known(r)' /\ VPCKept(r)' /\ ZoneKept(r)'
  BY <1>1, <1>2 DEF Fits, Placed, Known, VPCKept, ZoneKept
<1> QED
  BY <1>1, <1>2, <1>3, Local DEF WholesAt, Alone, Fits

\* What others change of a zone's records is remembered as altered.
LEMMA OthersParts ==
    ASSUME TypeInv, PartsInv, NEW s \in Slot, NEW n \in Record, NEW v \in Value \cup {Unset},
           OthersChange(s, n, v)
    PROVE  PartsInv'
<1>1. /\ call' = call /\ state' = state /\ wholes' = wholes /\ subnets' = subnets
      /\ doubt' = doubt /\ altered' = altered \cup {<<s, n>>}
      /\ records' = [records EXCEPT ![s][n] = v]
  BY DEF OthersChange
<1>2. \A q \in Resource : \A m :
         records'[Home(q)][m] = records[Home(q)][m] \/ <<Home(q), m>> \in altered'
  <2> SUFFICES ASSUME NEW q \in Resource, NEW m, <<Home(q), m>> # <<s, n>>
               PROVE  records'[Home(q)][m] = records[Home(q)][m]
    BY <1>1
  <2>1. CASE Home(q) # s
    BY <1>1, <2>1, HomeFacts DEF TypeInv, CloudTyped
  <2>2. CASE Home(q) = s /\ m # n
    BY <1>1, <2>2, HomeFacts DEF TypeInv, CloudTyped
  <2> QED
    BY <2>1, <2>2
<1>3. \A q \in Resource : \A recs : Hold(q, recs) => Hold(q, recs)'
  BY <1>1, <1>2 DEF Hold
<1>4. \A q \in Resource : \A recs, m : HoldTo(q, recs, m) => HoldTo(q, recs, m)'
  BY <1>1, <1>2 DEF HoldTo
<1>5. \A q \in Resource : /\ HasEntry(q)' <=> HasEntry(q)
                          /\ Stands(Home(q))' <=> Stands(Home(q))
  BY <1>1 DEF HasEntry, Stands
<1>6. ASSUME NEW q \in Resource PROVE Fits(q)'
  <2>1. Fits(q)
    BY DEF PartsInv
  <2>2. Placed(q)' /\ Known(q)' /\ (VPCKept(q) => VPCKept(q)')
    BY <1>1, <1>5, <2>1 DEF Fits, Placed, Known, VPCKept, VPCWhole
  <2>3. ZoneKept(q) => ZoneKept(q)'
    BY <1>1, <1>3, <1>4, <1>5 DEF ZoneKept
  <2> QED
    BY <2>1, <2>2, <2>3 DEF Fits, IsVPC, IsZone
<1>7. Standing'
  BY <1>1 DEF PartsInv, Standing, Stands
<1> QED
  BY <1>6, <1>7 DEF PartsInv

\* A step of the host that leaves calls, entries and cloud alone.
LEMMA AsideParts ==
    ASSUME PartsInv, UNCHANGED <<state, call, cloud, doubt, altered>>
    PROVE  PartsInv'
<1>1. \A q \in Resource : Same(q)
  BY DEF Same, cloud
<1>2. \A q \in Resource : Fits(q)'
  BY <1>1, SameFits DEF PartsInv
<1>3. Standing'
  BY DEF PartsInv, Standing, Stands, cloud
<1> QED
  BY <1>2, <1>3 DEF PartsInv

LEMMA PartsInvInit == Init => PartsInv
<1> SUFFICES ASSUME Init PROVE PartsInv  OBVIOUS
<1>1. Standing
  BY DEF Init, Standing, Stands
<1>2. ASSUME NEW r \in Resource
      PROVE  /\ call[r] = Idle /\ ~HasEntry(r) /\ ~Stands(Home(r)) /\ subnets[r] = Unset
  BY HomeFacts DEF Init, HasEntry, NoEntry, Stands
<1>3. ASSUME NEW r \in Resource PROVE Fits(r)
  <2>1. call[r].at = "idle" /\ call[r].op = "none"
    BY <1>2 DEF Idle
  <2>2. Placed(r) /\ Known(r)
    BY <1>2, <2>1 DEF Placed, Known
  <2>3. VPCKept(r)
    BY <1>2, <2>1 DEF VPCKept
  <2>4. ZoneKept(r)
    BY <1>2, <2>1 DEF ZoneKept
  <2> QED
    BY <2>2, <2>3, <2>4 DEF Fits
<1> QED
  BY <1>1, <1>3 DEF PartsInv

LEMMA PartsInvStep ==
    ASSUME Named, OwnSubnets
    PROVE  TypeInv /\ PartsInv /\ [Next]_vars => PartsInv'
<1> SUFFICES ASSUME TypeInv, PartsInv, [Next]_vars PROVE PartsInv'  OBVIOUS
<1>1. ASSUME NEW r \in Resource, NEW cfg \in Specs[r] \cup {Unwanted}, Want(r, cfg)
      PROVE  PartsInv'
  BY <1>1, AsideParts DEF Want
<1>2. ASSUME NEW r \in Resource, Handle(r)
      PROVE  PartsInv'
  BY <1>2, NetworkParts, SubnetParts, DropParts, ZoneParts, PatchZoneParts, CreateRecordParts,
     PatchRecordParts, ReadParts, DeleteParts, AnswerParts DEF Handle
<1>3. ASSUME NEW r \in Resource, Start(r) \/ Refresh(r) \/ Import(r) \/ Lost(r)
      PROVE  PartsInv'
  BY <1>3, StartParts, RefreshParts, ImportParts, CutParts DEF Lost
<1>4. ASSUME NEW s \in Slot, NEW n \in Record, NEW v \in Value \cup {Unset}, OthersChange(s, n, v)
      PROVE  PartsInv'
  BY <1>4, OthersParts
<1>5. CASE UNCHANGED vars
  BY <1>5, AsideParts DEF vars
<1> QED
  BY <1>1, <1>2, <1>3, <1>4, <1>5 DEF Next

LEMMA PartsInvariant ==
    ASSUME Named, OwnSubnets
    PROVE  Spec => []PartsInv
BY PartsInvInit, PartsInvStep, TypesInvariant, PTL DEF Spec

\* Where resources are named and subnets their own, an entry that no call was cut off on leads to
\* the resource made for it, with all its parts as they were answered.
THEOREM PartsAreKept ==
    ASSUME Named, OwnSubnets
    PROVE  Spec => []PartsKept
<1>1. TypeInv /\ PartsInv => PartsKept
  <2> SUFFICES ASSUME TypeInv, PartsInv, NEW r \in Resource \ doubt, HasEntry(r),
                      call[r].at = "idle"
               PROVE  /\ wholes[Addressed(r)] = r
                      /\ IsVPC(r) => subnets[r] = Addressed(r)
                      /\ IsZone(r) => Hold(r, state[r].from["records"])
    <3>1. \A q \in Resource : HasEntry(q) /\ PartsInv => Addressed(q) = Home(q)
      BY DEF PartsInv, Fits, Placed, Addressed, Home
    <3> QED
      BY <3>1 DEF PartsKept, IsVPC, IsZone, Hold
  <2>1. Fits(r) /\ Addressed(r) = Home(r)
    BY DEF PartsInv, Fits, Placed, Addressed, Home
  <2>2. IsVPC(r) \/ IsZone(r)
    BY PartsAssumption DEF IsVPC, IsZone
  <2> QED
    BY <2>1, <2>2 DEF Fits, VPCKept, VPCWhole, ZoneKept
<1> QED
  BY <1>1, PartsInvariant, TypesInvariant, PTL

\* Where resources are named and subnets their own, nothing stands that nobody knows of.
THEOREM NothingIsStray ==
    ASSUME Named, OwnSubnets
    PROVE  Spec => []NothingStray
<1>1. TypeInv /\ PartsInv => NothingStray
  <2> SUFFICES ASSUME TypeInv, PartsInv, NEW s \in Slot, Stands(s)
               PROVE  LET r == wholes[s]
                      IN  \/ r \in doubt
                          \/ HasEntry(r) /\ Addressed(r) = s
                          \/ call[r].at # "idle" /\ call[r].op = "create" /\ call[r].on = s
    BY DEF NothingStray
  <2>1. PICK r \in Resource : r = wholes[s] /\ s = Home(r)
    BY DEF PartsInv, Standing, Stands, TypeInv, CloudTyped
  <2>2. Fits(r) /\ StepFits(r, call[r])
    BY Busy DEF PartsInv
  <2>3. HasEntry(r) => Addressed(r) = s
    BY <2>1, <2>2 DEF Fits, Placed, Addressed, Home
  <2>4. call[r].op = "create" => call[r].at # "idle" /\ call[r].on = s
    BY <2>1, <2>2 DEF Fits, Placed, StepFits
  <2> QED
    BY <2>1, <2>2, <2>3, <2>4 DEF Fits, Known
<1> QED
  BY <1>1, PartsInvariant, TypesInvariant, PTL
=============================================================================
