--------------------------- MODULE OwnershipLabels ---------------------------
(***************************************************************************)
(* Ownership labels.  SetOwner writes the label workflow-owner through the *)
(* Update of the type's driver, and an Apply may write other labels the    *)
(* same way; how the client writes them depends on the type.  GetOwner and *)
(* ListOwners read the Cloud Asset inventory, which lags behind.           *)
(***************************************************************************)
EXTENDS Naturals

CONSTANTS
    Asset,      \* resources, [name, region]; equal names are resources of one type
    Home,       \* the region the provider works in
    Writes,     \* how the client of each name's type writes labels; "none": no such type
    Owner,      \* owners a host sets
    Blank,      \* an owner of white space
    Team,       \* values of the other label
    None,       \* no label
    Caller,     \* concurrent RPCs
    MaxCalls,   \* bound: label updates through the plugin
    MaxOthers,  \* bound: labels written by somebody else
    MaxFaults   \* bound: client calls that fail

ASSUME LabelsAssumption ==
    /\ \A a \in Asset : Writes[a.name] \in {"etag", "whole", "keys", "none"}
    /\ Blank \notin Owner /\ None \notin Owner \cup Team
    /\ MaxCalls \in Nat /\ MaxOthers \in Nat /\ MaxFaults \in Nat

VARIABLES
    labels,   \* of each asset, in the cloud
    etag,     \* how often they were written
    index,    \* the inventory's copy of them
    rpc,      \* the label update of each caller
    told,     \* the owner GetOwner or ListOwners last named of each asset
    wrote,    \* history: the value last written to each label
    had,      \* history: the owners each asset has had
    crossed,  \* history: assets whose labels were overwritten with older ones
    calls, others, faults

cloud == <<labels, etag, wrote, had, crossed>>
bounds == <<calls, others, faults>>
vars == <<cloud, index, rpc, told, bounds>>

Key == {"workflow-owner", "team"}
Value == Owner \cup Team \cup {None}
NoLabels == [k \in Key |-> None]
NoAsset == [name |-> None, region |-> None]
Idle == [at |-> "idle", asset |-> NoAsset, key |-> "team", value |-> None,
         read |-> NoLabels, etag |-> 0]

Init ==
    /\ labels = [a \in Asset |-> NoLabels] /\ etag = [a \in Asset |-> 0]
    /\ index = [a \in Asset |-> NoLabels]
    /\ rpc = [c \in Caller |-> Idle]
    /\ told = [a \in Asset |-> None]
    /\ wrote = labels /\ had = [a \in Asset |-> {None}] /\ crossed = {}
    /\ calls = 0 /\ others = 0 /\ faults = 0

Fault == faults < MaxFaults /\ faults' = faults + 1

(***************************************************************************)
(* Label updates.  A driver is given the bare name and works in Home: the  *)
(* region of the asset that was named does not reach it.                   *)
(***************************************************************************)
DriverRef(a) == [name |-> a.name, region |-> Home]

Update(c, a, key, value) ==
    /\ rpc[c].at = "idle" /\ calls < MaxCalls /\ calls' = calls + 1
    /\ rpc' = [rpc EXCEPT ![c] = [Idle EXCEPT !.asset = DriverRef(a), !.key = key, !.value = value,
                  !.at = IF Writes[a.name] = "keys" THEN "put" ELSE "get"]]
    /\ UNCHANGED <<cloud, index, told, others, faults>>

\* Mutant of SetOwner: the owner is not looked at.
SetOwnerAny(c, a, owner) ==
    IF Writes[a.name] = "none" THEN UNCHANGED vars ELSE Update(c, a, "workflow-owner", owner)

SetOwner(c, a, owner) ==
    IF owner = Blank \/ Writes[a.name] = "none" THEN UNCHANGED vars
    ELSE Update(c, a, "workflow-owner", owner)

UpdateLabels(c, a, team) == Writes[a.name] # "none" /\ Update(c, a, "team", team)

Ends(c) == [rpc EXCEPT ![c] = Idle]

GetLabels(c) ==
    /\ rpc[c].at = "get"
    /\ \/ /\ rpc[c].asset \in Asset /\ UNCHANGED faults
          /\ rpc' = [rpc EXCEPT ![c].at = "put", ![c].read = labels[rpc[c].asset],
                                ![c].etag = etag[rpc[c].asset]]
       \/ rpc[c].asset \notin Asset /\ rpc' = Ends(c) /\ UNCHANGED faults
       \/ Fault /\ rpc' = Ends(c)
    /\ UNCHANGED <<cloud, index, told, calls, others>>

\* Mutant of MergeLabels: the labels read are left out.
MergeLabelsAnew(existing, key, value) == [NoLabels EXCEPT ![key] = value]

MergeLabels(existing, key, value) == [existing EXCEPT ![key] = value]

Written(a, key, value, now) ==
    /\ labels' = [labels EXCEPT ![a] = now] /\ etag' = [etag EXCEPT ![a] = @ + 1]
    /\ wrote' = [wrote EXCEPT ![a][key] = value]
    /\ had' = [had EXCEPT ![a] = @ \cup {now["workflow-owner"]}]

\* Cloud Run refuses a service read before another write; a bucket may be missing.
Refused(c) ==
    \/ rpc[c].asset \notin Asset
    \/ Writes[rpc[c].asset.name] = "etag" /\ etag[rpc[c].asset] # rpc[c].etag

\* A bucket's keys are set one by one; the others are given the map that was merged.
PutLabels(c) ==
    LET a == rpc[c].asset
        key == rpc[c].key
        perKey == Writes[a.name] = "keys"
        Put == /\ Written(a, key, rpc[c].value,
                          MergeLabels(IF perKey THEN labels[a] ELSE rpc[c].read, key, rpc[c].value))
               /\ crossed' = IF Writes[a.name] = "whole" /\ etag[a] # rpc[c].etag
                             THEN crossed \cup {a} ELSE crossed
    IN  /\ rpc[c].at = "put"
        /\ \/ ~Refused(c) /\ Put /\ rpc' = [rpc EXCEPT ![c].at = "read"] /\ UNCHANGED faults
           \/ Refused(c) /\ rpc' = Ends(c) /\ UNCHANGED <<cloud, faults>>
           \/ Fault /\ rpc' = Ends(c) /\ (UNCHANGED cloud \/ (~Refused(c) /\ Put))
        /\ UNCHANGED <<index, told, calls, others>>

\* The driver's Update ends with a Read, whose failure fails the call.
ReadBack(c) ==
    /\ rpc[c].at = "read" /\ rpc' = Ends(c)
    /\ UNCHANGED faults \/ Fault
    /\ UNCHANGED <<cloud, index, told, calls, others>>

OthersLabel(a, key, value) ==
    /\ others < MaxOthers /\ others' = others + 1
    /\ Written(a, key, value, [labels[a] EXCEPT ![key] = value])
    /\ UNCHANGED <<crossed, index, rpc, told, calls, faults>>

(***************************************************************************)
(* Reading owners.                                                         *)
(***************************************************************************)
IndexCatchesUp(a) ==
    /\ index[a] # labels[a] /\ index' = [index EXCEPT ![a] = labels[a]]
    /\ UNCHANGED <<cloud, rpc, told, bounds>>

\* Mutant of Named: any result of the search will do.
NamedLoosely(results, a) == results

\* The search matches names loosely; the results with another name are passed over.
Named(results, a) == {r \in results : r = a}

\* By the full name of an asset, or by a bare one, which is taken to be in Home; an asset that
\* is not in the inventory yet has no owner.
GetOwner(a) ==
    /\ Writes[a.name] # "none"
    /\ \E results \in SUBSET {r \in Asset : r.name = a.name} :
          \/ Named(results, a) = {} /\ told' = [told EXCEPT ![a] = None]
          \/ \E r \in Named(results, a) :
                told' = [told EXCEPT ![a] = index[r]["workflow-owner"]]
    /\ UNCHANGED <<cloud, index, rpc, bounds>>

ListOwners(owner) ==
    /\ told' = [a \in Asset |->
                   LET o == index[a]["workflow-owner"]
                   IN  IF Writes[a.name] # "none" /\ o # None /\ owner \in {None, o} THEN o
                       ELSE told[a]]
    /\ UNCHANGED <<cloud, index, rpc, bounds>>

Next ==
    \/ \E c \in Caller :
          \/ \E a \in Asset : \E o \in Owner \cup {Blank} : SetOwner(c, a, o)
          \/ \E a \in Asset : \E t \in Team : UpdateLabels(c, a, t)
          \/ GetLabels(c) \/ PutLabels(c) \/ ReadBack(c)
    \/ \E a \in Asset : \E t \in Team : OthersLabel(a, "team", t)
    \/ \E a \in Asset : \E o \in Owner : OthersLabel(a, "workflow-owner", o)
    \/ \E a \in Asset : IndexCatchesUp(a) \/ GetOwner(a)
    \/ \E o \in Owner \cup {None} : ListOwners(o)

Spec == Init /\ [][Next]_vars

(***************************************************************************)
(* Properties.                                                             *)
(***************************************************************************)
TypeOK ==
    /\ labels \in [Asset -> [Key -> Value]] /\ index \in [Asset -> [Key -> Value]]
    /\ etag \in [Asset -> Nat] /\ told \in [Asset -> Owner \cup {None}]
    /\ rpc \in [Caller -> [at : {"idle", "get", "put", "read"},
                           asset : {DriverRef(a) : a \in Asset} \cup {NoAsset}, key : Key,
                           value : Value, read : [Key -> Value], etag : Nat]]
    /\ \A c \in Caller : rpc[c].at # "idle" => \E a \in Asset : rpc[c].asset = DriverRef(a)
    /\ wrote \in [Asset -> [Key -> Value]] /\ had \in [Asset -> SUBSET Value]
    /\ crossed \subseteq Asset
    /\ calls \in 0..MaxCalls /\ others \in 0..MaxOthers /\ faults \in 0..MaxFaults

\* A label keeps the value that was last written to it, whoever wrote the others meanwhile,
\* until a client that writes the whole map back (Cloud SQL, Memorystore, Artifact Registry)
\* read it before that write.  Cloud Run and buckets never lose one.
LabelsStand ==
    \A a \in Asset : a \notin crossed => labels[a] = wrote[a]

\* An owner that GetOwner or ListOwners named of an asset is one this very asset has had, though
\* the inventory lags and the search also finds its namesakes elsewhere.
ToldWasTrue == \A a \in Asset : told[a] \in had[a]
=============================================================================
