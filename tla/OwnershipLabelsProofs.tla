------------------------ MODULE OwnershipLabelsProofs ------------------------
(***************************************************************************)
(* Which labels stand, and what GetOwner and ListOwners may say, for any   *)
(* resources, callers, failed calls and labels written by others.          *)
(***************************************************************************)
EXTENDS OwnershipLabels, TLAPS

-----------------------------------------------------------------------------
(* The invariant *)

OwnerOrNone == Owner \cup {None}
Owned(map) == map["workflow-owner"] \in OwnerOrNone

\* Owners are owners, in the cloud, the inventory and the calls under way.
OwnersFit ==
    /\ \A a \in Asset : Owned(labels[a]) /\ Owned(index[a])
    /\ \A c \in Caller : Owned(rpc[c].read)
                         /\ (rpc[c].key = "workflow-owner" => rpc[c].value \in OwnerOrNone)

\* Who is about to write the labels of an asset that nobody has written since it read them has
\* read what is there, unless the client sets one key; and no call is about a type without labels.
ReadsAreFresh ==
    \A c \in Caller : rpc[c].at # "idle" =>
        /\ Writes[rpc[c].asset.name] \in {"etag", "whole", "keys"}
        /\ (rpc[c].at = "put" /\ rpc[c].asset \in Asset /\ Writes[rpc[c].asset.name] # "keys") =>
              /\ rpc[c].etag <= etag[rpc[c].asset]
              /\ rpc[c].etag = etag[rpc[c].asset] => rpc[c].read = labels[rpc[c].asset]

\* Only a client that writes the whole map back writes over what it has not seen.
CrossedAreWhole == \A a \in crossed : Writes[a.name] = "whole"

\* What the cloud and the inventory show as the owner is in the asset's history.
OwnersAreHad ==
    \A a \in Asset : /\ None \in had[a]
                     /\ labels[a]["workflow-owner"] \in had[a]
                     /\ index[a]["workflow-owner"] \in had[a]

LabelsInv ==
    /\ TypeOK /\ OwnersFit /\ ReadsAreFresh /\ CrossedAreWhole /\ OwnersAreHad
    /\ LabelsStand /\ ToldWasTrue

-----------------------------------------------------------------------------
(* What the helpers answer *)

LEMMA IdleFits ==
    /\ Idle \in [at : {"idle", "get", "put", "read"},
                 asset : {DriverRef(a) : a \in Asset} \cup {NoAsset}, key : Key,
                 value : Value, read : [Key -> Value], etag : Nat]
    /\ Idle.at = "idle" /\ Owned(Idle.read) /\ Idle.key = "team"
BY DEF Idle, Key, Value, NoLabels, Owned, OwnerOrNone

\* A merge changes one label.
LEMMA MergeFits ==
    ASSUME NEW map \in [Key -> Value], Owned(map), NEW key \in Key, NEW value \in Value,
           key = "workflow-owner" => value \in OwnerOrNone
    PROVE  /\ MergeLabels(map, key, value) \in [Key -> Value]
           /\ Owned(MergeLabels(map, key, value))
BY DEF MergeLabels, Owned, Key

-----------------------------------------------------------------------------
(* Steps *)

\* A label written into the labels that are there.
LEMMA WrittenStep ==
    ASSUME LabelsInv, NEW a \in Asset, NEW key \in Key, NEW value \in Value,
           key = "workflow-owner" => value \in OwnerOrNone,
           NEW old \in [Key -> Value], Owned(old), Written(a, key, value, [old EXCEPT ![key] = value]),
           UNCHANGED <<index, told>>,
           crossed' \in SUBSET Asset, crossed \subseteq crossed',
           a \notin crossed' => old = labels[a],
           \A b \in crossed' : Writes[b.name] = "whole"
    PROVE  /\ labels' \in [Asset -> [Key -> Value]] /\ etag' \in [Asset -> Nat]
           /\ wrote' \in [Asset -> [Key -> Value]] /\ had' \in [Asset -> SUBSET Value]
           /\ \A b \in Asset : Owned(labels'[b]) /\ Owned(index'[b])
           /\ CrossedAreWhole' /\ OwnersAreHad' /\ LabelsStand' /\ ToldWasTrue'
           /\ etag'[a] = etag[a] + 1
           /\ \A b \in Asset \ {a} : labels'[b] = labels[b] /\ etag'[b] = etag[b]
<1> USE DEF LabelsInv
<1> DEFINE now == [old EXCEPT ![key] = value]
<1>1. now \in [Key -> Value] /\ Owned(now) /\ now["workflow-owner"] \in Value
  BY DEF Owned, Key
<1>2. /\ labels' = [labels EXCEPT ![a] = now] /\ etag' = [etag EXCEPT ![a] = @ + 1]
      /\ wrote' = [wrote EXCEPT ![a][key] = value]
      /\ had' = [had EXCEPT ![a] = @ \cup {now["workflow-owner"]}]
  BY DEF Written
<1> HIDE DEF now
<1>3. /\ labels' \in [Asset -> [Key -> Value]] /\ etag' \in [Asset -> Nat]
      /\ wrote' \in [Asset -> [Key -> Value]] /\ had' \in [Asset -> SUBSET Value]
  BY <1>1, <1>2 DEF TypeOK
<1>4. \A b \in Asset \ {a} : /\ labels'[b] = labels[b] /\ etag'[b] = etag[b]
                             /\ wrote'[b] = wrote[b] /\ had'[b] = had[b]
  BY <1>2 DEF TypeOK
<1>5. /\ labels'[a] = now /\ etag'[a] = etag[a] + 1
      /\ wrote'[a] = [wrote[a] EXCEPT ![key] = value]
      /\ had'[a] = had[a] \cup {now["workflow-owner"]}
  BY <1>2 DEF TypeOK
<1>6. \A b \in Asset : Owned(labels'[b]) /\ Owned(index'[b])
  BY <1>1, <1>4, <1>5 DEF OwnersFit
<1>7. OwnersAreHad' /\ ToldWasTrue'
  BY <1>4, <1>5 DEF OwnersAreHad, ToldWasTrue
<1>8. LabelsStand'
  <2> SUFFICES ASSUME NEW b \in Asset, b \notin crossed'  PROVE labels'[b] = wrote'[b]
    BY DEF LabelsStand
  <2>1. labels[b] = wrote[b]
    BY DEF LabelsStand
  <2>2. CASE b = a
    BY <1>5, <2>1, <2>2 DEF now
  <2> QED
    BY <1>4, <2>1, <2>2
<1> QED
  BY <1>3, <1>4, <1>5, <1>6, <1>7, <1>8 DEF CrossedAreWhole

\* A call moves on, or ends, without a write.
LEMMA CallStep ==
    ASSUME LabelsInv, NEW c \in Caller, UNCHANGED <<cloud, index, told>>,
           rpc' = [rpc EXCEPT ![c] = Idle],
           calls' \in 0..MaxCalls, others' \in 0..MaxOthers, faults' \in 0..MaxFaults
    PROVE  LabelsInv'
<1> USE DEF LabelsInv
<1>1. TypeOK'
  BY IdleFits DEF TypeOK, cloud
<1>2. OwnersFit' /\ ReadsAreFresh'
  BY IdleFits DEF OwnersFit, ReadsAreFresh, TypeOK, cloud
<1> QED
  BY <1>1, <1>2 DEF CrossedAreWhole, OwnersAreHad, LabelsStand, ToldWasTrue, cloud

LEMMA UpdateStep ==
    ASSUME LabelsInv, NEW c \in Caller, NEW a \in Asset, NEW key \in Key, NEW value \in Value,
           key = "workflow-owner" => value \in OwnerOrNone,
           Writes[a.name] # "none", Update(c, a, key, value)
    PROVE  LabelsInv'
<1> USE DEF LabelsInv
<1> DEFINE r == [Idle EXCEPT !.asset = DriverRef(a), !.key = key, !.value = value,
                    !.at = IF Writes[a.name] = "keys" THEN "put" ELSE "get"]
<1>1. /\ rpc' = [rpc EXCEPT ![c] = r] /\ calls' \in 0..MaxCalls
      /\ UNCHANGED <<cloud, index, told, others, faults>>
  BY LabelsAssumption DEF Update, TypeOK
<1>2. /\ r \in [at : {"idle", "get", "put", "read"},
                asset : {DriverRef(b) : b \in Asset} \cup {NoAsset}, key : Key,
                value : Value, read : [Key -> Value], etag : Nat]
      /\ r.asset = DriverRef(a) /\ r.key = key /\ r.value = value /\ r.read = NoLabels
      /\ r.at = IF Writes[a.name] = "keys" THEN "put" ELSE "get"
  BY DEF Idle, NoLabels, Value
<1>3. r.asset.name = a.name
  BY <1>2 DEF DriverRef
<1> HIDE DEF r
<1>4. TypeOK'
  BY <1>1, <1>2 DEF TypeOK, cloud
<1>5. OwnersFit'
  <2>1. Owned(r.read)
    BY <1>2 DEF NoLabels, Owned, OwnerOrNone, Key
  <2> QED
    BY <1>1, <1>2, <2>1 DEF OwnersFit, TypeOK, cloud
<1>6. ReadsAreFresh'
  BY <1>1, <1>2, <1>3, LabelsAssumption DEF ReadsAreFresh, TypeOK, cloud
<1> QED
  BY <1>1, <1>4, <1>5, <1>6 DEF CrossedAreWhole, OwnersAreHad, LabelsStand, ToldWasTrue, cloud

LEMMA GetStep ==
    ASSUME LabelsInv, NEW c \in Caller, GetLabels(c)
    PROVE  LabelsInv'
<1> USE DEF LabelsInv
<1>1. /\ UNCHANGED <<cloud, index, told, calls, others>>
      /\ calls' \in 0..MaxCalls /\ others' \in 0..MaxOthers /\ faults' \in 0..MaxFaults
  BY LabelsAssumption DEF GetLabels, Fault, TypeOK
<1>2. CASE rpc' = Ends(c)
  BY <1>1, <1>2, CallStep DEF Ends
<1>3. CASE /\ rpc[c].asset \in Asset
           /\ rpc' = [rpc EXCEPT ![c].at = "put", ![c].read = labels[rpc[c].asset],
                                 ![c].etag = etag[rpc[c].asset]]
  <2>1. /\ rpc' \in [Caller -> [at : {"idle", "get", "put", "read"},
                     asset : {DriverRef(b) : b \in Asset} \cup {NoAsset}, key : Key,
                     value : Value, read : [Key -> Value], etag : Nat]]
        /\ rpc'[c].at = "put" /\ rpc'[c].read = labels[rpc[c].asset]
        /\ rpc'[c].etag = etag[rpc[c].asset] /\ rpc'[c].asset = rpc[c].asset
        /\ rpc'[c].key = rpc[c].key /\ rpc'[c].value = rpc[c].value
        /\ \A d \in Caller \ {c} : rpc'[d] = rpc[d]
    BY ZenonT(30), <1>3 DEF TypeOK
  <2>2. rpc[c].at = "get" /\ etag[rpc[c].asset] \in Nat
    BY <1>3 DEF GetLabels, TypeOK
  <2>3. TypeOK'
    <3>1. \A d \in Caller : rpc'[d].at # "idle" => \E a \in Asset : rpc'[d].asset = DriverRef(a)
      <4>1. \A d \in Caller : rpc[d].at # "idle" => \E a \in Asset : rpc[d].asset = DriverRef(a)
        BY DEF TypeOK
      <4>2. \A d \in Caller : rpc'[d].asset = rpc[d].asset /\ (rpc'[d].at # "idle" => rpc[d].at # "idle")
        BY <2>1, <2>2
      <4> QED
        BY <4>1, <4>2
    <3>2. calls' \in 0..MaxCalls /\ others' \in 0..MaxOthers /\ faults' \in 0..MaxFaults
      BY <1>1
    <3> QED
      BY <1>1, <2>1, <3>1, <3>2, Zenon DEF TypeOK, cloud
  <2>4. OwnersFit'
    BY <1>1, <1>3, <2>1 DEF OwnersFit, cloud
  <2>5. ReadsAreFresh'
    BY <1>1, <2>1, <2>2 DEF ReadsAreFresh, cloud
  <2> QED
    BY <1>1, <2>3, <2>4, <2>5 DEF CrossedAreWhole, OwnersAreHad, LabelsStand, ToldWasTrue, cloud
<1> QED
  BY <1>2, <1>3 DEF GetLabels

\* The write of a call that is not refused, whether it is told so or not.
LEMMA PutStep ==
    ASSUME LabelsInv, NEW c \in Caller, PutLabels(c)
    PROVE  LabelsInv'
<1> USE DEF LabelsInv
<1> DEFINE a == rpc[c].asset
           key == rpc[c].key
           perKey == Writes[a.name] = "keys"
           old == IF perKey THEN labels[a] ELSE rpc[c].read
           Put == /\ Written(a, key, rpc[c].value, MergeLabels(old, key, rpc[c].value))
                  /\ crossed' = IF Writes[a.name] = "whole" /\ etag[a] # rpc[c].etag
                                THEN crossed \cup {a} ELSE crossed
<1>1. /\ UNCHANGED <<index, told, calls, others>>
      /\ calls' \in 0..MaxCalls /\ others' \in 0..MaxOthers /\ faults' \in 0..MaxFaults
  BY LabelsAssumption DEF PutLabels, Fault, TypeOK
<1>2. CASE UNCHANGED cloud /\ rpc' = Ends(c)
  BY <1>1, <1>2, CallStep DEF Ends
<1>3. CASE /\ ~Refused(c) /\ Put
           /\ rpc' = Ends(c) \/ rpc' = [rpc EXCEPT ![c] = [@ EXCEPT !.at = "read"]]
  <2>1. /\ a \in Asset /\ key \in Key /\ rpc[c].value \in Value
        /\ key = "workflow-owner" => rpc[c].value \in OwnerOrNone
        /\ old \in [Key -> Value] /\ Owned(old)
    BY <1>3 DEF Refused, TypeOK, OwnersFit
  <2>2. rpc[c].at = "put"
    BY DEF PutLabels
  <2>3. Written(a, key, rpc[c].value, [old EXCEPT ![key] = rpc[c].value])
    BY <1>3 DEF MergeLabels
  <2>4. /\ crossed' \in SUBSET Asset /\ crossed \subseteq crossed'
        /\ \A b \in crossed' : Writes[b.name] = "whole"
    BY <1>3, <2>1 DEF TypeOK, CrossedAreWhole
  <2>5. a \notin crossed' => old = labels[a]
    <3>1. CASE perKey
      BY <3>1
    <3>2. CASE ~perKey
      <4>1. Writes[a.name] \in {"etag", "whole"} /\ (rpc[c].etag = etag[a] => old = labels[a])
        BY <2>1, <2>2, <3>2 DEF ReadsAreFresh
      <4>2. CASE Writes[a.name] = "etag"
        BY <1>3, <2>1, <4>1, <4>2 DEF Refused
      <4>3. CASE Writes[a.name] = "whole"
        BY <1>3, <4>1, <4>3
      <4> QED
        BY <4>1, <4>2, <4>3
    <3> QED
      BY <3>1, <3>2
  <2> HIDE DEF a, key, perKey, old, Put
  <2>6. /\ labels' \in [Asset -> [Key -> Value]] /\ etag' \in [Asset -> Nat]
        /\ wrote' \in [Asset -> [Key -> Value]] /\ had' \in [Asset -> SUBSET Value]
        /\ \A b \in Asset : Owned(labels'[b]) /\ Owned(index'[b])
        /\ CrossedAreWhole' /\ OwnersAreHad' /\ LabelsStand' /\ ToldWasTrue'
        /\ etag'[a] = etag[a] + 1
        /\ \A b \in Asset \ {a} : labels'[b] = labels[b] /\ etag'[b] = etag[b]
    BY <1>1, <2>1, <2>3, <2>4, <2>5, WrittenStep
  <2>7. /\ rpc' \in [Caller -> [at : {"idle", "get", "put", "read"},
                     asset : {DriverRef(b) : b \in Asset} \cup {NoAsset}, key : Key,
                     value : Value, read : [Key -> Value], etag : Nat]]
        /\ rpc'[c] = Idle \/ rpc'[c] = [rpc[c] EXCEPT !.at = "read"]
        /\ \A d \in Caller \ {c} : rpc'[d] = rpc[d]
    <3>1. CASE rpc' = Ends(c)
      BY <3>1, IdleFits DEF TypeOK, Ends
    <3>2. CASE rpc' = [rpc EXCEPT ![c] = [@ EXCEPT !.at = "read"]]
      <4>1. [rpc[c] EXCEPT !.at = "read"] \in [at : {"idle", "get", "put", "read"},
                     asset : {DriverRef(b) : b \in Asset} \cup {NoAsset}, key : Key,
                     value : Value, read : [Key -> Value], etag : Nat]
        BY ZenonT(30) DEF TypeOK
      <4> QED
        BY <3>2, <4>1 DEF TypeOK
    <3> QED
      BY <1>3, <3>1, <3>2
  <2>11. rpc'[c] = Idle \/ (/\ rpc'[c].at = "read" /\ rpc'[c].asset = rpc[c].asset
                             /\ rpc'[c].key = rpc[c].key /\ rpc'[c].value = rpc[c].value
                             /\ rpc'[c].read = rpc[c].read)
    BY <2>7 DEF TypeOK
  <2>8. TypeOK'
    <3>1. \A d \in Caller : rpc[d].at # "idle" => \E b \in Asset : rpc[d].asset = DriverRef(b)
      BY DEF TypeOK
    <3>2. \A d \in Caller : rpc'[d].at # "idle" =>
             rpc[d].at # "idle" /\ rpc'[d].asset = rpc[d].asset
      BY <2>2, <2>7, <2>11, IdleFits
    <3>3. \A d \in Caller : rpc'[d].at # "idle" => \E b \in Asset : rpc'[d].asset = DriverRef(b)
      BY <3>1, <3>2
    <3> QED
      BY <1>1, <2>4, <2>6, <2>7, <3>3, Zenon DEF TypeOK
  <2>9. OwnersFit'
    <3>1. \A d \in Caller : Owned(rpc'[d].read)
                            /\ (rpc'[d].key = "workflow-owner" => rpc'[d].value \in OwnerOrNone)
      BY <2>7, <2>11, IdleFits DEF OwnersFit
    <3> QED
      BY <2>6, <3>1 DEF OwnersFit, Owned
  <2>10. ReadsAreFresh'
    <3> SUFFICES ASSUME NEW d \in Caller, rpc'[d].at # "idle"
                 PROVE  /\ Writes[rpc'[d].asset.name] \in {"etag", "whole", "keys"}
                        /\ (/\ rpc'[d].at = "put" /\ rpc'[d].asset \in Asset
                            /\ Writes[rpc'[d].asset.name] # "keys") =>
                              /\ rpc'[d].etag <= etag'[rpc'[d].asset]
                              /\ rpc'[d].etag = etag'[rpc'[d].asset] =>
                                    rpc'[d].read = labels'[rpc'[d].asset]
      BY DEF ReadsAreFresh
    <3>1. CASE d = c
      BY <2>2, <2>7, <3>1, IdleFits DEF ReadsAreFresh, TypeOK
    <3>2. CASE d # c
      <4>1. rpc'[d] = rpc[d] /\ rpc[d].etag \in Nat
        BY <2>7, <3>2 DEF TypeOK
      <4>2. CASE rpc[d].asset = a
        BY <2>1, <2>6, <4>1, <4>2 DEF ReadsAreFresh, TypeOK
      <4>3. CASE rpc[d].asset # a
        BY <2>6, <4>1, <4>3 DEF ReadsAreFresh
      <4> QED
        BY <4>2, <4>3
    <3> QED
      BY <3>1, <3>2
  <2> QED
    BY <2>6, <2>8, <2>9, <2>10
<1> QED
  BY <1>2, <1>3 DEF PutLabels

\* Somebody else's label.
LEMMA OthersStep ==
    ASSUME LabelsInv, NEW a \in Asset, NEW key \in Key, NEW value \in Value,
           key = "workflow-owner" => value \in OwnerOrNone, OthersLabel(a, key, value)
    PROVE  LabelsInv'
<1> USE DEF LabelsInv
<1>1. /\ UNCHANGED <<crossed, index, rpc, told, calls, faults>> /\ others' \in 0..MaxOthers
      /\ Written(a, key, value, [labels[a] EXCEPT ![key] = value])
  BY LabelsAssumption DEF OthersLabel, TypeOK
<1>2. labels[a] \in [Key -> Value] /\ Owned(labels[a])
  BY DEF TypeOK, OwnersFit
<1>3. crossed' \in SUBSET Asset /\ \A b \in crossed' : Writes[b.name] = "whole"
  BY <1>1 DEF TypeOK, CrossedAreWhole
<1>4. /\ labels' \in [Asset -> [Key -> Value]] /\ etag' \in [Asset -> Nat]
      /\ wrote' \in [Asset -> [Key -> Value]] /\ had' \in [Asset -> SUBSET Value]
      /\ \A b \in Asset : Owned(labels'[b]) /\ Owned(index'[b])
      /\ CrossedAreWhole' /\ OwnersAreHad' /\ LabelsStand' /\ ToldWasTrue'
      /\ etag'[a] = etag[a] + 1
      /\ \A b \in Asset \ {a} : labels'[b] = labels[b] /\ etag'[b] = etag[b]
  BY <1>1, <1>2, <1>3, WrittenStep
<1>5. TypeOK'
  BY <1>1, <1>4 DEF TypeOK
<1>6. OwnersFit'
  BY <1>1, <1>4 DEF OwnersFit
<1>7. ReadsAreFresh'
  <2>1. \A c \in Caller : rpc[c].etag \in Nat
    BY DEF TypeOK
  <2>2. etag[a] \in Nat
    BY DEF TypeOK
  <2> SUFFICES ASSUME NEW c \in Caller, rpc[c].at = "put", rpc[c].asset \in Asset,
                      Writes[rpc[c].asset.name] # "keys"
               PROVE  /\ rpc[c].etag <= etag'[rpc[c].asset]
                      /\ rpc[c].etag = etag'[rpc[c].asset] => rpc[c].read = labels'[rpc[c].asset]
    BY <1>1 DEF ReadsAreFresh
  <2>4. CASE rpc[c].asset = a
    BY <1>4, <2>1, <2>2, <2>4 DEF ReadsAreFresh
  <2>5. CASE rpc[c].asset # a
    BY <1>4, <2>5 DEF ReadsAreFresh
  <2> QED
    BY <2>4, <2>5
<1> QED
  BY <1>4, <1>5, <1>6, <1>7

\* Reading owners, and the inventory that catches up.
LEMMA ReadStep ==
    ASSUME LabelsInv, UNCHANGED <<cloud, rpc, bounds>>,
           index' \in [Asset -> [Key -> Value]], told' \in [Asset -> OwnerOrNone],
           \A a \in Asset : index'[a] \in {index[a], labels[a]},
           \A a \in Asset : told'[a] \in {told[a], None, index[a]["workflow-owner"]}
    PROVE  LabelsInv'
<1> USE DEF LabelsInv
<1>1. TypeOK'
  BY DEF TypeOK, cloud, bounds, OwnerOrNone
<1>2. OwnersFit' /\ OwnersAreHad'
  BY DEF OwnersFit, OwnersAreHad, cloud
<1>3. ToldWasTrue'
  BY DEF OwnersAreHad, ToldWasTrue, cloud
<1> QED
  BY <1>1, <1>2, <1>3 DEF ReadsAreFresh, CrossedAreWhole, LabelsStand, cloud

-----------------------------------------------------------------------------
(* The theorems *)

LEMMA LabelsInvInit == Init => LabelsInv
<1> SUFFICES ASSUME Init  PROVE LabelsInv
  OBVIOUS
<1>1. NoLabels \in [Key -> Value] /\ Owned(NoLabels)
  BY DEF NoLabels, Value, Owned, OwnerOrNone, Key
<1>2. TypeOK
  BY <1>1, IdleFits, LabelsAssumption DEF Init, TypeOK, Value
<1> QED
  BY <1>1, <1>2, IdleFits DEF Init, LabelsInv, OwnersFit, ReadsAreFresh, CrossedAreWhole,
                              OwnersAreHad, LabelsStand, ToldWasTrue, NoLabels, Key

LEMMA LabelsInvStep == LabelsInv /\ [Next]_vars => LabelsInv'
<1> SUFFICES ASSUME LabelsInv, [Next]_vars  PROVE LabelsInv'
  OBVIOUS
<1>0. Key = {"workflow-owner", "team"} /\ Owner \subseteq Value /\ Team \subseteq Value
      /\ Owner \subseteq OwnerOrNone
  BY DEF Key, Value, OwnerOrNone
<1>1. ASSUME NEW c \in Caller, NEW a \in Asset, NEW o \in Owner \cup {Blank}, SetOwner(c, a, o)
      PROVE  LabelsInv' \/ UNCHANGED vars
  BY <1>0, <1>1, UpdateStep DEF SetOwner
<1>2. ASSUME NEW c \in Caller, NEW a \in Asset, NEW t \in Team, UpdateLabels(c, a, t)
      PROVE  LabelsInv'
  BY <1>0, <1>2, UpdateStep DEF UpdateLabels
<1>3. ASSUME NEW c \in Caller, ReadBack(c)  PROVE LabelsInv'
  <2>1. /\ rpc' = [rpc EXCEPT ![c] = Idle] /\ UNCHANGED <<cloud, index, told, calls, others>>
        /\ UNCHANGED faults \/ Fault
    BY <1>3 DEF ReadBack, Ends
  <2>2. calls' \in 0..MaxCalls /\ others' \in 0..MaxOthers /\ faults' \in 0..MaxFaults
    BY <2>1, LabelsAssumption DEF Fault, LabelsInv, TypeOK
  <2> QED
    BY <2>1, <2>2, CallStep
<1>4. ASSUME NEW a \in Asset, IndexCatchesUp(a)  PROVE LabelsInv'
  BY <1>4, ReadStep DEF IndexCatchesUp, LabelsInv, TypeOK, OwnerOrNone
<1>5. ASSUME NEW a \in Asset, GetOwner(a)  PROVE LabelsInv'
  <2>1. told' = [told EXCEPT ![a] = None] \/ told' = [told EXCEPT ![a] = index[a]["workflow-owner"]]
    BY <1>5 DEF GetOwner, Named
  <2>2. index[a]["workflow-owner"] \in OwnerOrNone
    BY DEF LabelsInv, OwnersFit, Owned
  <2> QED
    BY <1>5, <2>1, <2>2, ReadStep DEF GetOwner, LabelsInv, TypeOK, OwnerOrNone
<1>6. ASSUME NEW o \in Owner \cup {None}, ListOwners(o)  PROVE LabelsInv'
  <2>1. \A a \in Asset : index[a]["workflow-owner"] \in OwnerOrNone
    BY DEF LabelsInv, OwnersFit, Owned
  <2>2. /\ told' \in [Asset -> OwnerOrNone]
        /\ \A a \in Asset : told'[a] \in {told[a], None, index[a]["workflow-owner"]}
    BY <1>6, <2>1 DEF ListOwners, LabelsInv, TypeOK, OwnerOrNone
  <2> QED
    BY <1>6, <2>2, ReadStep DEF ListOwners, LabelsInv, TypeOK
<1>7. CASE UNCHANGED vars
  BY <1>7, ReadStep DEF vars, LabelsInv, TypeOK, OwnerOrNone
<1>8. ASSUME NEW a \in Asset, \/ \E t \in Team : OthersLabel(a, "team", t)
                              \/ \E o \in Owner : OthersLabel(a, "workflow-owner", o)
      PROVE  LabelsInv'
  BY <1>0, <1>8, OthersStep
<1> QED
  BY <1>1, <1>2, <1>3, <1>4, <1>5, <1>6, <1>7, <1>8, GetStep, PutStep DEF Next

\* Labels, calls and answers stay of their types; in particular no call carries an owner of white
\* space.
THEOREM LabelTypes == Spec => []TypeOK
<1>1. LabelsInv => TypeOK
  BY DEF LabelsInv
<1> QED
  BY <1>1, LabelsInvInit, LabelsInvStep, PTL DEF Spec

\* A label keeps the value last written to it, but where a client wrote back a map it had read
\* before another write.
THEOREM LabelsAreKept == Spec => []LabelsStand
<1>1. LabelsInv => LabelsStand
  BY DEF LabelsInv
<1> QED
  BY <1>1, LabelsInvInit, LabelsInvStep, PTL DEF Spec

\* Hence Cloud Run services and buckets never lose a label to the write of another.
THEOREM CarefulClientsKeepLabels ==
    Spec => [](\A a \in Asset : Writes[a.name] # "whole" => labels[a] = wrote[a])
<1>1. LabelsInv => \A a \in Asset : Writes[a.name] # "whole" => labels[a] = wrote[a]
  BY DEF LabelsInv, LabelsStand, CrossedAreWhole
<1> QED
  BY <1>1, LabelsInvInit, LabelsInvStep, PTL DEF Spec

\* An owner that is named of an asset is one it has had, never its namesake's.
THEOREM OwnersAreTrue == Spec => []ToldWasTrue
<1>1. LabelsInv => ToldWasTrue
  BY DEF LabelsInv
<1> QED
  BY <1>1, LabelsInvInit, LabelsInvStep, PTL DEF Spec
=============================================================================
