------------------------ MODULE ResourceDriversProofs ------------------------
(***************************************************************************)
(* The types of ResourceDrivers, for every choice of its constants, and    *)
(* that state entries and cloud resources keep up with each other, and an  *)
(* answered Update is an update, for every set of resources whose clients  *)
(* and drivers are well behaved.                                           *)
(***************************************************************************)
EXTENDS ResourceDrivers, TLAPS

\* What a replace carries from its delete to its create is a config of the resource.
TypeInv == TypeOK /\ \A r \in Resource : call[r].again => call[r].cfg \in Specs[r]

\* Every client answers a ProviderID of one of the forms.
LEMMA AnswersAreForms == \A t \in Types : Client[t].answers \in Form
BY DEF Types, Client, Form, CloudRunClient, GKEClient, CloudSQLClient, MemorystoreClient,
    LoadBalancerClient, ArtifactRegistryClient, APIGatewayClient, FirewallClient, IAMClient,
    GCSClient, SSLClient

\* The cloud names and slots of a resource's configs are of their types.
LEMMA NamesAreTyped ==
    ASSUME NEW r \in Resource, NEW cfg \in Specs[r]
    PROVE  /\ CloudName(cfg) \in Resource \cup {Default}
           /\ SlotFor(r, cfg) \in Slot
           /\ "name" \in DOMAIN cfg => cfg["name"] = r
           /\ \A k \in Key : k \in DOMAIN cfg => cfg[k] \in Value
           /\ cfg \in Config /\ cfg # Unwanted
BY SpecsAssumption DEF CloudName, SlotFor, Slot, Config

LEMMA InitTypes == Init => TypeInv
<1> SUFFICES ASSUME Init PROVE TypeInv  OBVIOUS
<1>1. Untouched \in Attributes  BY DEF Untouched, Attributes
<1>2. Gone \in [phase : {"gone", "creating", "ready", "updating", "deleting"},
                attrs : Attributes, next : Attributes, by : Resource \cup {Default}]
  BY <1>1 DEF Gone
<1> QED BY <1>1, <1>2, BoundsAssumption DEF Init, TypeInv, TypeOK, NoEntry, Entry, Form, Idle

Phases == {"gone", "creating", "ready", "updating", "deleting"}
Place == [phase : Phases, attrs : Attributes, next : Attributes, by : Resource \cup {Default}]
Told == {"none", "ok", "error", "exists", "undrifted"}
Calls == [at : {"idle", "create", "update", "delete"}, again : BOOLEAN,
          cfg : Config \cup {Unwanted}, told : Told]

\* An operation that settles leaves a resource, or a free place.
LEMMA SettledIsPlace == ASSUME NEW c \in Place PROVE Settled(c) \in Place
<1>1. Gone \in Place  BY DEF Gone, Place, Phases, Untouched, Attributes
<1> QED BY <1>1 DEF Settled, Place, Phases

\* What a call sends of a config leaves the attributes typed.
LEMMA SentIsTyped ==
    ASSUME NEW r \in Resource, NEW cfg \in Specs[r], NEW keys, NEW old \in Attributes
    PROVE  Sent(keys, cfg, old) \in Attributes
BY NamesAreTyped DEF Sent, Attributes

\* A call works on a place of the cloud.
LEMMA TargetIsSlot ==
    ASSUME TypeInv, NEW r \in Resource, call[r].at # "idle"
    PROVE  Target(r) \in Slot /\ Addressed(r) \in Slot
<1>1. Addressed(r) \in Slot  BY DEF TypeInv, TypeOK, Addressed, Slot
<1>2. call[r].at = "create" => SlotFor(r, call[r].cfg) \in Slot
  BY NamesAreTyped DEF TypeInv, TypeOK
<1> QED BY <1>1, <1>2 DEF Target

\* What the cloud accepts, and what it performs, leaves every place typed.
LEMMA PerformedIsTyped ==
    ASSUME TypeInv, NEW r \in Resource, call[r].at # "idle"
    PROVE  Accepted(r, call[r].cfg) \in [Slot -> Place] /\ Performed(r) \in [Slot -> Place]
<1> DEFINE t == TypeOf[r]
           cfg == call[r].cfg
<1>1. Target(r) \in Slot /\ Addressed(r) \in Slot  BY TargetIsSlot
<1>2. cloud \in [Slot -> Place] /\ call[r].at \in {"create", "update", "delete"}
  BY DEF TypeInv, TypeOK, Place, Phases
<1>3. Accepted(r, cfg) \in [Slot -> Place]
  <2>1. CASE call[r].at = "create"
    <3> DEFINE set == Sent(Client[t].sets, cfg, Untouched)
    <3>1. cfg \in Specs[r]  BY <2>1 DEF TypeInv, TypeOK
    <3>2. set \in Attributes  BY <3>1, SentIsTyped DEF Untouched, Attributes
    <3>3. [phase |-> "creating", attrs |-> set, next |-> set, by |-> r] \in Place
      BY <3>2 DEF Place, Phases
    <3>4. SlotFor(r, cfg) \in Slot  BY <3>1, NamesAreTyped
    <3> QED BY <1>2, <2>1, <3>3, <3>4 DEF Accepted
  <2>2. CASE call[r].at = "update"
    <3> DEFINE next == Sent(Client[t].updates, cfg, cloud[Addressed(r)].next)
    <3>1. cfg \in Specs[r]  BY <2>2 DEF TypeInv, TypeOK
    <3>2. next \in Attributes  BY <1>1, <1>2, <3>1, SentIsTyped DEF Place
    <3>3. Accepted(r, cfg) =
            [cloud EXCEPT ![Addressed(r)].phase = "updating", ![Addressed(r)].next = next]
      BY <1>1, <1>2, <2>2 DEF Accepted, Place
    <3> HIDE DEF next
    <3> QED BY <1>1, <1>2, <3>2, <3>3 DEF Place, Phases
  <2>3. CASE call[r].at = "delete"
    <3>1. Accepted(r, cfg) = [cloud EXCEPT ![Addressed(r)].phase = "deleting"]
      BY <2>3 DEF Accepted
    <3> QED BY <1>1, <1>2, <3>1 DEF Place, Phases
  <2> QED BY <1>2, <2>1, <2>2, <2>3
<1>4. Performed(r) \in [Slot -> Place]
  <2> DEFINE A == Accepted(r, call[r].cfg)
  <2>1. Performed(r) = A \/ Performed(r) = [A EXCEPT ![Target(r)] = Settled(A[Target(r)])]
    BY DEF Performed
  <2>2. A[Target(r)] \in Place  BY <1>1, <1>3
  <2>3. Settled(A[Target(r)]) \in Place  BY <2>2, SettledIsPlace
  <2> HIDE DEF A
  <2>4. A \in [Slot -> Place]  BY <1>3 DEF A
  <2> QED BY <1>1, <2>1, <2>3, <2>4
<1> QED BY <1>3, <1>4

(***************************************************************************)
(* TypeInv, part by part.                                                  *)
(***************************************************************************)
DesiredTyped == /\ desired \in [Resource -> Config \cup {Unwanted}]
                /\ \A r \in Resource : desired[r] \in Specs[r] \cup {Unwanted}
EntryTyped(e) == /\ e = Entry(e.form, e.cname, e.outputs)
                 /\ e.form \in Form /\ e.cname \in Resource \cup {Default}
EntriesTyped == DOMAIN state = Resource /\ \A r \in Resource : EntryTyped(state[r])
CallTyped(r, c) == /\ c \in Calls
                   /\ c.at \in {"create", "update"} \/ c.again => c.cfg \in Specs[r]
CallsTyped == DOMAIN call = Resource /\ call = [r \in Resource |-> call[r]]
              /\ \A r \in Resource : CallTyped(r, call[r])
CloudTyped == cloud \in [Slot -> Place]
CountersTyped == doubt \subseteq Resource
                 /\ edits \in 0..MaxEdits /\ faults \in 0..MaxFaults /\ drifts \in 0..MaxDrifts

LEMMA TypeParts ==
    /\ TypeInv => DesiredTyped /\ EntriesTyped /\ CallsTyped /\ CloudTyped /\ CountersTyped
    /\ DesiredTyped' /\ EntriesTyped' /\ CallsTyped' /\ CloudTyped' /\ CountersTyped' => TypeInv'
<1> USE DEF TypeInv, TypeOK, DesiredTyped, EntriesTyped, EntryTyped, CloudTyped, CountersTyped,
            CallsTyped, CallTyped, Calls, Told, Place, Phases
<1>1. TypeInv => DesiredTyped /\ EntriesTyped /\ CloudTyped /\ CountersTyped  OBVIOUS
<1>2. TypeInv => CallsTyped  OBVIOUS
<1>3. CallsTyped' => /\ call' \in [Resource -> Calls]
                     /\ \A r \in Resource :
                          /\ call'[r].at \in {"create", "update"} => call'[r].cfg \in Specs[r]
                          /\ call'[r].again => call'[r].cfg \in Specs[r]
  OBVIOUS
<1>4. DesiredTyped' /\ EntriesTyped' /\ CallsTyped' /\ CloudTyped' /\ CountersTyped' => TypeInv'
  BY <1>3
<1> QED BY <1>1, <1>2, <1>4

\* A call that ends leaves no call under way.
LEMMA EndedIsTyped ==
    ASSUME CallsTyped, NEW r \in Resource, NEW told \in Told, call' = Ended(r, told)
    PROVE  CallsTyped'
BY DEF CallsTyped, CallTyped, Calls, Ended, Idle

\* A call that starts carries a config of its resource.
LEMMA StartedIsTyped ==
    ASSUME CallsTyped, NEW r \in Resource, NEW c, CallTyped(r, c), call' = [call EXCEPT ![r] = c]
    PROVE  CallsTyped'
BY DEF CallsTyped, CallTyped

\* An entry that changes stays an entry.
LEMMA EntryIsTyped ==
    ASSUME EntriesTyped, NEW r \in Resource, NEW e, EntryTyped(e), state' = [state EXCEPT ![r] = e]
    PROVE  EntriesTyped'
BY DEF EntriesTyped

LEMMA OutputsAreTyped ==
    ASSUME EntriesTyped, NEW r \in Resource, NEW o, state' = [state EXCEPT ![r].outputs = o]
    PROVE  EntriesTyped'
BY DEF EntriesTyped, EntryTyped, Entry

LEMMA NoEntryIsTyped == EntryTyped(NoEntry)
BY DEF EntryTyped, NoEntry, Entry, Form

(***************************************************************************)
(* Every step keeps the types.                                             *)
(***************************************************************************)
LEMMA HostStepTypes ==
    ASSUME TypeInv, NEW r \in Resource,
           \/ \E cfg \in Specs[r] \cup (IF r \in Retirable THEN {Unwanted} ELSE {}) : Want(r, cfg)
           \/ Start(r) \/ Destroy(r) \/ Refresh(r) \/ Import(r)
    PROVE  TypeInv'
<1> USE TypeParts
<1>1. DesiredTyped /\ EntriesTyped /\ CallsTyped /\ CloudTyped /\ CountersTyped  OBVIOUS
<1>2. ASSUME NEW cfg \in Specs[r] \cup (IF r \in Retirable THEN {Unwanted} ELSE {}), Want(r, cfg)
      PROVE  TypeInv'
  <2>1. cfg \in Specs[r] \cup {Unwanted} /\ cfg \in Config \cup {Unwanted}
    BY DEF Config
  <2>2. DesiredTyped'  BY <1>1, <1>2, <2>1 DEF Want, DesiredTyped
  <2>3. CountersTyped'  BY <1>1, <1>2, BoundsAssumption DEF Want, CountersTyped
  <2> QED BY <1>1, <1>2, <2>2, <2>3 DEF Want, EntriesTyped, CallsTyped, CloudTyped
<1>3. CASE Start(r)
  <2> DEFINE action == PlanAction(r)
             c == [at |-> IF action = "replace" THEN "delete" ELSE action,
                   again |-> action = "replace", cfg |-> desired[r], told |-> "none"]
  <2>1. action \in {"create", "replace", "update", "none"}  BY DEF PlanAction
  <2>2. desired[r] \in Specs[r] /\ desired[r] \in Config \cup {Unwanted} /\ action # "none"
    BY <1>1, <1>3 DEF Start, DesiredTyped
  <2>3. call' = [call EXCEPT ![r] = c]  BY <1>3 DEF Start
  <2> HIDE DEF action
  <2>4. CallTyped(r, c)  BY <2>1, <2>2 DEF CallTyped, Calls, Told
  <2> HIDE DEF c
  <2>5. CallsTyped'  BY <1>1, <2>3, <2>4, StartedIsTyped
  <2> QED BY <1>1, <1>3, <2>5 DEF Start, DesiredTyped, EntriesTyped, CloudTyped, CountersTyped
<1>4. CASE Destroy(r)
  <2> DEFINE c == [at |-> "delete", again |-> FALSE, cfg |-> Unwanted, told |-> "none"]
  <2>1. CallTyped(r, c)  BY DEF CallTyped, Calls, Told
  <2>2. CallsTyped'  BY <1>1, <1>4, <2>1, StartedIsTyped DEF Destroy
  <2> QED BY <1>1, <1>4, <2>2 DEF Destroy, DesiredTyped, EntriesTyped, CloudTyped, CountersTyped
<1>5. CASE Refresh(r)
  <2>1. CallsTyped'  BY <1>1, <1>5, EndedIsTyped DEF Refresh, Told
  <2>2. EntriesTyped'
    <3>1. CASE UNCHANGED state  BY <1>1, <3>1 DEF EntriesTyped
    <3>2. CASE state' = [state EXCEPT ![r].outputs = Shown(Addressed(r), cloud)]
      BY <1>1, <3>2, OutputsAreTyped
    <3> QED BY <1>5, <3>1, <3>2 DEF Refresh
  <2>3. CountersTyped'  BY <1>1, <1>5 DEF Refresh, CountersTyped
  <2> QED BY <1>1, <1>5, <2>1, <2>2, <2>3 DEF Refresh, DesiredTyped, CloudTyped
<1>6. CASE Import(r)
  <2>1. CallsTyped'  BY <1>1, <1>6, EndedIsTyped DEF Import, Told
  <2>2. PICK s, o : s = SlotFor(r, desired[r]) /\ state' = [state EXCEPT ![r] = Entry("name", s[2], o)]
    BY <1>6 DEF Import
  <2>3. s[2] \in Resource \cup {Default}
    BY <1>1, <1>6, <2>2, NamesAreTyped DEF Import, SlotFor, DesiredTyped
  <2>4. EntryTyped(Entry("name", s[2], o))  BY <2>3 DEF EntryTyped, Entry, Form
  <2>5. EntriesTyped'  BY <1>1, <2>2, <2>4, EntryIsTyped
  <2>6. CountersTyped'  BY <1>1, <1>6 DEF Import, CountersTyped
  <2> QED BY <1>1, <1>6, <2>1, <2>5, <2>6 DEF Import, DesiredTyped, CloudTyped
<1> QED BY <1>2, <1>3, <1>4, <1>5, <1>6

LEMMA HandlerTypes ==
    ASSUME TypeInv, NEW r \in Resource,
           CreateCall(r) \/ UpdateCall(r) \/ DeleteCall(r) \/ Lost(r)
    PROVE  TypeInv'
<1> USE TypeParts
<1>1. DesiredTyped /\ EntriesTyped /\ CallsTyped /\ CloudTyped /\ CountersTyped  OBVIOUS
<1>2. call[r].at # "idle" => Accepted(r, call[r].cfg) \in [Slot -> Place] /\ Performed(r) \in [Slot -> Place]
  BY PerformedIsTyped
<1>3. \A told \in Told : call' = Ended(r, told) => CallsTyped'  BY <1>1, EndedIsTyped
<1>4. CASE CreateCall(r)
  <2> DEFINE cfg == call[r].cfg
  <2>1. cfg \in Specs[r] /\ call[r].at # "idle"
    BY <1>1, <1>4 DEF CreateCall, CallsTyped, CallTyped
  <2>2. CloudTyped'  BY <1>1, <1>2, <1>4, <2>1 DEF CreateCall, CloudTyped
  <2>3. CallsTyped'  BY <1>3, <1>4 DEF CreateCall, Told
  <2>4. CountersTyped'  BY <1>1, <1>4 DEF CreateCall, CountersTyped
  <2>5. EntriesTyped'
    <3>1. CASE UNCHANGED state  BY <1>1, <3>1 DEF EntriesTyped
    <3>2. ASSUME NEW f \in Form, NEW n \in Resource \cup {Default}, NEW o,
                 state' = [state EXCEPT ![r] = Entry(f, n, o)]
          PROVE  EntriesTyped'
      <4>1. EntryTyped(Entry(f, n, o))  BY DEF EntryTyped, Entry
      <4> QED BY <1>1, <3>2, <4>1, EntryIsTyped
    <3>3. Client[TypeOf[r]].answers \in Form  BY AnswersAreForms, SpecsAssumption
    <3>4. /\ CloudName(cfg) \in Resource \cup {Default}
          /\ (IF "name" \in DOMAIN cfg THEN cfg["name"] ELSE r) \in Resource \cup {Default}
          /\ "name" \in Form
      BY <2>1, NamesAreTyped DEF Form
    <3> QED BY <1>4, <3>1, <3>2, <3>3, <3>4 DEF CreateCall
  <2> QED BY <1>1, <1>4, <2>2, <2>3, <2>4, <2>5 DEF CreateCall, DesiredTyped
<1>5. CASE UpdateCall(r)
  <2>1. CloudTyped'  BY <1>1, <1>2, <1>5 DEF UpdateCall, CloudTyped
  <2>2. CallsTyped'  BY <1>3, <1>5 DEF UpdateCall, Told
  <2>3. EntriesTyped'
    <3>1. CASE UNCHANGED state  BY <1>1, <3>1 DEF EntriesTyped
    <3>2. CASE state' = [state EXCEPT ![r].outputs = Shown(Addressed(r), cloud')]
      BY <1>1, <3>2, OutputsAreTyped
    <3> QED BY <1>5, <3>1, <3>2 DEF UpdateCall
  <2> QED BY <1>1, <1>5, <2>1, <2>2, <2>3 DEF UpdateCall, DesiredTyped, CountersTyped
<1>6. CASE DeleteCall(r)
  <2>1. CloudTyped'  BY <1>1, <1>2, <1>6 DEF DeleteCall, CloudTyped
  <2>2. CallsTyped'
    <3>1. ASSUME call[r].again, call' = [call EXCEPT ![r].at = "create", ![r].again = FALSE]
          PROVE  CallsTyped'
      BY <1>1, <3>1 DEF CallsTyped, CallTyped, Calls
    <3> QED BY <1>3, <1>6, <3>1 DEF DeleteCall, Told
  <2>3. EntriesTyped'
    <3>1. CASE UNCHANGED state  BY <1>1, <3>1 DEF EntriesTyped
    <3>2. CASE state' = [state EXCEPT ![r] = NoEntry]
      BY <1>1, <3>2, NoEntryIsTyped, EntryIsTyped
    <3> QED BY <1>6, <3>1, <3>2 DEF DeleteCall
  <2>4. CountersTyped'  BY <1>1, <1>6 DEF DeleteCall, CountersTyped
  <2> QED BY <1>1, <1>6, <2>1, <2>2, <2>3, <2>4 DEF DeleteCall, DesiredTyped
<1>7. CASE Lost(r)
  <2>1. call[r].at # "idle"  BY <1>7, LostAssumption DEF Lost
  <2>2. CloudTyped'  BY <1>1, <1>2, <1>7, <2>1 DEF Lost, CloudTyped
  <2>3. CallsTyped'  BY <1>3, <1>7 DEF Lost, Told
  <2>4. CountersTyped'  BY <1>1, <1>7, BoundsAssumption DEF Lost, CountersTyped
  <2> QED BY <1>1, <1>7, <2>2, <2>3, <2>4 DEF Lost, DesiredTyped, EntriesTyped
<1> QED BY <1>4, <1>5, <1>6, <1>7

LEMMA CloudStepTypes ==
    ASSUME TypeInv, NEW s \in Slot,
           \/ Settle(s)
           \/ \E k \in Key \cap Client[s[1]].updates, v \in Value : Drift(s, k, v)
    PROVE  TypeInv'
<1> USE TypeParts
<1>1. DesiredTyped /\ EntriesTyped /\ CallsTyped /\ CloudTyped /\ CountersTyped  OBVIOUS
<1>2. CASE Settle(s)
  <2>1. Settled(cloud[s]) \in Place  BY <1>1, SettledIsPlace DEF CloudTyped
  <2>2. cloud' = [cloud EXCEPT ![s] = Settled(cloud[s])]  BY <1>2 DEF Settle
  <2>3. CloudTyped'  BY <1>1, <2>1, <2>2 DEF CloudTyped
  <2> QED BY <1>1, <1>2, <2>3 DEF Settle, DesiredTyped, EntriesTyped, CallsTyped, CountersTyped
<1>3. ASSUME NEW k \in Key, NEW v \in Value, Drift(s, k, v) PROVE TypeInv'
  <2> DEFINE c == cloud[s]
             d == [c EXCEPT !.attrs = [c.attrs EXCEPT ![k] = v], !.next = [c.next EXCEPT ![k] = v]]
  <2>a. c \in Place  BY <1>1 DEF CloudTyped
  <2>b. c.attrs \in Attributes /\ c.next \in Attributes  BY <2>a DEF Place
  <2>c. [c.attrs EXCEPT ![k] = v] \in Attributes /\ [c.next EXCEPT ![k] = v] \in Attributes
    BY <2>b DEF Attributes
  <2>d. d \in Place  BY <2>a, <2>c DEF Place
  <2>e. cloud' = [cloud EXCEPT ![s] = d]  BY <1>1, <1>3, <2>a DEF Drift, CloudTyped, Place
  <2> HIDE DEF d
  <2>1. CloudTyped'  BY <1>1, <2>d, <2>e DEF CloudTyped
  <2>2. CountersTyped'  BY <1>1, <1>3, BoundsAssumption DEF Drift, CountersTyped
  <2> QED BY <1>1, <1>3, <2>1, <2>2 DEF Drift, DesiredTyped, EntriesTyped, CallsTyped
<1> QED BY <1>2, <1>3

\* The type invariant holds of every instance: what the host keeps, the call under way and the
\* cloud stay of their types, and a Create or Update always carries a config of its resource.
THEOREM TypesStand == Spec => []TypeOK
<1>1. Init => TypeInv  BY InitTypes
<1>2. TypeInv /\ [Next]_vars => TypeInv'
  <2>1. TypeInv /\ UNCHANGED vars => TypeInv'
    BY DEF TypeInv, TypeOK, vars
  <2>2. TypeInv /\ Next => TypeInv'
    BY HostStepTypes, HandlerTypes, CloudStepTypes DEF Next
  <2> QED BY <2>1, <2>2
<1>3. TypeInv => TypeOK  BY DEF TypeInv
<1> QED BY <1>1, <1>2, <1>3, PTL DEF Spec

-----------------------------------------------------------------------------
(* State entries and cloud resources keep up with each other *)

\* The client answers the name its other calls take and waits; the driver reports errors.
WellBehaved ==
    \A r \in Resource : /\ Client[TypeOf[r]].answers = "name" /\ Client[TypeOf[r]].waits
                        /\ ~Driver[TypeOf[r]].swallows
\* Where answers of Delete are lost, two resources never share a name in the cloud.
Separate == \/ "delete" \notin LostSteps
            \/ \A r \in Resource : \E cfg \in Specs[r] : "name" \in DOMAIN cfg

LEMMA HomeOfConfig ==
    ASSUME NEW r \in Resource, NEW cfg \in Specs[r]
    PROVE  SlotFor(r, cfg) = Home(r) /\ CloudName(cfg) = Home(r)[2]
BY SpecsAssumption DEF SlotFor, Home, CloudName

LEMMA HomeIsSlot == ASSUME NEW r \in Resource PROVE Home(r) \in Slot
BY DEF Home, Slot

\* A resource with a name of its own shares its place with no other.
LEMMA NamedHomeIsOwn ==
    ASSUME NEW r \in Resource, NEW q \in Resource, Home(q) = Home(r),
           \E cfg \in Specs[r] : "name" \in DOMAIN cfg
    PROVE  q = r
BY SpecsAssumption DEF Home

\* What stands where an entry leads was made for it.
LEMMA OwnPlace ==
    ASSUME KeptInv, Separate, NEW r \in Resource, HasEntry(r), cloud[Home(r)].phase # "gone"
    PROVE  cloud[Home(r)].by = r
<1>1. Home(r) \in Slot  BY HomeIsSlot
<1>2. cloud[Home(r)].by \in Resource /\ Home(cloud[Home(r)].by) = Home(r)
  BY <1>1 DEF KeptInv, PlacesOwned
<1>3. CASE "delete" \notin LostSteps
  <2>1. r \notin doubt  BY <1>3 DEF KeptInv, DoubtsWithoutEntry
  <2> QED BY <2>1 DEF KeptInv, EntriesBacked
<1>4. CASE \E cfg \in Specs[r] : "name" \in DOMAIN cfg
  BY <1>2, <1>4, NamedHomeIsOwn
<1> QED BY <1>3, <1>4 DEF Separate

(***************************************************************************)
(* A step on r touches nothing but r's entry, call and doubt, and its      *)
(* place; it keeps the invariant when it keeps what that says of them.     *)
(***************************************************************************)
Elsewhere(r) ==
    /\ \A q \in Resource \ {r} : /\ state'[q] = state[q] /\ call'[q] = call[q]
                                 /\ q \in doubt' <=> q \in doubt
    /\ \A s \in Slot \ {Home(r)} : cloud'[s] = cloud[s]
EntryHere(r) ==
    /\ HasEntry(r) => state[r].form = "name" /\ Addressed(r) = Home(r)
    /\ (HasEntry(r) /\ r \notin doubt) => cloud[Home(r)].phase \in Standing /\ cloud[Home(r)].by = r
    /\ call[r].at = "create" => ~HasEntry(r)
    /\ call[r].at \in {"update", "delete"} => HasEntry(r)
    /\ ("delete" \notin LostSteps /\ HasEntry(r)) => r \notin doubt
PlaceHere(r) ==
    LET c == cloud[Home(r)]
    IN  /\ c.phase # "gone" => c.by \in Resource /\ Home(c.by) = Home(r)
        /\ c.phase \in Standing => c.by \in doubt \/ HasEntry(c.by)
        /\ c.phase = "deleting" => c.by \in doubt /\ HasEntry(c.by)
        /\ \A q \in Resource \ {r} : (Home(q) = Home(r) /\ HasEntry(q) /\ q \notin doubt) =>
              c.phase \in Standing /\ c.by = q

LEMMA Local ==
    ASSUME KeptInv, NEW r \in Resource, Elsewhere(r), EntryHere(r)', PlaceHere(r)'
    PROVE  KeptInv'
<1>1. \A q \in Resource : Home(q) \in Slot  BY HomeIsSlot
<1>2. \A q \in Resource \ {r} : /\ HasEntry(q)' <=> HasEntry(q)
                                /\ Addressed(q)' = Addressed(q)
  BY DEF Elsewhere, HasEntry, Addressed
<1>3. \A s \in Slot \ {Home(r)} : cloud[s].phase # "gone" => cloud[s].by # r
  BY DEF KeptInv, PlacesOwned
<1>4. EntriesLead'  BY <1>2 DEF KeptInv, EntriesLead, Elsewhere, EntryHere
<1>5. PlacesOwned'  BY DEF KeptInv, PlacesOwned, Elsewhere, PlaceHere
<1>6. EntriesBacked'
  BY <1>1, <1>2 DEF KeptInv, EntriesBacked, Elsewhere, EntryHere, PlaceHere
<1>7. PlacesKept'
  BY <1>2, <1>3 DEF KeptInv, PlacesKept, PlacesOwned, Elsewhere, PlaceHere, Standing
<1>8. RemovalsDoubted'
  BY <1>2, <1>3 DEF KeptInv, RemovalsDoubted, PlacesOwned, Elsewhere, PlaceHere
<1>9. CallsFit'  BY <1>2 DEF KeptInv, CallsFit, Elsewhere, EntryHere
<1>10. DoubtsWithoutEntry'  BY <1>2 DEF KeptInv, DoubtsWithoutEntry, Elsewhere, EntryHere
<1> QED BY <1>4, <1>5, <1>6, <1>7, <1>8, <1>9, <1>10 DEF KeptInv

\* What the invariant says of r and its place.
LEMMA Here == ASSUME KeptInv, NEW r \in Resource PROVE EntryHere(r) /\ PlaceHere(r)
<1>1. Home(r) \in Slot  BY HomeIsSlot
<1>2. EntryHere(r)
  BY DEF KeptInv, EntryHere, EntriesLead, EntriesBacked, CallsFit, DoubtsWithoutEntry
<1>3. PlaceHere(r)
  BY <1>1 DEF KeptInv, PlaceHere, PlacesOwned, PlacesKept, RemovalsDoubted, EntriesBacked
<1> QED BY <1>2, <1>3

\* New outputs leave an entry where it leads.
LEMMA OutputsKeepName ==
    ASSUME TypeInv, NEW r \in Resource, NEW o, state' = [state EXCEPT ![r].outputs = o]
    PROVE  /\ \A q \in Resource \ {r} : state'[q] = state[q]
           /\ state'[r].form = state[r].form /\ state'[r].cname = state[r].cname
           /\ HasEntry(r)' <=> HasEntry(r)
           /\ Addressed(r)' = Addressed(r)
<1>1. DOMAIN state = Resource /\ state[r] = Entry(state[r].form, state[r].cname, state[r].outputs)
  BY DEF TypeInv, TypeOK
<1> QED BY <1>1 DEF Entry, HasEntry, Addressed

LEMMA EndedElsewhere ==
    ASSUME TypeInv, NEW r \in Resource, NEW told, call' = Ended(r, told)
    PROVE  call'[r].at = "idle" /\ \A q \in Resource \ {r} : call'[q] = call[q]
BY DEF TypeInv, TypeOK, Ended, Idle

(***************************************************************************)
(* The host's steps.                                                       *)
(***************************************************************************)
LEMMA HostStepKeeps ==
    ASSUME TypeInv, KeptInv, Separate, NEW r \in Resource,
           \/ \E cfg \in Specs[r] \cup (IF r \in Retirable THEN {Unwanted} ELSE {}) : Want(r, cfg)
           \/ Start(r) \/ Destroy(r) \/ Refresh(r) \/ Import(r)
    PROVE  KeptInv'
<1>1. EntryHere(r) /\ PlaceHere(r)  BY Here
<1>2. Home(r) \in Slot  BY HomeIsSlot
<1>3. ASSUME NEW cfg, Want(r, cfg) PROVE KeptInv'
  BY <1>3 DEF Want, KeptInv, EntriesLead, PlacesOwned, EntriesBacked, PlacesKept,
     RemovalsDoubted, CallsFit, DoubtsWithoutEntry, HasEntry, Addressed
<1>4. ASSUME UNCHANGED <<state, cloud, doubt>>, \A q \in Resource \ {r} : call'[q] = call[q],
             /\ call'[r].at = "create" => ~HasEntry(r)
             /\ call'[r].at \in {"update", "delete"} => HasEntry(r)
      PROVE  KeptInv'
  <2>1. Elsewhere(r)  BY <1>4 DEF Elsewhere
  <2>2. EntryHere(r)'  BY <1>1, <1>4 DEF EntryHere, HasEntry, Addressed
  <2>3. PlaceHere(r)'  BY <1>1, <1>4 DEF PlaceHere, HasEntry
  <2> QED BY <2>1, <2>2, <2>3, Local
<1>5. CASE Start(r)
  <2> DEFINE action == PlanAction(r)
  <2>1. /\ action \in {"create", "replace", "update", "none"}
        /\ action = "create" <=> ~HasEntry(r)
    BY DEF PlanAction
  <2>2. /\ call'[r].at = IF action = "replace" THEN "delete" ELSE action
        /\ action # "none"
        /\ \A q \in Resource \ {r} : call'[q] = call[q]
    BY <1>5 DEF Start, TypeInv, TypeOK
  <2> HIDE DEF action
  <2> QED BY <1>4, <1>5, <2>1, <2>2 DEF Start
<1>6. CASE Destroy(r)
  <2>1. /\ call'[r].at = "delete" /\ HasEntry(r)
        /\ \A q \in Resource \ {r} : call'[q] = call[q]
    BY <1>6 DEF Destroy, TypeInv, TypeOK
  <2> QED BY <1>4, <1>6, <2>1 DEF Destroy
<1>7. CASE Refresh(r)
  <2>1. call'[r].at = "idle" /\ \A q \in Resource \ {r} : call'[q] = call[q]
    BY <1>7, EndedElsewhere DEF Refresh
  <2>2. cloud' = cloud /\ HasEntry(r)  BY <1>7 DEF Refresh
  <2>3. /\ \A q \in Resource \ {r} : state'[q] = state[q]
        /\ state'[r].form = state[r].form
        /\ HasEntry(r)' <=> HasEntry(r)
        /\ Addressed(r)' = Addressed(r)
    <3>1. CASE UNCHANGED state  BY <3>1 DEF HasEntry, Addressed
    <3>2. CASE state' = [state EXCEPT ![r].outputs = Shown(Addressed(r), cloud)]
      BY <3>2, OutputsKeepName
    <3> QED BY <1>7, <3>1, <3>2 DEF Refresh
  <2>4. doubt' = doubt \/ (doubt' = doubt \ {r} /\ cloud[Home(r)].phase = "ready")
    BY <1>1, <1>7, <2>2 DEF Refresh, EntryHere
  <2>5. doubt' # doubt => cloud[Home(r)].by = r /\ cloud[Home(r)].phase \in Standing
    BY <2>2, <2>4, OwnPlace DEF Standing
  <2>6. Elsewhere(r)  BY <2>1, <2>2, <2>3, <2>4 DEF Elsewhere
  <2>7. EntryHere(r)'  BY <1>1, <2>1, <2>2, <2>3, <2>4, <2>5 DEF EntryHere
  <2>8. PlaceHere(r)'
    <3>1. \A q \in Resource : HasEntry(q)' <=> HasEntry(q)  BY <2>3 DEF HasEntry
    <3> QED BY <1>1, <2>2, <2>4, <2>5, <3>1 DEF PlaceHere, Standing
  <2> QED BY <2>6, <2>7, <2>8, Local
<1>8. CASE Import(r)
  <2>1. call'[r].at = "idle" /\ \A q \in Resource \ {r} : call'[q] = call[q]
    BY <1>8, EndedElsewhere DEF Import
  <2>2. desired[r] \in Specs[r] /\ "name" \in DOMAIN desired[r] /\ ~HasEntry(r)
    BY <1>8 DEF Import, TypeInv, TypeOK
  <2>3. SlotFor(r, desired[r]) = Home(r)  BY <2>2, HomeOfConfig
  <2>4. PICK o : state' = [state EXCEPT ![r] = Entry("name", Home(r)[2], o)]
    BY <1>8, <2>3 DEF Import
  <2>5. cloud' = cloud /\ doubt' = doubt \ {r} /\ cloud[Home(r)].phase # "gone"
    BY <1>8, <2>3 DEF Import
  <2>6. cloud[Home(r)].by = r  BY <1>1, <2>2, <2>5, NamedHomeIsOwn DEF PlaceHere
  <2>7. cloud[Home(r)].phase \in Standing
    BY <1>1, <1>2, <2>2, <2>5, <2>6 DEF PlaceHere, TypeInv, TypeOK, Standing
  <2>8. /\ state'[r] = Entry("name", Home(r)[2], o) /\ \A q \in Resource \ {r} : state'[q] = state[q]
        /\ HasEntry(r)' /\ Addressed(r)' = Home(r) /\ state'[r].form = "name"
    BY <2>4 DEF TypeInv, TypeOK, Entry, HasEntry, Addressed, Home
  <2>9. Elsewhere(r)  BY <2>1, <2>5, <2>8 DEF Elsewhere
  <2>10. EntryHere(r)'  BY <2>1, <2>5, <2>6, <2>7, <2>8 DEF EntryHere
  <2>11. PlaceHere(r)'
    BY <1>1, <2>5, <2>6, <2>7, <2>8 DEF PlaceHere, Standing, HasEntry
  <2> QED BY <2>9, <2>10, <2>11, Local
<1> QED BY <1>3, <1>5, <1>6, <1>7, <1>8

(***************************************************************************)
(* The calls.                                                              *)
(***************************************************************************)
\* A call works on the place of its resource.
LEMMA TargetIsHome ==
    ASSUME TypeInv, KeptInv, NEW r \in Resource, call[r].at # "idle"
    PROVE  /\ Target(r) = Home(r)
           /\ call[r].at = "create" => /\ SlotFor(r, call[r].cfg) = Home(r)
                                       /\ CloudName(call[r].cfg) = Home(r)[2]
           /\ call[r].at # "create" => Addressed(r) = Home(r)
<1>1. call[r].at \in {"create", "update", "delete"}
      /\ (call[r].at = "create" => call[r].cfg \in Specs[r])
  BY DEF TypeInv, TypeOK
<1>2. call[r].at # "create" => Addressed(r) = Home(r)
  BY <1>1 DEF KeptInv, CallsFit, EntriesLead
<1>3. call[r].at = "create" => /\ SlotFor(r, call[r].cfg) = Home(r)
                               /\ CloudName(call[r].cfg) = Home(r)[2]
  BY <1>1, HomeOfConfig
<1> QED BY <1>2, <1>3 DEF Target

\* What the cloud does with a call: as long as it goes on, and when its end is waited for.
LEMMA Effects ==
    ASSUME TypeInv, KeptInv, NEW r \in Resource, call[r].at # "idle"
    PROVE  LET A == Accepted(r, call[r].cfg)
               P == Performed(r)
           IN  /\ \A s \in Slot \ {Home(r)} : A[s] = cloud[s] /\ P[s] = cloud[s]
               /\ call[r].at = "create" => A[Home(r)].phase = "creating" /\ A[Home(r)].by = r
               /\ call[r].at = "update" =>
                     A[Home(r)].phase = "updating" /\ A[Home(r)].by = cloud[Home(r)].by
               /\ call[r].at = "delete" =>
                     A[Home(r)].phase = "deleting" /\ A[Home(r)].by = cloud[Home(r)].by
               /\ Client[TypeOf[r]].waits =>
                     IF call[r].at = "delete" THEN P[Home(r)].phase = "gone"
                     ELSE P[Home(r)].phase = "ready" /\ P[Home(r)].by = A[Home(r)].by
<1> DEFINE A == Accepted(r, call[r].cfg)
           P == Performed(r)
           H == Home(r)
<1>1. H \in Slot /\ cloud \in [Slot -> Place] /\ call[r].at \in {"create", "update", "delete"}
  BY HomeIsSlot DEF TypeInv, TypeOK, Place, Phases
<1>2. Target(r) = H /\ (call[r].at = "create" => SlotFor(r, call[r].cfg) = H)
      /\ (call[r].at # "create" => Addressed(r) = H)
  BY TargetIsHome
<1> HIDE DEF H
<1>3. /\ \A s \in Slot \ {H} : A[s] = cloud[s]
      /\ call[r].at = "create" => A[H].phase = "creating" /\ A[H].by = r
      /\ call[r].at = "update" => A[H].phase = "updating" /\ A[H].by = cloud[H].by
      /\ call[r].at = "delete" => A[H].phase = "deleting" /\ A[H].by = cloud[H].by
  <2>1. CASE call[r].at = "create"  BY <1>1, <1>2, <2>1 DEF Accepted
  <2>2. CASE call[r].at = "update"  BY <1>1, <1>2, <2>2 DEF Accepted, Place
  <2>3. CASE call[r].at = "delete"  BY <1>1, <1>2, <2>3 DEF Accepted, Place
  <2> QED BY <1>1, <2>1, <2>2, <2>3
<1>4. A \in [Slot -> Place]  BY PerformedIsTyped
<1>5. P = IF Client[TypeOf[r]].waits THEN [A EXCEPT ![H] = Settled(A[H])] ELSE A
  BY <1>2 DEF Performed
<1> HIDE DEF A, P
<1>6. /\ \A s \in Slot \ {H} : P[s] = cloud[s]
      /\ Client[TypeOf[r]].waits => P[H] = Settled(A[H])
  BY <1>1, <1>3, <1>4, <1>5
<1>7. A[H].phase = "deleting" => Settled(A[H]).phase = "gone"  BY DEF Settled, Gone
<1>8. A[H].phase # "deleting" => Settled(A[H]).phase = "ready" /\ Settled(A[H]).by = A[H].by
  BY <1>1, <1>4 DEF Settled, Place
<1> QED BY <1>1, <1>3, <1>6, <1>7, <1>8 DEF A, P, H

LEMMA CreateKeeps ==
    ASSUME TypeInv, KeptInv, WellBehaved, Separate, NEW r \in Resource, CreateCall(r)
    PROVE  KeptInv'
<1>1. EntryHere(r) /\ PlaceHere(r) /\ Home(r) \in Slot  BY Here, HomeIsSlot
<1>2. call[r].at = "create" /\ ~HasEntry(r)  BY <1>1 DEF CreateCall, EntryHere
<1>3. call'[r].at = "idle" /\ \A q \in Resource \ {r} : call'[q] = call[q]
  BY EndedElsewhere DEF CreateCall
<1>4. CASE Accepts(r)
  <2>1. cloud[Home(r)].phase = "gone"  BY <1>2, <1>4, TargetIsHome DEF Accepts
  <2>2. cloud' = Performed(r) /\ doubt' = doubt \ {r}  BY <1>4 DEF CreateCall
  <2>3. /\ cloud'[Home(r)].phase = "ready" /\ cloud'[Home(r)].by = r
        /\ \A s \in Slot \ {Home(r)} : cloud'[s] = cloud[s]
    BY <1>2, <2>2, Effects DEF WellBehaved
  <2>4. PICK o : state' = [state EXCEPT ![r] = Entry("name", Home(r)[2], o)]
    BY <1>2, <1>4, TargetIsHome DEF CreateCall, WellBehaved
  <2>5. /\ \A q \in Resource \ {r} : state'[q] = state[q]
        /\ HasEntry(r)' /\ Addressed(r)' = Home(r) /\ state'[r].form = "name"
    BY <2>4 DEF TypeInv, TypeOK, Entry, HasEntry, Addressed, Home
  <2>6. Elsewhere(r)  BY <1>3, <2>2, <2>3, <2>5 DEF Elsewhere
  <2>7. EntryHere(r)'  BY <1>3, <2>2, <2>3, <2>5 DEF EntryHere, Standing
  <2>8. PlaceHere(r)'
    BY <1>1, <2>1, <2>2, <2>3, <2>5 DEF PlaceHere, Standing, HasEntry
  <2> QED BY <2>6, <2>7, <2>8, Local
<1>5. CASE ~Accepts(r)
  <2>1. UNCHANGED <<state, cloud, doubt>>  BY <1>5 DEF CreateCall, WellBehaved
  <2>2. Elsewhere(r)  BY <1>3, <2>1 DEF Elsewhere
  <2>3. EntryHere(r)'  BY <1>1, <1>3, <2>1 DEF EntryHere, HasEntry, Addressed
  <2>4. PlaceHere(r)'  BY <1>1, <2>1 DEF PlaceHere, HasEntry
  <2> QED BY <2>2, <2>3, <2>4, Local
<1> QED BY <1>4, <1>5

LEMMA UpdateKeeps ==
    ASSUME TypeInv, KeptInv, WellBehaved, Separate, NEW r \in Resource, UpdateCall(r)
    PROVE  KeptInv'
<1>1. EntryHere(r) /\ PlaceHere(r) /\ Home(r) \in Slot  BY Here, HomeIsSlot
<1>2. call[r].at = "update" /\ HasEntry(r)  BY <1>1 DEF UpdateCall, EntryHere
<1>3. call'[r].at = "idle" /\ \A q \in Resource \ {r} : call'[q] = call[q]
  BY EndedElsewhere DEF UpdateCall
<1>4. /\ \A q \in Resource \ {r} : state'[q] = state[q]
      /\ state'[r].form = state[r].form
      /\ HasEntry(r)' <=> HasEntry(r)
      /\ Addressed(r)' = Addressed(r)
  <2>1. CASE UNCHANGED state  BY <2>1 DEF HasEntry, Addressed
  <2>2. CASE state' = [state EXCEPT ![r].outputs = Shown(Addressed(r), cloud')]
    BY <2>2, OutputsKeepName
  <2> QED BY <2>1, <2>2 DEF UpdateCall
<1>5. doubt' = doubt  BY DEF UpdateCall
<1>6. /\ \A s \in Slot \ {Home(r)} : cloud'[s] = cloud[s]
      /\ \/ cloud'[Home(r)] = cloud[Home(r)]
         \/ /\ cloud[Home(r)].phase = "ready" /\ cloud'[Home(r)].phase = "ready"
            /\ cloud'[Home(r)].by = cloud[Home(r)].by
  <2>1. CASE Accepts(r)
    <3>1. cloud[Home(r)].phase = "ready" /\ cloud' = Performed(r)
      BY <1>2, <2>1, TargetIsHome DEF Accepts, UpdateCall
    <3> QED BY <1>2, <3>1, Effects DEF WellBehaved
  <2>2. CASE ~Accepts(r)  BY <2>2 DEF UpdateCall
  <2> QED BY <2>1, <2>2
<1>7. Elsewhere(r)  BY <1>3, <1>4, <1>5, <1>6 DEF Elsewhere
<1>8. EntryHere(r)'  BY <1>1, <1>3, <1>4, <1>5, <1>6 DEF EntryHere
<1>9. PlaceHere(r)'
  <2>1. \A q \in Resource : HasEntry(q)' <=> HasEntry(q)  BY <1>4 DEF HasEntry
  <2> QED BY <1>1, <1>5, <1>6, <2>1 DEF PlaceHere, Standing
<1> QED BY <1>7, <1>8, <1>9, Local

LEMMA DeleteKeeps ==
    ASSUME TypeInv, KeptInv, WellBehaved, Separate, NEW r \in Resource, DeleteCall(r)
    PROVE  KeptInv'
<1>1. EntryHere(r) /\ PlaceHere(r) /\ Home(r) \in Slot  BY Here, HomeIsSlot
<1>2. call[r].at = "delete" /\ HasEntry(r)  BY <1>1 DEF DeleteCall, EntryHere
<1>3. CASE Accepts(r)
  <2>1. cloud[Home(r)].phase = "ready"  BY <1>2, <1>3, TargetIsHome DEF Accepts
  <2>2. cloud[Home(r)].by = r  BY <1>2, <2>1, OwnPlace
  <2>3. cloud' = Performed(r) /\ doubt' = doubt \ {r} /\ state' = [state EXCEPT ![r] = NoEntry]
    BY <1>3 DEF DeleteCall
  <2>4. /\ cloud'[Home(r)].phase = "gone"
        /\ \A s \in Slot \ {Home(r)} : cloud'[s] = cloud[s]
    BY <1>2, <2>3, Effects DEF WellBehaved
  <2>5. ~HasEntry(r)' /\ \A q \in Resource \ {r} : state'[q] = state[q]
    BY <2>3 DEF TypeInv, TypeOK, NoEntry, HasEntry
  <2>6. call'[r].at \in {"idle", "create"} /\ \A q \in Resource \ {r} : call'[q] = call[q]
    <3>1. CASE call' = [call EXCEPT ![r].at = "create", ![r].again = FALSE]
      BY <3>1 DEF TypeInv, TypeOK
    <3>2. CASE call' = Ended(r, "ok")  BY <3>2, EndedElsewhere
    <3> QED BY <1>3, <3>1, <3>2 DEF DeleteCall
  <2>7. Elsewhere(r)  BY <2>3, <2>4, <2>5, <2>6 DEF Elsewhere
  <2>8. EntryHere(r)'  BY <2>5, <2>6 DEF EntryHere
  <2>9. PlaceHere(r)'
    <3>1. \A q \in Resource \ {r} : (Home(q) = Home(r) /\ HasEntry(q)) => q \in doubt
      BY <1>1, <2>2 DEF PlaceHere
    <3>2. \A q \in Resource \ {r} : (HasEntry(q)' <=> HasEntry(q)) /\ (q \in doubt' <=> q \in doubt)
      BY <2>3, <2>5 DEF HasEntry
    <3> QED BY <2>4, <3>1, <3>2 DEF PlaceHere, Standing
  <2> QED BY <2>7, <2>8, <2>9, Local
<1>4. CASE ~Accepts(r)
  <2>1. UNCHANGED <<state, cloud, doubt>> /\ call' = Ended(r, "error")
    BY <1>4 DEF DeleteCall, WellBehaved
  <2>2. call'[r].at = "idle" /\ \A q \in Resource \ {r} : call'[q] = call[q]
    BY <2>1, EndedElsewhere
  <2>3. Elsewhere(r)  BY <2>1, <2>2 DEF Elsewhere
  <2>4. EntryHere(r)'  BY <1>1, <2>1, <2>2 DEF EntryHere, HasEntry, Addressed
  <2>5. PlaceHere(r)'  BY <1>1, <2>1 DEF PlaceHere, HasEntry
  <2> QED BY <2>3, <2>4, <2>5, Local
<1> QED BY <1>3, <1>4

LEMMA LostKeeps ==
    ASSUME TypeInv, KeptInv, WellBehaved, Separate, NEW r \in Resource, Lost(r)
    PROVE  KeptInv'
<1>1. EntryHere(r) /\ PlaceHere(r) /\ Home(r) \in Slot  BY Here, HomeIsSlot
<1>2. call[r].at \in {"create", "update", "delete"} /\ call[r].at \in LostSteps
  BY LostAssumption DEF Lost
<1>3. call'[r].at = "idle" /\ \A q \in Resource \ {r} : call'[q] = call[q]
  BY EndedElsewhere DEF Lost
<1>4. /\ state' = state /\ \A q \in Resource : HasEntry(q)' <=> HasEntry(q)
      /\ Addressed(r)' = Addressed(r)
  BY DEF Lost, HasEntry, Addressed
<1>5. doubt' = IF call[r].at = "update" THEN doubt ELSE doubt \cup {r}  BY DEF Lost
<1>6. /\ call[r].at = "create" => ~HasEntry(r)
      /\ call[r].at # "create" => HasEntry(r)
  BY <1>1, <1>2 DEF EntryHere
<1>7. EntryHere(r)' /\ PlaceHere(r)' /\ \A s \in Slot \ {Home(r)} : cloud'[s] = cloud[s]
  <2>1. CASE cloud' = cloud
    <3>1. EntryHere(r)'  BY <1>1, <1>2, <1>3, <1>4, <1>5, <1>6, <2>1 DEF EntryHere
    <3>2. doubt \subseteq doubt' /\ \A q \in Resource \ {r} : q \in doubt' <=> q \in doubt
      BY <1>5
    <3>3. PlaceHere(r)'
      <4>1. cloud[Home(r)].phase # "gone" => cloud[Home(r)].by \in Resource
        BY <1>1 DEF PlaceHere
      <4> QED BY <1>1, <1>4, <2>1, <3>2, <4>1 DEF PlaceHere, Standing
    <3> QED BY <2>1, <3>1, <3>3
  <2>2. CASE Accepts(r) /\ cloud' = Accepted(r, call[r].cfg)
    <3>1. \A s \in Slot \ {Home(r)} : cloud'[s] = cloud[s]  BY <1>2, <2>2, Effects
    <3>2. CASE call[r].at = "create"
      <4>1. cloud[Home(r)].phase = "gone"  BY <2>2, <3>2, TargetIsHome DEF Accepts
      <4>2. cloud'[Home(r)].phase = "creating" /\ cloud'[Home(r)].by = r
        BY <2>2, <3>2, Effects
      <4> QED BY <1>1, <1>3, <1>4, <1>5, <1>6, <3>1, <3>2, <4>1, <4>2
              DEF EntryHere, PlaceHere, Standing
    <3>3. CASE call[r].at = "update"
      <4>1. cloud[Home(r)].phase = "ready"  BY <2>2, <3>3, TargetIsHome DEF Accepts
      <4>2. cloud'[Home(r)].phase = "updating" /\ cloud'[Home(r)].by = cloud[Home(r)].by
        BY <2>2, <3>3, Effects
      <4> QED BY <1>1, <1>3, <1>4, <1>5, <1>6, <3>1, <3>3, <4>1, <4>2
              DEF EntryHere, PlaceHere, Standing
    <3>4. CASE call[r].at = "delete"
      <4>1. cloud[Home(r)].phase = "ready"  BY <2>2, <3>4, TargetIsHome DEF Accepts
      <4>2. cloud'[Home(r)].phase = "deleting" /\ cloud'[Home(r)].by = cloud[Home(r)].by
        BY <2>2, <3>4, Effects
      <4>3. cloud[Home(r)].by = r  BY <1>6, <3>4, <4>1, OwnPlace
      <4>4. \A q \in Resource \ {r} : (Home(q) = Home(r) /\ HasEntry(q)) => q \in doubt
        BY <1>1, <4>3 DEF PlaceHere
      <4> QED BY <1>1, <1>2, <1>3, <1>4, <1>5, <1>6, <3>1, <3>4, <4>2, <4>3, <4>4
              DEF EntryHere, PlaceHere, Standing
    <3> QED BY <1>2, <3>1, <3>2, <3>3, <3>4
  <2> QED BY <2>1, <2>2 DEF Lost
<1>8. Elsewhere(r)  BY <1>3, <1>4, <1>5, <1>7 DEF Elsewhere
<1> QED BY <1>7, <1>8, Local

(***************************************************************************)
(* The cloud's own steps.                                                  *)
(***************************************************************************)
LEMMA CloudStepKeeps ==
    ASSUME TypeInv, KeptInv, NEW s \in Slot,
           \/ Settle(s)
           \/ \E k \in Key \cap Client[s[1]].updates, v \in Value : Drift(s, k, v)
    PROVE  KeptInv'
<1>1. cloud \in [Slot -> Place]  BY DEF TypeInv, TypeOK, Place, Phases
<1>2. UNCHANGED <<state, call, doubt>>  BY DEF Settle, Drift
<1>3. /\ \A p \in Slot \ {s} : cloud'[p] = cloud[p]
      /\ \/ cloud'[s].phase \in Standing /\ cloud[s].phase \in Standing /\ cloud'[s].by = cloud[s].by
         \/ cloud'[s].phase = "gone" /\ cloud[s].phase = "deleting"
  <2>1. CASE Settle(s)
    <3>1. cloud' = [cloud EXCEPT ![s] = Settled(cloud[s])]  BY <2>1 DEF Settle
    <3>2. cloud[s].phase = "deleting" => Settled(cloud[s]).phase = "gone"  BY DEF Settled, Gone
    <3>3. cloud[s].phase # "deleting" =>
              Settled(cloud[s]).phase = "ready" /\ Settled(cloud[s]).by = cloud[s].by
      BY <1>1 DEF Settled, Place
    <3> QED BY <1>1, <2>1, <3>1, <3>2, <3>3 DEF Settle, Standing
  <2>2. ASSUME NEW k, NEW v, Drift(s, k, v)
        PROVE  cloud'[s].phase = "ready" /\ cloud[s].phase = "ready" /\ cloud'[s].by = cloud[s].by
               /\ \A p \in Slot \ {s} : cloud'[p] = cloud[p]
    <3> DEFINE c == cloud[s]
               d == [c EXCEPT !.attrs = [c.attrs EXCEPT ![k] = v],
                              !.next = [c.next EXCEPT ![k] = v]]
    <3>1. c \in Place  BY <1>1
    <3>2. d.phase = c.phase /\ d.by = c.by  BY <3>1 DEF Place
    <3>3. cloud' = [cloud EXCEPT ![s] = d]  BY <1>1, <2>2, <3>1 DEF Drift, Place
    <3>4. c.phase = "ready"  BY <2>2 DEF Drift
    <3> HIDE DEF d
    <3> QED BY <1>1, <3>2, <3>3, <3>4
  <2> QED BY <2>1, <2>2 DEF Standing
<1>4. \A q \in Resource : HasEntry(q)' <=> HasEntry(q)  BY <1>2 DEF HasEntry
<1>5. EntriesLead' /\ CallsFit' /\ DoubtsWithoutEntry'
  BY <1>2, <1>4 DEF KeptInv, EntriesLead, CallsFit, DoubtsWithoutEntry, Addressed
<1>6. PlacesOwned' /\ PlacesKept' /\ RemovalsDoubted'
  BY <1>2, <1>3, <1>4 DEF KeptInv, PlacesOwned, PlacesKept, RemovalsDoubted, Standing
<1>7. EntriesBacked'
  BY <1>2, <1>3, <1>4, HomeIsSlot DEF KeptInv, EntriesBacked, Standing
<1> QED BY <1>5, <1>6, <1>7 DEF KeptInv

LEMMA InitKept == Init => KeptInv
BY HomeIsSlot DEF Init, KeptInv, EntriesLead, PlacesOwned, EntriesBacked, PlacesKept, RemovalsDoubted,
   CallsFit, DoubtsWithoutEntry, HasEntry, NoEntry, Idle, Gone, Standing

LEMMA KeptGivesProperties ==
    ASSUME TypeInv, KeptInv PROVE StateIsBacked /\ NothingForgotten
<1>1. \A r \in Resource : HasEntry(r) => Understood(r) /\ Addressed(r) = Home(r)
  BY DEF KeptInv, EntriesLead, Understood
<1>2. StateIsBacked
  BY <1>1 DEF KeptInv, EntriesBacked, StateIsBacked, Reaches, Standing
<1>3. NothingForgotten
  BY <1>1 DEF KeptInv, PlacesOwned, PlacesKept, NothingForgotten, Standing
<1> QED BY <1>2, <1>3

LEMMA KeptAlways == ASSUME WellBehaved, Separate PROVE Spec => [](TypeInv /\ KeptInv)
<1>1. Init => TypeInv /\ KeptInv  BY InitTypes, InitKept
<1>2. TypeInv /\ KeptInv /\ [Next]_vars => TypeInv' /\ KeptInv'
  <2>1. TypeInv /\ KeptInv /\ UNCHANGED vars => TypeInv' /\ KeptInv'
    BY DEF TypeInv, TypeOK, vars, KeptInv, EntriesLead, PlacesOwned, EntriesBacked, PlacesKept,
       RemovalsDoubted, CallsFit, DoubtsWithoutEntry, HasEntry, Addressed
  <2>2. TypeInv /\ Next => TypeInv'
    BY HostStepTypes, HandlerTypes, CloudStepTypes DEF Next
  <2>3. TypeInv /\ KeptInv /\ Next => KeptInv'
    BY HostStepKeeps, CreateKeeps, UpdateKeeps, DeleteKeeps, LostKeeps, CloudStepKeeps DEF Next
  <2> QED BY <2>1, <2>2, <2>3
<1> QED BY <1>1, <1>2, PTL DEF Spec

\* The inductive invariant behind the two theorems below: entries, places and calls fit one
\* another.
THEOREM EntriesAndPlacesFit == ASSUME WellBehaved, Separate PROVE Spec => []KeptInv
BY KeptAlways, PTL

\* Where clients and drivers are well behaved, every state entry out of doubt leads to a standing
\* resource that was made for it, whatever calls interleave and whichever answers are lost.
THEOREM EntriesAreBacked == ASSUME WellBehaved, Separate PROVE Spec => []StateIsBacked
BY KeptAlways, KeptGivesProperties, PTL

\* Where clients and drivers are well behaved, nothing the plugin made stands without an entry
\* that leads to it, unless an answer about it was lost.
THEOREM NothingIsForgotten == ASSUME WellBehaved, Separate PROVE Spec => []NothingForgotten
BY KeptAlways, KeptGivesProperties, PTL

\* Buckets, forwarding rules, firewall rules and certificates are well behaved.
THEOREM FourAreWellBehaved ==
    (\A r \in Resource : TypeOf[r] \in
        {"infra.storage", "infra.load_balancer", "infra.firewall", "infra.certificate"})
    => WellBehaved
BY DEF WellBehaved, Types, Client, Driver, GCSClient, LoadBalancerClient, FirewallClient, SSLClient,
   GCSDriver, LoadBalancerDriver, FirewallDriver, SSLCertificateDriver

-----------------------------------------------------------------------------
(* An answered Update is an update *)

\* A client whose get call answers, in the form they were configured in, only keys that an update
\* sends or a change of which replaces the resource; and whose driver has other outputs to begin
\* with only when no such key needs a replacement.
Candid(t) ==
    \/ Client[t].refuses
    \/ /\ Client[t].garbles = {}
       /\ Client[t].shows \subseteq Client[t].updates \cup Driver[t].forces \cup {"name"}
       /\ \/ Client[t].shows \subseteq Client[t].updates \cup {"name"}
          \/ Driver[t].echoes \cup Driver[t].distorts = {}

\* The keys of r that its client shows and does not update.
Fixed(r) == LET t == TypeOf[r]
            IN  IF Client[t].refuses THEN {} ELSE Key \cap (Client[t].shows \ Client[t].updates)

\* An operation under way changes nothing that no update sends.
Steady(s) == cloud[s].phase # "gone" =>
    \A k \in Key \ Client[s[1]].updates : cloud[s].next[k] = cloud[s].attrs[k]
\* The outputs have no keys yet, or tell the fixed ones as they are.
OutputsTell(r) == HasEntry(r) =>
    \/ DOMAIN state[r].outputs = {}
    \/ \A k \in Fixed(r) :
          /\ k \in DOMAIN state[r].outputs
          /\ cloud[Home(r)].phase # "gone" => state[r].outputs[k] = cloud[Home(r)].attrs[k]
\* An Update has been told nothing, and its config agrees with what stands on the fixed keys.
UpdateFits(r) == call[r].at = "update" =>
    /\ call[r].told # "ok"
    /\ cloud[Home(r)].phase # "gone" =>
          \A k \in Fixed(r) \cap DOMAIN call[r].cfg : call[r].cfg[k] = cloud[Home(r)].attrs[k]
EffectInv == (\A s \in Slot : Steady(s)) /\ \A r \in Resource : OutputsTell(r) /\ UpdateFits(r)

\* What stands after a step at s stood before, with the same value of each fixed key.
FixedStay(s) == cloud'[s].phase # "gone" =>
    /\ cloud[s].phase # "gone"
    /\ \A k \in Key \ Client[s[1]].updates : cloud'[s].attrs[k] = cloud[s].attrs[k]
EntriesStay == \A q \in Resource : HasEntry(q) => FixedStay(Home(q))

\* Where a resource without an entry may be created, no entry leads.
LEMMA FreeHasNoEntry ==
    ASSUME KeptInv, Separate, NEW r \in Resource, ~HasEntry(r), cloud[Home(r)].phase = "gone",
           NEW q \in Resource, HasEntry(q)
    PROVE  Home(q) # Home(r)
<1> SUFFICES ASSUME Home(q) = Home(r) PROVE FALSE  OBVIOUS
<1>1. CASE "delete" \notin LostSteps
  BY <1>1 DEF KeptInv, DoubtsWithoutEntry, EntriesBacked, Standing
<1>2. CASE \E cfg \in Specs[r] : "name" \in DOMAIN cfg
  BY <1>2, NamedHomeIsOwn
<1> QED BY <1>1, <1>2 DEF Separate

\* A step that leaves the entry, the call and the fixed keys of q as they are keeps its part.
LEMMA PartStays ==
    ASSUME KeptInv, EffectInv, NEW q \in Resource, state'[q] = state[q], call'[q] = call[q],
           HasEntry(q) => FixedStay(Home(q))
    PROVE  OutputsTell(q)' /\ UpdateFits(q)'
<1>1. OutputsTell(q) /\ UpdateFits(q)  BY DEF EffectInv
<1>2. Home(q)[1] = TypeOf[q]  BY DEF Home
<1>3. Fixed(q) \subseteq Key \ Client[TypeOf[q]].updates  BY DEF Fixed
<1>4. HasEntry(q)' <=> HasEntry(q)  BY DEF HasEntry
<1>5. OutputsTell(q)'  BY <1>1, <1>2, <1>3, <1>4 DEF OutputsTell, FixedStay
<1>6. call[q].at = "update" => HasEntry(q)  BY DEF KeptInv, CallsFit
<1>7. UpdateFits(q)'  BY <1>1, <1>2, <1>3, <1>6 DEF UpdateFits, FixedStay
<1> QED BY <1>5, <1>7

\* What the cloud makes of a call that it accepts, key by key.
LEMMA AcceptedKeys ==
    ASSUME TypeInv, KeptInv, NEW r \in Resource, call[r].at # "idle"
    PROVE  LET c == cloud[Home(r)]
               a == Accepted(r, call[r].cfg)[Home(r)]
               set == Sent(Client[TypeOf[r]].sets, call[r].cfg, Untouched)
           IN  /\ call[r].at = "create" => a.attrs = set /\ a.next = set
               /\ call[r].at = "update" =>
                     a.attrs = c.attrs /\ a.next = Sent(Client[TypeOf[r]].updates, call[r].cfg, c.next)
               /\ call[r].at = "delete" => a.attrs = c.attrs /\ a.next = c.next
<1> DEFINE H == Home(r)
           c == cloud[H]
           new == Sent(Client[TypeOf[r]].updates, call[r].cfg, c.next)
<1>1. H \in Slot /\ cloud \in [Slot -> Place]
      /\ call[r].at \in {"create", "update", "delete"}
  BY HomeIsSlot DEF TypeInv, TypeOK, Place, Phases
<1>2. /\ call[r].at = "create" => SlotFor(r, call[r].cfg) = H
      /\ call[r].at # "create" => Addressed(r) = H
  BY TargetIsHome
<1> HIDE DEF H
<1>3. CASE call[r].at = "create"
  BY <1>1, <1>2, <1>3 DEF Accepted, H
<1>4. CASE call[r].at = "update"
  <2>1. Accepted(r, call[r].cfg) = [cloud EXCEPT ![H].phase = "updating",
                                     ![H].next = Sent(Client[TypeOf[r]].updates, call[r].cfg, @)]
    BY <1>2, <1>4 DEF Accepted
  <2>2. Accepted(r, call[r].cfg)[H] = [c EXCEPT !.phase = "updating", !.next = new]
    BY <1>1, <2>1 DEF Place
  <2>3. c \in Place  BY <1>1
  <2>4. [c EXCEPT !.phase = "updating", !.next = new].attrs = c.attrs
        /\ [c EXCEPT !.phase = "updating", !.next = new].next = new
    BY <2>3 DEF Place
  <2> QED BY <1>4, <2>2, <2>4 DEF H
<1>5. CASE call[r].at = "delete"
  BY <1>1, <1>2, <1>5 DEF Accepted, Place, H
<1> QED BY <1>1, <1>3, <1>4, <1>5

\* A call that the cloud accepts, whether its end is waited for or not, leaves the fixed keys of
\* what entries lead to.
LEMMA AcceptedStays ==
    ASSUME TypeInv, KeptInv, EffectInv, Separate, NEW r \in Resource, call[r].at # "idle", Accepts(r),
           \/ cloud' = Accepted(r, call[r].cfg)
           \/ cloud' = Performed(r)
    PROVE  (\A s \in Slot : Steady(s)') /\ EntriesStay
<1> DEFINE H == Home(r)
           A == Accepted(r, call[r].cfg)
           keys == Key \ Client[TypeOf[r]].updates
<1>1. H \in Slot /\ cloud \in [Slot -> Place] /\ A \in [Slot -> Place] /\ H[1] = TypeOf[r]
      /\ call[r].at \in {"create", "update", "delete"}
  BY HomeIsSlot, PerformedIsTyped DEF TypeInv, TypeOK, Place, Phases, Home
<1>2. Performed(r) = A \/ Performed(r) = [A EXCEPT ![H] = Settled(A[H])]
  BY TargetIsHome DEF Performed
<1>3. /\ \A s \in Slot \ {H} : A[s] = cloud[s]
      /\ call[r].at = "delete" => A[H].phase = "deleting"
  BY Effects
<1>4. cloud[H].phase # "gone" => \A k \in keys : cloud[H].next[k] = cloud[H].attrs[k]
  BY <1>1 DEF EffectInv, Steady
<1>5. \A k \in keys : A[H].next[k] = A[H].attrs[k]
  <2>1. CASE call[r].at = "create"  BY <2>1, AcceptedKeys
  <2>2. CASE call[r].at = "update"
    <3>1. cloud[H].phase = "ready"  BY <2>2, TargetIsHome DEF Accepts
    <3>2. A[H].attrs = cloud[H].attrs
          /\ A[H].next = Sent(Client[TypeOf[r]].updates, call[r].cfg, cloud[H].next)
      BY <2>2, AcceptedKeys
    <3>3. \A k \in keys : A[H].next[k] = cloud[H].next[k]  BY <3>2 DEF Sent
    <3> QED BY <1>4, <3>1, <3>2, <3>3
  <2>3. CASE call[r].at = "delete"
    <3>1. cloud[H].phase = "ready"  BY <2>3, TargetIsHome DEF Accepts
    <3> QED BY <1>4, <2>3, <3>1, AcceptedKeys
  <2> QED BY <1>1, <2>1, <2>2, <2>3
<1>6. call[r].at # "create" => /\ cloud[H].phase = "ready"
                               /\ \A k \in keys : A[H].attrs[k] = cloud[H].attrs[k]
  BY <1>1, AcceptedKeys, TargetIsHome DEF Accepts
<1>7. call[r].at = "create" => \A q \in Resource : HasEntry(q) => Home(q) # H
  <2> SUFFICES ASSUME call[r].at = "create" PROVE \A q \in Resource : HasEntry(q) => Home(q) # H
    OBVIOUS
  <2>1. cloud[H].phase = "gone" /\ ~HasEntry(r)
    BY TargetIsHome DEF Accepts, KeptInv, CallsFit
  <2> QED BY <2>1, FreeHasNoEntry
<1> HIDE DEF H, A
<1>8. \A s \in Slot \ {H} : cloud'[s] = cloud[s]  BY <1>1, <1>2, <1>3 DEF A
<1>9. cloud'[H] = A[H] \/ cloud'[H] = Settled(A[H])  BY <1>1, <1>2 DEF A
<1>10. cloud'[H].phase # "gone" =>
          \A k \in keys : cloud'[H].next[k] = A[H].attrs[k] /\ cloud'[H].attrs[k] = A[H].attrs[k]
  <2>1. CASE cloud'[H] = A[H]  BY <1>5, <2>1
  <2>2. CASE cloud'[H] = Settled(A[H])
    <3>1. cloud'[H].phase # "gone" => A[H].phase # "deleting"
      BY <2>2 DEF Settled, Gone
    <3>2. A[H].phase # "deleting" => cloud'[H].next = A[H].next /\ cloud'[H].attrs = A[H].next
      BY <1>1, <2>2 DEF Settled, Place
    <3> QED BY <1>5, <3>1, <3>2
  <2> QED BY <1>9, <2>1, <2>2
<1>11. ASSUME NEW s \in Slot PROVE Steady(s)'
  <2>1. CASE s = H  BY <1>1, <1>10, <2>1 DEF Steady
  <2>2. CASE s # H  BY <1>8, <2>2 DEF Steady, EffectInv
  <2> QED BY <2>1, <2>2
<1>12. ASSUME NEW q \in Resource, HasEntry(q) PROVE FixedStay(Home(q))
  <2>1. CASE Home(q) # H  BY <1>8, <2>1, HomeIsSlot DEF FixedStay
  <2>2. CASE Home(q) = H
    <3>1. call[r].at # "create"  BY <1>7, <1>12, <2>2
    <3> QED BY <1>1, <1>6, <1>10, <2>2, <3>1 DEF FixedStay
  <2> QED BY <2>1, <2>2
<1> QED BY <1>11, <1>12 DEF EntriesStay

\* An operation that ends and somebody else's change leave them too.
LEMMA CloudStepStays ==
    ASSUME TypeInv, KeptInv, EffectInv, NEW s \in Slot,
           \/ Settle(s)
           \/ \E k \in Key \cap Client[s[1]].updates, v \in Value : Drift(s, k, v)
    PROVE  EffectInv'
<1>1. cloud \in [Slot -> Place] /\ UNCHANGED <<state, call>>
  BY DEF TypeInv, TypeOK, Place, Phases, Settle, Drift
<1>2. Steady(s)' /\ FixedStay(s) /\ \A p \in Slot \ {s} : cloud'[p] = cloud[p]
  <2>1. CASE Settle(s)
    <3>1. cloud' = [cloud EXCEPT ![s] = Settled(cloud[s])]  BY <2>1 DEF Settle
    <3>2. cloud'[s] = Settled(cloud[s]) /\ \A p \in Slot \ {s} : cloud'[p] = cloud[p]
      BY <1>1, <3>1
    <3>3. cloud[s].phase \in {"creating", "updating", "deleting"}  BY <2>1 DEF Settle
    <3>4. Steady(s)  BY DEF EffectInv
    <3>5. cloud'[s].phase # "gone" => cloud[s].phase # "deleting"
      BY <3>2 DEF Settled, Gone
    <3>6. cloud[s].phase # "deleting" =>
             cloud'[s].next = cloud[s].next /\ cloud'[s].attrs = cloud[s].next
      BY <1>1, <3>2 DEF Settled, Place
    <3> QED BY <3>2, <3>3, <3>4, <3>5, <3>6 DEF Steady, FixedStay
  <2>2. ASSUME NEW k \in Key \cap Client[s[1]].updates, NEW v, Drift(s, k, v)
        PROVE  Steady(s)' /\ FixedStay(s) /\ \A p \in Slot \ {s} : cloud'[p] = cloud[p]
    <3> DEFINE c == cloud[s]
               d == [c EXCEPT !.attrs = [c.attrs EXCEPT ![k] = v],
                              !.next = [c.next EXCEPT ![k] = v]]
    <3>1. c \in Place  BY <1>1
    <3>2. /\ d.attrs = [c.attrs EXCEPT ![k] = v] /\ d.next = [c.next EXCEPT ![k] = v]
          /\ c.attrs \in [Key -> Value \cup {Unset}] /\ c.next \in [Key -> Value \cup {Unset}]
      BY <3>1 DEF Place, Attributes
    <3>3. cloud' = [cloud EXCEPT ![s] = d]  BY <1>1, <2>2, <3>1 DEF Drift, Place
    <3>4. c.phase = "ready"  BY <2>2 DEF Drift
    <3>5. Steady(s)  BY DEF EffectInv
    <3> HIDE DEF d
    <3>6. cloud'[s] = d /\ \A p \in Slot \ {s} : cloud'[p] = cloud[p]  BY <1>1, <3>3
    <3>7. \A j \in Key \ Client[s[1]].updates : d.attrs[j] = c.attrs[j] /\ d.next[j] = c.next[j]
      BY <3>2
    <3> QED BY <3>4, <3>5, <3>6, <3>7 DEF Steady, FixedStay
  <2> QED BY <2>1, <2>2
<1>3. \A p \in Slot : Steady(p)'  BY <1>2 DEF EffectInv, Steady
<1>4. \A q \in Resource : FixedStay(Home(q))  BY <1>2, HomeIsSlot DEF FixedStay
<1>5. \A q \in Resource : OutputsTell(q)' /\ UpdateFits(q)'  BY <1>1, <1>4, PartStays
<1> QED BY <1>3, <1>5 DEF EffectInv

\* A step on r leaves the rest of the invariant alone.
LEMMA PartChanges ==
    ASSUME KeptInv, EffectInv, NEW r \in Resource,
           \A q \in Resource \ {r} : state'[q] = state[q] /\ call'[q] = call[q],
           UNCHANGED cloud \/ ((\A s \in Slot : Steady(s)') /\ EntriesStay),
           OutputsTell(r)', UpdateFits(r)'
    PROVE  EffectInv'
<1>1. \A s \in Slot : Steady(s)'  BY DEF EffectInv, Steady
<1>2. EntriesStay  BY DEF EntriesStay, FixedStay
<1>3. \A q \in Resource \ {r} : OutputsTell(q)' /\ UpdateFits(q)'
  BY <1>2, PartStays DEF EntriesStay
<1> QED BY <1>1, <1>3 DEF EffectInv

\* What the client shows tells the fixed keys as they are.
LEMMA ShownTells ==
    ASSUME NEW r \in Resource, Candid(TypeOf[r]), NEW there, NEW k \in Fixed(r)
    PROVE  /\ k \in DOMAIN Shown(Home(r), there)
           /\ Shown(Home(r), there)[k] = there[Home(r)].attrs[k]
<1>1. Home(r)[1] = TypeOf[r]  BY DEF Home
<1>2. k \in Key /\ k # "name" /\ k \in Client[TypeOf[r]].shows /\ Client[TypeOf[r]].garbles = {}
  BY SpecsAssumption DEF Fixed, Candid
<1> QED BY <1>1, <1>2 DEF Shown

LEMMA HostStepStays ==
    ASSUME TypeInv, KeptInv, EffectInv, NEW r \in Resource, Candid(TypeOf[r]),
           \/ \E cfg \in Specs[r] \cup (IF r \in Retirable THEN {Unwanted} ELSE {}) : Want(r, cfg)
           \/ Start(r) \/ Destroy(r) \/ Refresh(r) \/ Import(r)
    PROVE  EffectInv'
<1>1. OutputsTell(r) /\ UpdateFits(r)  BY DEF EffectInv
<1>2. CASE \E cfg \in Specs[r] \cup (IF r \in Retirable THEN {Unwanted} ELSE {}) : Want(r, cfg)
  BY <1>2 DEF Want, EffectInv, Steady, OutputsTell, UpdateFits, HasEntry
<1>3. ASSUME UNCHANGED <<state, cloud>>, \A q \in Resource \ {r} : call'[q] = call[q], UpdateFits(r)'
      PROVE  EffectInv'
  <2>1. OutputsTell(r)'  BY <1>1, <1>3 DEF OutputsTell, HasEntry
  <2> QED BY <1>3, <2>1, PartChanges
<1>4. CASE Start(r)
  <2> DEFINE action == PlanAction(r)
  <2>1. /\ call'[r].at = IF action = "replace" THEN "delete" ELSE action
        /\ call'[r].cfg = desired[r] /\ call'[r].told = "none"
        /\ \A q \in Resource \ {r} : call'[q] = call[q]
        /\ UNCHANGED <<state, cloud>>
    BY <1>4 DEF Start, TypeInv, TypeOK
  <2>2. action = "update" =>
           /\ HasEntry(r) /\ Diff(desired[r], state[r].outputs) # {}
           /\ Diff(desired[r], state[r].outputs) \cap Driver[TypeOf[r]].forces = {}
    BY DEF PlanAction
  <2> HIDE DEF action
  <2>3. UpdateFits(r)'
    <3> SUFFICES ASSUME action = "update", cloud[Home(r)].phase # "gone",
                        NEW k \in Fixed(r) \cap DOMAIN desired[r]
                 PROVE  desired[r][k] = cloud[Home(r)].attrs[k]
      BY <2>1 DEF UpdateFits
    <3>1. k \in Driver[TypeOf[r]].forces  BY SpecsAssumption DEF Fixed, Candid
    <3>2. DOMAIN state[r].outputs # {}  BY <2>2 DEF Diff
    <3>3. k \in DOMAIN state[r].outputs /\ state[r].outputs[k] = cloud[Home(r)].attrs[k]
      BY <1>1, <2>2, <3>2 DEF OutputsTell
    <3> QED BY <2>2, <3>1, <3>3 DEF Diff
  <2> QED BY <1>3, <2>1, <2>3
<1>5. CASE Destroy(r)
  <2>1. call'[r].at = "delete" /\ \A q \in Resource \ {r} : call'[q] = call[q]
    BY <1>5 DEF Destroy, TypeInv, TypeOK
  <2> QED BY <1>3, <1>5, <2>1 DEF Destroy, UpdateFits
<1>6. CASE Refresh(r)
  <2>1. call'[r].at = "idle" /\ \A q \in Resource \ {r} : call'[q] = call[q]
    BY <1>6, EndedElsewhere DEF Refresh
  <2>2. UpdateFits(r)' /\ cloud' = cloud /\ HasEntry(r)  BY <1>6, <2>1 DEF Refresh, UpdateFits
  <2>3. Addressed(r) = Home(r)  BY <2>2 DEF KeptInv, EntriesLead
  <2>4. CASE UNCHANGED state  BY <1>3, <2>1, <2>2, <2>4
  <2>5. CASE state' = [state EXCEPT ![r].outputs = Shown(Home(r), cloud)]
    <3>1. state'[r].outputs = Shown(Home(r), cloud) /\ \A q \in Resource \ {r} : state'[q] = state[q]
      BY <2>5 DEF TypeInv, TypeOK, Entry
    <3>2. OutputsTell(r)'  BY <2>2, <3>1, ShownTells DEF OutputsTell
    <3> QED BY <2>1, <2>2, <3>1, <3>2, PartChanges
  <2> QED BY <1>6, <2>3, <2>4, <2>5 DEF Refresh
<1>7. CASE Import(r)
  <2>1. call'[r].at = "idle" /\ \A q \in Resource \ {r} : call'[q] = call[q]
    BY <1>7, EndedElsewhere DEF Import
  <2>2. desired[r] \in Specs[r]  BY <1>7 DEF Import, TypeInv, TypeOK
  <2>3. SlotFor(r, desired[r]) = Home(r)  BY <2>2, HomeOfConfig
  <2>4. state' = [state EXCEPT ![r] = Entry("name", Home(r)[2], Shown(Home(r), cloud))]
        /\ cloud' = cloud
    BY <1>7, <2>3 DEF Import
  <2>5. state'[r].outputs = Shown(Home(r), cloud) /\ \A q \in Resource \ {r} : state'[q] = state[q]
    BY <2>4 DEF TypeInv, TypeOK, Entry
  <2>6. OutputsTell(r)'  BY <2>4, <2>5, ShownTells DEF OutputsTell
  <2>7. UpdateFits(r)'  BY <2>1 DEF UpdateFits
  <2> QED BY <2>1, <2>4, <2>5, <2>6, <2>7, PartChanges
<1> QED BY <1>2, <1>4, <1>5, <1>6, <1>7

LEMMA HandlerStays ==
    ASSUME TypeInv, KeptInv, EffectInv, Separate, NEW r \in Resource, Candid(TypeOf[r]),
           CreateCall(r) \/ UpdateCall(r) \/ DeleteCall(r) \/ Lost(r)
    PROVE  EffectInv'
<1>1. OutputsTell(r) /\ UpdateFits(r)  BY DEF EffectInv
<1>2. call[r].at # "idle"
  BY LostAssumption DEF CreateCall, UpdateCall, DeleteCall, Lost
<1>3. UNCHANGED cloud \/ ((\A s \in Slot : Steady(s)') /\ EntriesStay)
  BY <1>2, AcceptedStays DEF CreateCall, UpdateCall, DeleteCall, Lost
<1>4. call'[r].at # "update" /\ \A q \in Resource \ {r} : call'[q] = call[q]
  <2>1. CASE call' = [call EXCEPT ![r].at = "create", ![r].again = FALSE]
    BY <2>1 DEF TypeInv, TypeOK
  <2>2. ASSUME NEW told, call' = Ended(r, told)
        PROVE  call'[r].at # "update" /\ \A q \in Resource \ {r} : call'[q] = call[q]
    BY <2>2, EndedElsewhere
  <2> QED BY <2>1, <2>2 DEF CreateCall, UpdateCall, DeleteCall, Lost
<1>5. UpdateFits(r)'  BY <1>4 DEF UpdateFits
<1>6. OutputsTell(r)' /\ \A q \in Resource \ {r} : state'[q] = state[q]
  <2>1. CASE UNCHANGED state
    <3>1. HasEntry(r) => FixedStay(Home(r))  BY <1>3 DEF EntriesStay, FixedStay
    <3>2. Home(r)[1] = TypeOf[r] /\ Fixed(r) \subseteq Key \ Client[TypeOf[r]].updates
      BY DEF Home, Fixed
    <3> QED BY <1>1, <2>1, <3>1, <3>2 DEF OutputsTell, HasEntry, FixedStay
  <2>2. ASSUME NEW f, NEW n, state' = [state EXCEPT ![r] = Entry(f, n, FirstOutputs(TypeOf[r], call[r].cfg))]
        PROVE  OutputsTell(r)' /\ \A q \in Resource \ {r} : state'[q] = state[q]
    <3>1. /\ state'[r].outputs = FirstOutputs(TypeOf[r], call[r].cfg)
          /\ \A q \in Resource \ {r} : state'[q] = state[q]
      BY <2>2 DEF TypeInv, TypeOK, Entry
    <3>2. Fixed(r) = {} \/ Driver[TypeOf[r]].echoes \cup Driver[TypeOf[r]].distorts = {}
      BY SpecsAssumption DEF Fixed, Candid
    <3>3. Fixed(r) = {} \/ DOMAIN FirstOutputs(TypeOf[r], call[r].cfg) = {}
      BY <3>2 DEF FirstOutputs
    <3> QED BY <3>1, <3>3 DEF OutputsTell
  <2>3. CASE state' = [state EXCEPT ![r].outputs = Shown(Addressed(r), cloud')] /\ UpdateCall(r)
    <3>1. Addressed(r) = Home(r)  BY <2>3, TargetIsHome DEF UpdateCall
    <3>2. state'[r].outputs = Shown(Home(r), cloud') /\ \A q \in Resource \ {r} : state'[q] = state[q]
      BY <2>3, <3>1 DEF TypeInv, TypeOK, Entry
    <3> QED BY <3>2, ShownTells DEF OutputsTell
  <2>4. CASE state' = [state EXCEPT ![r] = NoEntry]
    BY <2>4 DEF TypeInv, TypeOK, NoEntry, OutputsTell, HasEntry
  <2> QED BY <2>1, <2>2, <2>3, <2>4 DEF CreateCall, UpdateCall, DeleteCall, Lost
<1> QED BY <1>3, <1>4, <1>5, <1>6, PartChanges

\* What an Update that is answered as done leaves to be updated: nothing.
LEMMA UpdateLeavesNothing ==
    ASSUME TypeInv, KeptInv, EffectInv, Separate, NEW r \in Resource, Candid(TypeOf[r]),
           Client[TypeOf[r]].waits, UpdateCall(r), call'[r].told = "ok"
    PROVE  Diff(call[r].cfg, state'[r].outputs) = {}
<1> DEFINE t == TypeOf[r]
           cfg == call[r].cfg
           H == Home(r)
<1>1. call[r].at = "update" /\ UpdateFits(r) /\ cfg \in Specs[r]
  BY DEF UpdateCall, EffectInv, TypeInv, TypeOK
<1>2. Addressed(r) = H /\ Target(r) = H /\ H \in Slot /\ H[1] = t
  BY <1>1, TargetIsHome, HomeIsSlot DEF Home
<1>3. call' # Ended(r, "error")  BY DEF Ended, Idle, TypeInv, TypeOK
<1>4. /\ ~Client[t].refuses
      /\ cloud[H].phase # "gone"
      /\ Accepts(r) \/ Client[t].updates \cap DOMAIN cfg = {}
      /\ state' = [state EXCEPT ![r].outputs = Shown(H, cloud')]
      /\ cloud' = IF Accepts(r) THEN Performed(r) ELSE cloud
  BY <1>1, <1>2, <1>3 DEF UpdateCall, Accepts, Reaches
<1>5. state'[r].outputs = Shown(H, cloud')  BY <1>4 DEF TypeInv, TypeOK, Entry
<1>6. Accepts(r) => /\ cloud[H].phase = "ready"
                    /\ \A k \in Key \cap Client[t].updates \cap DOMAIN cfg : cloud'[H].attrs[k] = cfg[k]
  <2> SUFFICES ASSUME Accepts(r)
               PROVE  /\ cloud[H].phase = "ready"
                      /\ \A k \in Key \cap Client[t].updates \cap DOMAIN cfg :
                            cloud'[H].attrs[k] = cfg[k]
    OBVIOUS
  <2> DEFINE A == Accepted(r, cfg)
  <2>1. A[H].phase = "updating" /\ A[H].next = Sent(Client[t].updates, cfg, cloud[H].next)
    BY <1>1, Effects, AcceptedKeys
  <2>2. A \in [Slot -> Place]  BY <1>1, PerformedIsTyped
  <2>3. cloud' = [A EXCEPT ![H] = Settled(A[H])]  BY <1>2, <1>4 DEF Performed
  <2> HIDE DEF A
  <2>4. cloud'[H].attrs = A[H].next  BY <1>2, <2>1, <2>2, <2>3 DEF Settled, Place
  <2>5. cloud[H].phase = "ready"  BY <1>1, <1>2 DEF Accepts
  <2> QED BY <2>1, <2>4, <2>5 DEF Sent
<1>7. DOMAIN Shown(H, cloud') = Client[t].shows \cap (Key \cup {"name"}) /\ Client[t].garbles = {}
  BY <1>2, <1>4 DEF Shown, Candid
<1> SUFFICES ASSUME NEW k \in DOMAIN cfg, k \in DOMAIN Shown(H, cloud')
             PROVE  cfg[k] = Shown(H, cloud')[k]
  BY <1>5 DEF Diff
<1>8. CASE k = "name"
  <2>1. Shown(H, cloud')[k] = H[2]  BY <1>2, <1>7, <1>8 DEF Shown
  <2>2. CloudName(cfg) = H[2] /\ CloudName(cfg) = cfg[k]
    BY <1>1, <1>8, HomeOfConfig DEF CloudName
  <2> QED BY <2>1, <2>2
<1>9. CASE k # "name"
  <2>1. Shown(H, cloud')[k] = cloud'[H].attrs[k] /\ k \in Key /\ k \in Client[t].shows
    BY <1>2, <1>7, <1>9 DEF Shown
  <2>2. CASE k \in Client[t].updates  BY <1>4, <1>6, <2>1, <2>2
  <2>3. CASE k \notin Client[t].updates
    <3>1. k \in Fixed(r) \cap DOMAIN cfg  BY <1>4, <2>1, <2>3 DEF Fixed
    <3>2. cfg[k] = cloud[H].attrs[k]  BY <1>1, <1>4, <3>1 DEF UpdateFits
    <3>3. HasEntry(r)  BY <1>1 DEF KeptInv, CallsFit
    <3>4. UNCHANGED cloud \/ EntriesStay  BY <1>1, <1>4, AcceptedStays
    <3>5. cloud'[H].phase # "gone"
      <4>1. Accepts(r) => cloud'[H].phase = "ready"  BY <1>1, <1>4, Effects
      <4> QED BY <1>4, <4>1
    <3>6. cloud'[H].attrs[k] = cloud[H].attrs[k]
      BY <1>2, <2>1, <2>3, <3>3, <3>4, <3>5 DEF EntriesStay, FixedStay
    <3> QED BY <2>1, <3>2, <3>6
  <2> QED BY <2>2, <2>3
<1> QED BY <1>8, <1>9

\* Only the handler of an Update answers it as done.
LEMMA OnlyUpdateAnswers ==
    ASSUME TypeInv, Next, NEW r \in Resource, call[r].at = "update", call[r].told # "ok",
           call'[r].told = "ok"
    PROVE  UpdateCall(r)
<1>1. call'[r] # call[r]  OBVIOUS
<1>2. PICK q \in Resource :
         \/ Start(q) \/ Destroy(q) \/ Refresh(q) \/ Import(q)
         \/ CreateCall(q) \/ UpdateCall(q) \/ DeleteCall(q) \/ Lost(q)
  BY <1>1 DEF Next, Want, Settle, Drift
<1>3. q = r
  <2>1. ASSUME NEW c, call' = [call EXCEPT ![q] = c] PROVE q = r
    BY <1>1, <2>1 DEF TypeInv, TypeOK
  <2>2. CASE call' = [call EXCEPT ![q].at = "create", ![q].again = FALSE]
    BY <1>1, <2>2 DEF TypeInv, TypeOK
  <2> QED
    BY <1>2, <2>1, <2>2 DEF Start, Destroy, Refresh, Import, CreateCall, UpdateCall, DeleteCall,
       Lost, Ended
<1>4. UpdateCall(r) \/ Lost(r)
  BY <1>2, <1>3 DEF Start, Destroy, Refresh, Import, CreateCall, DeleteCall
<1>5. ~Lost(r)  BY DEF Lost, Ended, Idle, TypeInv, TypeOK
<1> QED BY <1>4, <1>5

LEMMA InitEffect == Init => EffectInv
BY HomeIsSlot DEF Init, EffectInv, Steady, OutputsTell, UpdateFits, Gone, NoEntry, HasEntry, Idle

\* Where clients and drivers are well behaved and candid, an Update answered as done leaves nothing
\* to update: the outputs it answers agree with the config it was given, on every key both have,
\* though neither the call nor its plan asked the cloud about the keys it does not send.
THEOREM UpdatesTakeEffect ==
    ASSUME WellBehaved, Separate, \A r \in Resource : Candid(TypeOf[r])
    PROVE  Spec => UpdateTakesEffect
<1>1. Init => EffectInv  BY InitEffect
<1>2. TypeInv /\ KeptInv /\ EffectInv /\ [Next]_vars => EffectInv'
  <2>1. EffectInv /\ UNCHANGED vars => EffectInv'
    BY DEF vars, EffectInv, Steady, OutputsTell, UpdateFits, HasEntry
  <2>2. TypeInv /\ KeptInv /\ EffectInv /\ Next => EffectInv'
    BY HostStepStays, HandlerStays, CloudStepStays DEF Next
  <2> QED BY <2>1, <2>2
<1>3. TypeInv /\ KeptInv /\ EffectInv /\ [Next]_vars =>
         [\A r \in Resource :
             (Client[TypeOf[r]].waits /\ call[r].at = "update" /\ call'[r].told = "ok") =>
                 Diff(call[r].cfg, state'[r].outputs) = {}]_vars
  <2> SUFFICES ASSUME TypeInv, KeptInv, EffectInv, Next, NEW r \in Resource,
                      Client[TypeOf[r]].waits, call[r].at = "update", call'[r].told = "ok"
               PROVE  Diff(call[r].cfg, state'[r].outputs) = {}
    OBVIOUS
  <2>1. call[r].told # "ok"  BY DEF EffectInv, UpdateFits
  <2>2. UpdateCall(r)  BY <2>1, OnlyUpdateAnswers
  <2> QED BY <2>2, UpdateLeavesNothing
<1> QED BY <1>1, <1>2, <1>3, KeptAlways, PTL DEF Spec, UpdateTakesEffect

\* Buckets, forwarding rules and certificates are candid; firewall rules are not, whose Update
\* sends nothing.
THEOREM ThreeAreCandid ==
    /\ \A t \in {"infra.storage", "infra.load_balancer", "infra.certificate"} : Candid(t)
    /\ ~Candid("infra.firewall")
BY DEF Candid, Types, Client, Driver, GCSClient, LoadBalancerClient, FirewallClient, SSLClient,
   GCSDriver, LoadBalancerDriver, FirewallDriver, SSLCertificateDriver
=============================================================================
