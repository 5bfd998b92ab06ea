--------------------------- MODULE ResourceDrivers ---------------------------
(***************************************************************************)
(* The provider's plans and the create, read, update and delete of its     *)
(* one-part resource drivers, as a host applies them: the host keeps, for  *)
(* each resource, a state entry with the ProviderID and the outputs the    *)
(* last call answered, and every later call finds the resource by that     *)
(* ProviderID alone.  The real clients (DriverTable) and the cloud decide  *)
(* what a ProviderID reaches.                                              *)
(*                                                                         *)
(* A call is one step on the cloud and on the entry; its answer can be     *)
(* lost (the plugin dies, the connection drops, the context ends while the *)
(* client waits), and an operation the cloud accepted then goes on alone.  *)
(* Calls on different resources interleave.  Plan and call are separate    *)
(* steps: the config may be edited in between.                             *)
(***************************************************************************)
EXTENDS DriverTable, Naturals

CONSTANTS
    Resource,   \* the resources the host manages, by spec name
    TypeOf,     \* their types
    Key,        \* config keys, "name" apart
    Value,      \* what a key is set to
    Specs,      \* the configs each resource may be given: functions on keys
    Retirable,  \* resources the host may stop wanting
    LostSteps,  \* the calls whose answer may be lost
    Default,    \* the cloud name a client falls back to without a "name"
    Unset,      \* an attribute nobody set
    Other,      \* a value in another form than the one configured
    Unwanted,   \* the config of a resource the host does not want
    MaxEdits,   \* bound: config edits
    MaxFaults,  \* bound: lost answers
    MaxDrifts   \* bound: changes made to the cloud by others

Config == UNION {Specs[r] : r \in Resource}

\* The configs of a resource agree on its cloud name: its own, or none given.
ASSUME SpecsAssumption ==
    /\ TypeOf \in [Resource -> Types]
    /\ "name" \notin Key /\ Default \notin Resource
    /\ \A r \in Resource : \A cfg \in Specs[r] :
          /\ DOMAIN cfg \subseteq Key \cup {"name"}
          /\ \A k \in DOMAIN cfg \cap Key : cfg[k] \in Value
    /\ \A r \in Resource :
          \/ \A cfg \in Specs[r] : "name" \in DOMAIN cfg /\ cfg["name"] = r
          \/ \A cfg \in Specs[r] : "name" \notin DOMAIN cfg
    /\ Unwanted \notin Config
ASSUME LostAssumption == LostSteps \subseteq {"create", "update", "delete"}
ASSUME BoundsAssumption == MaxEdits \in Nat /\ MaxFaults \in Nat /\ MaxDrifts \in Nat

VARIABLES
    desired,    \* the config the host wants of each resource, or Unwanted
    state,      \* the host's state entries
    call,       \* the call under way on each resource, and the last answer
    cloud,      \* the resources that exist, by type and cloud name
    doubt,      \* history: resources with a lost answer no later answer has settled yet
    edits, faults, drifts

vars == <<desired, state, call, cloud, doubt, edits, faults, drifts>>

Slot == {TypeOf[r] : r \in Resource} \X (Resource \cup {Default})
Untouched == [k \in Key |-> Unset]
Gone == [phase |-> "gone", attrs |-> Untouched, next |-> Untouched, by |-> Default]
NoEntry == [form |-> "none", cname |-> Default, outputs |-> <<>>]
Idle == [at |-> "idle", again |-> FALSE, cfg |-> Unwanted, told |-> "none"]

Init ==
    /\ desired \in [Resource -> Config] /\ \A r \in Resource : desired[r] \in Specs[r]
    /\ state = [r \in Resource |-> NoEntry]
    /\ call = [r \in Resource |-> Idle]
    /\ cloud = [s \in Slot |-> Gone]
    /\ doubt = {} /\ edits = 0 /\ faults = 0 /\ drifts = 0

(***************************************************************************)
(* Names, ProviderIDs and outputs.                                         *)
(***************************************************************************)
\* The name a client creates a resource under.
CloudName(cfg) == IF "name" \in DOMAIN cfg THEN cfg["name"] ELSE Default
SlotFor(r, cfg) == <<TypeOf[r], CloudName(cfg)>>

HasEntry(r) == state[r].form # "none"
\* The place in the cloud an entry's ProviderID speaks of, and whether the client gets there.
Addressed(r) == <<TypeOf[r], state[r].cname>>
Understood(r) == \/ state[r].form = "name"
                 \/ state[r].form = "path" /\ Client[TypeOf[r]].takesPath
Reaches(r) == Understood(r) /\ cloud[Addressed(r)].phase # "gone"

\* What Create answers, and what a read of the resource answers.
FirstOutputs(t, cfg) ==
    [k \in (Driver[t].echoes \cup Driver[t].distorts) \cap (Key \cup {"name"}) |->
        IF k \in Driver[t].distorts THEN Other
        ELSE IF k \in DOMAIN cfg THEN cfg[k] ELSE Unset]
Shown(s, there) ==
    [k \in (Client[s[1]].shows \cup Client[s[1]].garbles) \cap (Key \cup {"name"}) |->
        IF k \in Client[s[1]].garbles THEN Other
        ELSE IF k = "name" THEN s[2] ELSE there[s].attrs[k]]

(***************************************************************************)
(* The plan.  Diff compares the config with the outputs kept in the state, *)
(* for the keys these have: it does not ask the cloud.                     *)
(***************************************************************************)
Diff(cfg, outputs) == {k \in DOMAIN cfg \cap DOMAIN outputs : cfg[k] # outputs[k]}

\* Mutant of PlanAction: a forced key is taken for one an update can change.
PlanActionUpdates(r) ==
    IF ~HasEntry(r) THEN "create"
    ELSE IF Diff(desired[r], state[r].outputs) # {} THEN "update" ELSE "none"

PlanAction(r) ==
    LET changes == Diff(desired[r], state[r].outputs)
    IN  IF ~HasEntry(r) THEN "create"
        ELSE IF changes \cap Driver[TypeOf[r]].forces # {} THEN "replace"
        ELSE IF changes # {} THEN "update"
        ELSE "none"

(***************************************************************************)
(* The cloud.  A call the cloud accepts becomes an operation; most clients *)
(* wait for its end.                                                       *)
(***************************************************************************)
Sent(keys, cfg, old) == [k \in Key |-> IF k \in keys \cap DOMAIN cfg THEN cfg[k] ELSE old[k]]
Accepted(r, cfg) ==
    LET t == TypeOf[r]
        set == Sent(Client[t].sets, cfg, Untouched)
    IN  CASE call[r].at = "create" ->
               [cloud EXCEPT ![SlotFor(r, cfg)] =
                   [phase |-> "creating", attrs |-> set, next |-> set, by |-> r]]
          [] call[r].at = "update" ->
               [cloud EXCEPT ![Addressed(r)].phase = "updating",
                             ![Addressed(r)].next = Sent(Client[t].updates, cfg, @)]
          [] OTHER -> [cloud EXCEPT ![Addressed(r)].phase = "deleting"]

Settled(c) == IF c.phase = "deleting" THEN Gone
              ELSE [c EXCEPT !.phase = "ready", !.attrs = c.next]

\* Where the call under way works, whether the cloud accepts it, what it leaves when answered.
Target(r) == IF call[r].at = "create" THEN SlotFor(r, call[r].cfg) ELSE Addressed(r)
Accepts(r) ==
    LET t == TypeOf[r]
    IN  CASE call[r].at = "create" -> cloud[Target(r)].phase = "gone"
          [] call[r].at = "update" ->
               /\ ~Client[t].refuses /\ Client[t].updates \cap DOMAIN call[r].cfg # {}
               /\ Understood(r) /\ cloud[Target(r)].phase = "ready"
          [] OTHER -> Understood(r) /\ cloud[Target(r)].phase = "ready"
Performed(r) ==
    LET accepted == Accepted(r, call[r].cfg)
    IN  IF Client[TypeOf[r]].waits
        THEN [accepted EXCEPT ![Target(r)] = Settled(@)] ELSE accepted

(***************************************************************************)
(* The host's steps.                                                       *)
(***************************************************************************)
\* A config is edited, or the resource no longer wanted.
Want(r, cfg) ==
    /\ edits < MaxEdits /\ cfg # desired[r]
    /\ desired' = [desired EXCEPT ![r] = cfg] /\ edits' = edits + 1
    /\ UNCHANGED <<state, call, cloud, doubt, faults, drifts>>

\* Plan, and the first call of the action it answers: a replace deletes, then creates.
Start(r) ==
    LET action == PlanAction(r)
    IN  /\ call[r].at = "idle" /\ desired[r] # Unwanted /\ action # "none"
        /\ call' = [call EXCEPT ![r] =
              [at |-> IF action = "replace" THEN "delete" ELSE action,
               again |-> action = "replace", cfg |-> desired[r], told |-> "none"]]
        /\ UNCHANGED <<desired, state, cloud, doubt, edits, faults, drifts>>

\* Mutant of Destroy: the call is left as one of a replace.
DestroyReplaces(r) ==
    /\ call[r].at = "idle" /\ desired[r] = Unwanted /\ HasEntry(r)
    /\ call' = [call EXCEPT ![r] =
          [at |-> "delete", again |-> TRUE, cfg |-> Unwanted, told |-> "none"]]
    /\ UNCHANGED <<desired, state, cloud, doubt, edits, faults, drifts>>

\* Destroy calls Delete and nothing else.
Destroy(r) ==
    /\ call[r].at = "idle" /\ desired[r] = Unwanted /\ HasEntry(r)
    /\ call' = [call EXCEPT ![r] =
          [at |-> "delete", again |-> FALSE, cfg |-> Unwanted, told |-> "none"]]
    /\ UNCHANGED <<desired, state, cloud, doubt, edits, faults, drifts>>

Ended(r, told) == [call EXCEPT ![r] = [Idle EXCEPT !.told = told]]
Entry(form, cname, outputs) == [form |-> form, cname |-> cname, outputs |-> outputs]

\* Status and DetectDrift read the resource; the outputs read are kept, an error leaves the
\* entry alone, and DetectDrift answers "not drifted" either way.
Refresh(r) ==
    /\ call[r].at = "idle" /\ HasEntry(r)
    /\ IF Reaches(r)
       THEN /\ state' = [state EXCEPT ![r].outputs = Shown(Addressed(r), cloud)]
            /\ doubt' = IF cloud[Addressed(r)].phase = "ready" THEN doubt \ {r} ELSE doubt
       ELSE UNCHANGED <<state, doubt>>
    /\ call' = Ended(r, "undrifted")
    /\ UNCHANGED <<desired, cloud, edits, faults, drifts>>

\* Told that the resource exists, the host imports it by its cloud name, which becomes the
\* name of the entry: it is the resource's only when the config gives the name.
Import(r) ==
    /\ call[r].at = "idle" /\ call[r].told = "exists" /\ ~HasEntry(r)
    /\ desired[r] # Unwanted /\ "name" \in DOMAIN desired[r]
    /\ LET s == SlotFor(r, desired[r])
       IN  /\ cloud[s].phase # "gone"
           /\ state' = [state EXCEPT ![r] = Entry("name", s[2], Shown(s, cloud))]
    /\ doubt' = doubt \ {r} /\ call' = Ended(r, "ok")
    /\ UNCHANGED <<desired, cloud, edits, faults, drifts>>

(***************************************************************************)
(* The handlers.                                                           *)
(***************************************************************************)
CreateCall(r) ==
    LET t == TypeOf[r]  cfg == call[r].cfg
    IN  /\ call[r].at = "create"
        /\ \/ /\ Accepts(r) /\ cloud' = Performed(r)
              /\ state' = [state EXCEPT ![r] =
                    Entry(Client[t].answers, CloudName(cfg), FirstOutputs(t, cfg))]
              /\ call' = Ended(r, "ok") /\ doubt' = doubt \ {r}
           \/ \* The name answered for a cluster that exists is the config's, else the spec's.
              /\ ~Accepts(r) /\ Driver[t].swallows
              /\ state' = [state EXCEPT ![r] =
                    Entry("name", IF "name" \in DOMAIN cfg THEN cfg["name"] ELSE r,
                          FirstOutputs(t, cfg))]
              /\ call' = Ended(r, "ok") /\ doubt' = doubt \ {r} /\ UNCHANGED cloud
           \/ /\ ~Accepts(r) /\ ~Driver[t].swallows
              /\ call' = Ended(r, "exists") /\ UNCHANGED <<state, cloud, doubt>>
        /\ UNCHANGED <<desired, edits, faults, drifts>>

\* Update ends with a Read, whose outputs it answers.  A client with nothing to send succeeds.
UpdateCall(r) ==
    LET t == TypeOf[r]
        empty == ~Client[t].refuses /\ Client[t].updates \cap DOMAIN call[r].cfg = {}
    IN  /\ call[r].at = "update"
        /\ cloud' = IF Accepts(r) THEN Performed(r) ELSE cloud
        /\ IF Accepts(r) \/ (empty /\ Reaches(r))
           THEN /\ state' = [state EXCEPT ![r].outputs = Shown(Addressed(r), cloud')]
                /\ call' = Ended(r, "ok")
           ELSE call' = Ended(r, "error") /\ UNCHANGED state
        /\ UNCHANGED <<desired, doubt, edits, faults, drifts>>

\* Mutant of DeleteCall: the resource counts as destroyed whatever Delete answers.
DeleteCallForgets(r) ==
    /\ call[r].at = "delete"
    /\ cloud' = IF Accepts(r) THEN Performed(r) ELSE cloud
    /\ state' = [state EXCEPT ![r] = NoEntry] /\ doubt' = doubt \ {r}
    /\ call' = Ended(r, "ok")
    /\ UNCHANGED <<desired, edits, faults, drifts>>

DeleteCall(r) ==
    LET absent == Driver[TypeOf[r]].swallows /\ ~Reaches(r)
    IN  /\ call[r].at = "delete"
        /\ cloud' = IF Accepts(r) THEN Performed(r) ELSE cloud
        /\ IF Accepts(r) \/ absent
           THEN /\ state' = [state EXCEPT ![r] = NoEntry] /\ doubt' = doubt \ {r}
                /\ call' = IF call[r].again
                           THEN [call EXCEPT ![r].at = "create", ![r].again = FALSE]
                           ELSE Ended(r, "ok")
           ELSE call' = Ended(r, "error") /\ UNCHANGED <<state, doubt>>
        /\ UNCHANGED <<desired, edits, faults, drifts>>

\* The answer is lost: the host keeps its entry, the cloud may have accepted the call.
Lost(r) ==
    /\ call[r].at \in LostSteps /\ faults < MaxFaults
    /\ \/ UNCHANGED cloud
       \/ Accepts(r) /\ cloud' = Accepted(r, call[r].cfg)
    /\ call' = Ended(r, "error") /\ faults' = faults + 1
    /\ doubt' = IF call[r].at = "update" THEN doubt ELSE doubt \cup {r}
    /\ UNCHANGED <<desired, state, edits, drifts>>

(***************************************************************************)
(* The cloud's own steps.                                                  *)
(***************************************************************************)
Settle(s) ==
    /\ cloud[s].phase \in {"creating", "updating", "deleting"}
    /\ cloud' = [cloud EXCEPT ![s] = Settled(@)]
    /\ UNCHANGED <<desired, state, call, doubt, edits, faults, drifts>>

\* Somebody else changes an attribute that can be changed.
Drift(s, k, v) ==
    /\ drifts < MaxDrifts /\ cloud[s].phase = "ready" /\ cloud[s].attrs[k] # v
    /\ cloud' = [cloud EXCEPT ![s].attrs[k] = v, ![s].next[k] = v] /\ drifts' = drifts + 1
    /\ UNCHANGED <<desired, state, call, doubt, edits, faults>>

Next ==
    \/ \E r \in Resource :
          \/ \E cfg \in Specs[r] \cup (IF r \in Retirable THEN {Unwanted} ELSE {}) : Want(r, cfg)
          \/ Start(r) \/ Destroy(r) \/ Refresh(r) \/ Import(r)
          \/ CreateCall(r) \/ UpdateCall(r) \/ DeleteCall(r) \/ Lost(r)
    \/ \E s \in Slot :
          \/ Settle(s)
          \/ \E k \in Key \cap Client[s[1]].updates, v \in Value : Drift(s, k, v)

Spec == Init /\ [][Next]_vars

\* Handlers answer or lose their answer, operations end, and the host applies its plans,
\* refreshes what it keeps, and imports what it is told again and again exists.
FairSpec ==
    /\ Spec
    /\ \A r \in Resource :
          /\ WF_vars(CreateCall(r) \/ UpdateCall(r) \/ DeleteCall(r))
          /\ WF_vars(Start(r)) /\ WF_vars(Destroy(r))
          /\ SF_vars(Refresh(r)) /\ SF_vars(Import(r))
    /\ \A s \in Slot : WF_vars(Settle(s))

(***************************************************************************)
(* Properties.                                                             *)
(***************************************************************************)
Form == {"none", "name", "path", "operation"}
Attributes == [Key -> Value \cup {Unset}]
TypeOK ==
    /\ desired \in [Resource -> Config \cup {Unwanted}]
    /\ \A r \in Resource : desired[r] \in Specs[r] \cup {Unwanted}
    /\ DOMAIN state = Resource
    /\ \A r \in Resource :
          /\ state[r] = Entry(state[r].form, state[r].cname, state[r].outputs)
          /\ state[r].form \in Form /\ state[r].cname \in Resource \cup {Default}
    /\ call \in [Resource -> [at : {"idle", "create", "update", "delete"}, again : BOOLEAN,
                              cfg : Config \cup {Unwanted},
                              told : {"none", "ok", "error", "exists", "undrifted"}]]
    /\ \A r \in Resource : call[r].at \in {"create", "update"} => call[r].cfg \in Specs[r]
    /\ cloud \in [Slot -> [phase : {"gone", "creating", "ready", "updating", "deleting"},
                           attrs : Attributes, next : Attributes, by : Resource \cup {Default}]]
    /\ doubt \subseteq Resource
    /\ edits \in 0..MaxEdits /\ faults \in 0..MaxFaults /\ drifts \in 0..MaxDrifts

\* Every state entry leads, by its ProviderID, to a standing resource that was made for it.
\* Only a lost answer of Create or Delete excuses an entry, until one is answered as done or
\* a read finds the resource.
StateIsBacked ==
    \A r \in Resource \ doubt : HasEntry(r) =>
        Reaches(r) /\ cloud[Addressed(r)].by = r /\ cloud[Addressed(r)].phase # "deleting"

\* No resource the plugin made is left standing that no entry leads to: what made it keeps
\* an entry that reaches it, or lost an answer about it.
NothingForgotten ==
    \A s \in Slot : cloud[s].phase \in {"creating", "ready", "updating"} =>
        LET r == cloud[s].by
        IN  r \in doubt \/ (HasEntry(r) /\ Understood(r) /\ Addressed(r) = s)

(***************************************************************************)
(* The invariant behind both, where every client answers the bare name and *)
(* waits for its operations, no driver takes "already exists" or "not      *)
(* found" for a success, and either no answer of Delete is lost or every   *)
(* config gives its name.                                                  *)
(***************************************************************************)
Home(r) == <<TypeOf[r], IF \E cfg \in Specs[r] : "name" \in DOMAIN cfg THEN r ELSE Default>>
Standing == {"creating", "ready", "updating"}

\* An entry speaks of the one place its resource can have, and a resource stands in that place.
EntriesLead == \A r \in Resource : HasEntry(r) => state[r].form = "name" /\ Addressed(r) = Home(r)
PlacesOwned == \A s \in Slot : cloud[s].phase # "gone" =>
                    cloud[s].by \in Resource /\ s = Home(cloud[s].by)
\* An entry out of doubt is backed; what stands is in doubt or has its entry.
EntriesBacked == \A r \in Resource \ doubt : HasEntry(r) =>
                    cloud[Home(r)].phase \in Standing /\ cloud[Home(r)].by = r
PlacesKept == \A s \in Slot : cloud[s].phase \in Standing =>
                    cloud[s].by \in doubt \/ HasEntry(cloud[s].by)
\* Only a Delete that lost its answer leaves a removal under way, and it keeps the entry.
RemovalsDoubted == \A s \in Slot : cloud[s].phase = "deleting" =>
                    cloud[s].by \in doubt /\ HasEntry(cloud[s].by)
\* Create is called without an entry, Update and Delete with one.
CallsFit == \A r \in Resource : /\ call[r].at = "create" => ~HasEntry(r)
                                /\ call[r].at \in {"update", "delete"} => HasEntry(r)
DoubtsWithoutEntry == "delete" \notin LostSteps => \A r \in Resource : HasEntry(r) => r \notin doubt

KeptInv == /\ EntriesLead /\ PlacesOwned /\ EntriesBacked /\ PlacesKept
           /\ RemovalsDoubted /\ CallsFit /\ DoubtsWithoutEntry

\* An Update answered as done by a client that waits for its operations leaves nothing to
\* update: the outputs it answers agree with the config it was given, on every key both have.
UpdateTakesEffect ==
    [][\A r \in Resource :
          (Client[TypeOf[r]].waits /\ call[r].at = "update" /\ call'[r].told = "ok") =>
              Diff(call[r].cfg, state'[r].outputs) = {}]_vars

\* Keys a plan compares and a call can put right.
Managed(r) == LET t == TypeOf[r] IN Key \cap Client[t].shows
                                        \cap (Client[t].updates \cup Driver[t].forces)
AsDesired(r) ==
    IF desired[r] = Unwanted THEN ~HasEntry(r)
    ELSE /\ Reaches(r) /\ cloud[Addressed(r)].phase = "ready"
         /\ \A k \in Managed(r) \cap DOMAIN desired[r] :
               cloud[Addressed(r)].attrs[k] = desired[r][k]

\* Plans come to an end: once edits and faults stop, what is wanted stands as it is wanted, and
\* what is not wanted has no entry.  Only a resource whose Delete lost its answer may be left
\* with its entry for ever: no driver but GKE's takes "not found" for a finished Delete.
Converges == <>[](\A r \in Resource : AsDesired(r) \/ (HasEntry(r) /\ r \in doubt))
=============================================================================
