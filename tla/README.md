# A verification project for workflow-plugin-gcp

`workflow-plugin-gcp` is a Go plugin that a workflow host runs as a gRPC server
of its own process. It gives the host Google Cloud: resource drivers (create,
read, update, delete, diff), plans, a state backend in Cloud Storage, a job
runner, rollout drivers for Cloud Run, ownership labels and credential modules.
The TLA+ here models the parts in which something can go wrong that a unit test
hardly reaches: the state backend shared by several processes, the life of a
resource between the host's state, the drivers and the cloud, rollouts that fail
half way, labels written concurrently, jobs whose answers are lost, and modules
that are started and stopped. TLC checks small instances; TLAPS proves the main
safety results for every instance.

Contents: [1 Inventory](#1-inventory), [2 Modules](#2-modules-and-the-code),
[3 Runs](#3-runs), [4 Fairness](#4-fairness), [5 Proofs](#5-proofs),
[6 Where code and words disagree](#6-where-the-code-and-its-words-disagree),
[7 Not modelled](#7-abstractions-and-what-is-not-modelled), [8 Plan](#8-plan).

## 1 Inventory

Paths are those of the repository.

| Component | State | Operations | Hard behaviour | What makes it correct |
|---|---|---|---|---|
| **State backend**: `internal/statebackend/gcs.go`, `internal/statebackend_server.go` | the configured store of the process (under a mutex); `lockState` (a map without one); in the bucket, one `.json` object per record and one `.lock` object per lock | Configure; GetState, SaveState, DeleteState, ListStates, Lock, Unlock | handlers run in goroutines of their own and share store and bucket with other processes; each makes one to many client calls; a failed call may have taken effect, or take effect later; processes and callers die holding locks | locks exclude; a held lock stands in the bucket; a record read under the lock is not changed by others; a listing is complete; the answer is about the ID asked for |
| **Resource drivers and real clients**: `provider/drivers/*.go` | none in the process (a client each); the cloud holds the resources, the host the state entries with ProviderID and outputs | Create, Read, Update, Delete, Diff, Scale, HealthCheck, SetOwner, for 13 types | a call is accepted by the cloud and then waited for: the answer may be lost while the operation goes on; what a ProviderID reaches is decided by eleven clients, each in its own way; fallback names are shared | every entry leads to the resource made for it; nothing that was made is forgotten; an answered update is an update; plans come to an end |
| **VPC and DNS drivers**: `provider/drivers/vpc.go`, `dns.go` | as above, in two parts: a network and its subnet, a zone and its records | as above | a failure between the parts | no part is left behind without an entry that leads to it |
| **Provider**: `provider/provider.go` | project, region, zone, the drivers map | Initialize, Capabilities, Plan, Destroy, Status, DetectDrift, Import | Initialize races the RPC handlers; Plan reads what the host remembered, not the cloud; Destroy and Status go on after a failure | a plan, applied, brings the cloud to what is wanted; a resource counts as destroyed only when it is |
| **Typed IaC server**: `internal/iacserver.go`, `internal/resourcedriver_server.go`, `internal/region_lister.go` | none (it holds the provider and the state backend) | the IaC and driver RPCs: decode, call, encode | the decoded JSON's types decide what the clients read | as of what it calls |
| **Rollout drivers**: `provider/deploy.go` | the revisions of the rollout, in memory | rolling Update; blue-green CreateGreen, SwitchTraffic, DestroyBlue; canary CreateCanary, RoutePercent, PromoteCanary, DestroyCanary | calls in an unexpected order, twice, or after a restart | traffic always adds up and goes to revisions that exist; a rollback goes to what was stable |
| **Ownership labels**: `provider/ownership.go` | labels in the cloud | SetOwner, GetOwner, ListOwners | read, merge, write back without a fingerprint, for several types | no label of another writer is lost; an owner that is named is the resource's own |
| **Job runner**: `provider/runner.go`, `internal/runner_server.go` | Cloud Run jobs and executions | RunJob, JobStatus, JobLogs | create and run are two calls; a retry after a lost answer | a command runs once for one answered call; every end of an execution is reported as one |
| **Credential registry and modules**: `internal/credref`, `internal/modules`, `internal/gcpcreds` | a registry of names under a mutex | register, resolve, Start, Stop, Put, Delete and reads | a module created again; a reference resolved before its credential is registered; a client that does not close; a reader that fails in the middle of an upload | a reference resolves to the credential registered under it, or not at all; no client leaks; a truncated object was not answered as stored |
| **Requirement mapper**: `internal/iacserver_mapper.go`; **Sizing**: `provider/sizing.go` | none | pure functions | sections of a configuration that are written apart must fit together | the derived collector holds together and exports what was asked for |
| **Entry point, options, contracts**: `cmd/`, `internal/plugin_options.go`, `internal/contracts` | none | wiring; generated code | none | none |

Interactions: the host calls the typed server, which calls the provider, which
picks a driver by type, which calls its client, which calls Google Cloud. The
state backend is reached by the same gRPC server but shares nothing with the
provider: what relates a state entry to a resource is the host alone, which
writes into its entry what the last call answered and hands back the ProviderID
with the next. The two therefore compose only through the host; the lock of the
first is what serialises the calls of the second. Inside the provider, RPC
handlers share the fields Initialize sets (`JobRunner` is composed with
`ProviderLifecycle`); SetOwner goes through the driver's Update; storage modules
take their credentials from the registry, and a host may have requirements mapped
before it loads modules (`ConfigLoading` composes `CredentialModules` and
`RequirementMapper`).

## 2 Modules and the code

### GcsStateStore: the state backend

One *session* is one sequential caller of the host (an apply run): it has one RPC
in flight and remembers the locks it was granted. Several sessions may talk to one
process, and several processes share the bucket.

| Model | Code |
|---|---|
| `store[p]`, `epoch` | `stateBackend.store` under its mutex, and which `GCSIaCStateStore` it is |
| `rpc[s]` with `at` | the handler's goroutine: the client call it makes next. A handler keeps the store it resolved |
| `records`, `locks`, `gen` | the bucket's objects. A lock object carries the session that wrote it, which the code does not: it is there to say whose lock it is |
| `late` | requests whose sender was told "failed" and which may still take effect |
| `held`, `view`, `doubt` | history: locks granted, the generation a holder knows a record to have, keys with an unsettled change |
| `GetAttrs`, `GetRead` | GetState: the two calls of `ReadObject` |
| `SaveWrite`, `SaveConfirm` | SaveState: the unconditional upload, then Attrs |
| `ListKeys`, `ListRead`, `ListAnswer` | ListStates: a snapshot of the names, then one read for each, then the answer |
| `LockCreate`, `LockCreated`, `LockGranted` | Lock: conditional create, Attrs, the write of `lockState` |
| `UnlockRemove`, `UnlockDone` | Unlock: unconditional delete, the removal from `lockState` |
| `Fail` | the `err != nil` branch of whatever call is under way; a listing skips the object unless the context ended (gcs.go:202-210) |
| `MapRace` | two goroutines writing `lockState` at once: the Go runtime may end the process |
| `Land`, `Die`, `SessionDies` | the bucket and the operating system |

`LockedState` is the promise of the interface comments (gcs.go:45-59): one record
and one owner per key, a lock granted only to its owner and released only when not
held, a record changed only by a holder of its lock or through an earlier unsettled
change. `GcsStateStore` implements it (`Promise`: records, lock owners and doubt
stand for saved, owner and unsettled) for disciplined hosts.

### DriverTable and ResourceDrivers: resources, drivers, plans

The eleven one-part drivers run the same code. What tells them and their real
clients apart is eight facts of a client and four of a driver, kept as records in
`DriverTable`, each read off the client's or driver's functions: which form of
identifier Create answers and the others take, whether operations are waited for,
which config keys are sent, shown, or shown in another form, which changes force a
replacement, whether "already exists" and "not found" count as success.

| Model | Code |
|---|---|
| `state[r]` | the host's state entry: the form and name of the ProviderID, the outputs |
| `desired[r]`, `call[r]` | the config the host wants; the call under way, and what it was last told |
| `cloud[s]` | the resource of a type under a cloud name: its phase, attributes, those it is being changed to, and (history) which resource it was made for |
| `doubt` | history: resources with a lost answer of Create or Delete that no later answer or read has settled |
| `PlanAction`, `Diff` | `provider.Plan`, the drivers' `Diff`: config against remembered outputs, over the keys both have |
| `Start`, `Destroy` | the host applies the plan's action (a replace is Delete, then Create); Destroy calls Delete |
| `CreateCall`, `UpdateCall`, `DeleteCall` | the RPC handler, the driver's method and the client's call with its wait, as one step |
| `Refresh` | Status and DetectDrift: Read; its outputs are kept, an error is not an answer to the entry |
| `Import` | Import by cloud name, which the host does when told that what it creates exists |
| `Lost` | the answer does not arrive: the plugin died, the connection dropped or the context ended during `op.Wait`. The cloud may have accepted the call or not |
| `Settle`, `Drift` | an operation ends; somebody else changes an attribute |

A handler is one step because nothing else in the process shares state with it:
what can come between its parts is the loss of its answer, which `Lost` is, and
the operation that outlives it, which `Settle` is. Calls on different resources
interleave; the host makes one call at a time on one resource.

### PartedDrivers: VPC and DNS

Here a handler is several calls of the cloud, and a call on a resource may be cut
off between any two of them (`CutShort`, `Lost`).

| Model | Code |
|---|---|
| `wholes`, `subnets`, `records` | networks and zones with (history) whom they were made for; the subnet of each; the record sets of each zone |
| `state[r]` | the host's entry; `from` (history) is the config last answered |
| `call[r]` with `at`, `left` | the handler: the cloud call it makes next and the records it still has to write |
| `Outputs`, `Agrees`, `PlanAction` | the keys the outputs have after Create and after a read, and what `Diff` makes of them: a DNS record is seen only after a read, and then always differs; `subnet_cidr`, which would force a replacement, is in no outputs; `routing_mode` is never sent, so one that is configured differs for ever |
| `CreateNetwork`, `CreateSubnet`, `DropSubnet` | VPC Create; VPC Update deletes the subnet by name and creates it anew |
| `CreateZone`, `PatchZone`, `Upserting`, `CreateRecord`, `PatchRecord`, `ReadBack` | DNS Create and Update: the zone, then one record after another, each created or, on 409, patched |
| `Delete` | one call, refused while a network has its subnet or a zone has records |
| `OthersChange` | somebody else writes or removes a record |

Two facts of the code shape the properties. The real client never answers
`subnet_id`, so a VPC with a subnet cannot be deleted by the plugin (vpc.go:83 has
"Delete subnets first, then the network"), and a zone with records cannot either.
And a VPC whose Update was cut off between the two subnet calls never heals, as no
plan sees the missing subnet; hence `PartsKept` is about entries no call was cut
off on, and convergence is claimed of zones alone. Nor does a record come to rest that
one config gives twice: every plan after a read updates the zone, and every update
writes both values, one after the other (dns.go:113-117); the last one counts
(`Lasting`), and `AsConfigured` leaves such a config out.

### CloudRunRollout: rolling, blue-green, canary

| Model | Code |
|---|---|
| `revs`, `traffic` | the service. `CloudRunDeployClient` has no implementation in the repository; the service does what the interface's comments say |
| `canary`, `stable`, `green` | `canaryRevision`, `stableRevision`, `greenRevision`: memory a restart loses (0 is the empty name) |
| `host` | the rollout under way and the next client call of its handler |
| `home`, `trial`, `meddled` | history: the revisions that had traffic when the rollout began (two, where one before it was left split), the revision it was answered, whether another pipeline deployed since |
| `Update`, `CreateGreen`, `SwitchTraffic` | the rolling driver and blue-green (DestroyBlue does nothing) |
| `CreateCanary`, `CreateCanaryRevision`, `RoutePercent`, `PromoteCanary`, `DestroyCanary` | the canary driver; CreateCanary is two client calls with a field written after each |
| `Fails`, `Restart`, `OthersDeploy` | a call that fails, perhaps having taken effect; the process; another pipeline |

HealthCheck, CurrentImage, ReplicaCount and CheckMetricGate read and change
nothing: what a host does on their answer it may do at any time.

### ProviderLifecycle and JobRunner

| Model | Code |
|---|---|
| `project`, `assets`, `drivers`, `runner` | the fields of `GCPProvider`; nothing guards them. `drivers` has, of each type, the project and the credentials it was made with |
| `init[s]` | the Initialize of each concurrent caller: the account of its config, its next step and the type it has come to |
| `Initialize`, `MakeAssets`, `RegisterDriver`, `WireClient`, `MakeRunner` | Initialize in the order it assigns the fields, one driver after another; other RPCs and other Initialize calls run between any two. A client that cannot be made is no error: the asset client is dropped, a driver stays without one, the runner keeps the one before |
| `overlap` | history: whether Initialize calls overlapped, and none has run alone since |
| `Restarted`, `Dies` | a death of the plugin's process, of the Go runtime's check for concurrent map writes or otherwise; the new provider is not initialized |
| `rpc[c]`, `clock` | a RunJob and the client call it makes next; the nanosecond in the job's name, which two goroutines may share |
| `jobs`, `execs` | the cloud. `no` says whose command a job holds and which call asked for an execution (history) |
| `RunJob`, `CreateJob`, `RunCreated`, `AnswerRun` | RunJob: the parent is taken from the fields at the beginning, the client at each call, the handle's project at the end |
| `JobStatus`, `ExecutionState` | JobStatus and `gcpExecutionState` |
| `Starts` ... `Cancels` | the execution's task, and the completion time that is set after it |

### OwnershipLabels

| Model | Code |
|---|---|
| `labels`, `etag`, `index` | the cloud's labels, how often they were written, the asset inventory's lagging copy |
| `rpc[c]` | a driver Update that carries labels: read, then write |
| `Writes` | which client it is: Cloud Run sends the service it read with its etag, a bucket's labels are patched per key, Cloud SQL, Memorystore and Artifact Registry write the whole map back |
| `DriverRef`, `SetOwner`, `UpdateLabels` | the bare name of the reference, so the resource of that name in the provider's own region; SetOwner and an Apply that updates labels |
| `GetOwner`, `ListOwners`, `Named` | the search, which matches loosely, and the name comparison that narrows it |
| `wrote`, `had`, `crossed` | history: last value written to each label, owners an asset has had, assets overwritten with a map read earlier |

### CredentialModules, RequirementMapper, ConfigLoading

| Model | Code |
|---|---|
| `registry`, `Register`, `CreateCredentials` | `credref`: a second registration is an error, nothing unregisters |
| `module[s]`, `CreateStorage`, `Resolved` | a `storage.gcs` instance: credentials are resolved once, when it is created; inline ones win |
| `clients`, `Start`, `CloseClient`, `Stop` | the client a Start makes and a Stop closes; one that does not close is kept |
| `BeginPut`, `Copy`, `CloseWriter`, `DeleteObject` | Put takes the bucket handle under the mutex and uses it after; a failing reader closes the writer all the same |
| `Rejection` ... `MapRequirements` | the mapper's operators, as sets: backends, exporters, pipelines, environment, secrets, ports |
| `Ask`, `Take` | a host maps requirements before it loads modules |

The `MC...` modules hold the instances (`MCGcsStateStore` and `MCResourceDrivers`
several). The operators whose comment starts with "Mutant of" are plausible bugs of
the operator named; each property of a passing run has one that breaks it.

## 3 Runs

Passing runs:

| Run | What it asks | Bounds and why they are enough | States |
|---|---|---|---|
| `locking` | Do locks exclude, does a held lock stand, and is an abandoned one always a failure's doing? | One key, since locks of different keys share nothing but `lockState`; two sessions in one process and one in another, so that both the map race and the race for the object happen; one failed call, one death and three Configures (a replaced store and a restarted process) | 534k |
| `records` | Does the lock make the unconditional upload safe, and does the store implement `LockedState`? | Two sessions on two processes, one of which may restart; three generations (a save, and another's save that would lose it); one failed call, one death, and the requests of both landing late | 3.0M |
| `listing` | Is a listing complete while records come and go and the context may end? Is the record answered the one asked for? | Three IDs with names of their own, one of them empty, under one an object that is not JSON; three generations, so that two names may be filled or one replaced; a filter on a status and one on an ignored field | 2.0M |
| `shared_name` | Do entries and resources keep up when two unnamed buckets fall on one cloud name? | Two edits, two lost answers of Create or Update, one drift: enough for a Create to collide with the other's bucket, be repeated and be undone | 301k |
| `converge` | Do plans come to an end, is an answered Update an update, and does the inductive invariant of the proofs hold? | A named bucket, which needs replacement for one key and update for another, and may be retired, beside a database whose client does not wait; two edits, two lost answers of any call, one drift: a lost Create, a replacement that loses its Delete | 177k |
| `parts` | Does every entry lead to a whole VPC or zone, does nothing stray, do zones heal? | One VPC, with or without `subnet_id`, and one zone with two record sets, one record given two values, or a malformed list; two edits, so that a zone may be retired and wanted again; one call cut off anywhere, one record changed by others: each step of each handler is the last one somewhere | 741k |
| `rollout` | Does traffic stay between the old and the new revision, and does a rollback restore the old one? | Four revisions: a rollout that left one behind, a second that could mistake it, another pipeline's; three failures, one restart, so that a rollout may begin on the split traffic of one before it; shares below, at and above the limits | 281k |
| `jobs` | Does a handle lead to its own call's execution, and is what a poller was told true? | Two callers (who may read one nanosecond), two accounts, two Initializes, at once or not, one failure anywhere, one death | 1.46M |
| `provider` | Is a driver ever of two accounts, and does a poller learn the end? | Three Initializes of two callers, two of which may mix accounts for the third to put right; two types, so that calls may be at different ones; one job, one failure | 1.11M |
| `labels` | Which clients lose labels, and is an owner that is named the resource's own? | Two updates and one by somebody else over five kinds of writing, namesakes in two regions; one failure | 169k |
| `modules` | Do references and the registry agree, is a client or a truncated object left behind, does a derived collector hold together? | Two storage modules and two credentials under one name, two callers, three clients, two Puts, two failures; every set of signals and backends, alone and beside each kind of requirement | 829k |

In `converge` and `parts` the resources are named, because an unnamed one whose
Create lost its answer cannot be imported. A Delete that lost its answer leaves an
entry whose repeated Delete answers "not found" for ever (only the GKE driver takes
that for success) and the host cannot tell: `Converges` excuses an entry in doubt, and
`ZonesConverge` such an entry of a zone that is gone (`LeftOver`).
The exceptions in other properties are of the same kind, each said in its comment:
labels under a client that writes the whole map back, a service another pipeline
deploys to, Initialize calls that overlapped, a runner that changed its account.

The system may stop in every run: the bounds of edits, faults,
epochs, calls and generations end every behaviour, so `CHECK_DEADLOCK FALSE` stands in
the configurations; that calls do not get stuck is what `converge`,
`parts` and `provider` ask. The handlers of the state backend and of the rollout
drivers are finite sequences of client calls that wait for nobody, so no liveness is
checked of them: it would restate that each call ends. The configurations with `SYMMETRY` check no
liveness.

The run that shows a disagreement, `path_id`, is in section 6.

The properties, in words, stand before their definitions at the end of each module
(`ProviderLifecycle` and `ConfigLoading` included).

## 4 Fairness

* `FairSpec` of `ResourceDrivers`: weak fairness of handlers, of operations, and of the host applying its plan or Destroy; strong fairness of Refresh and Import, which compete with the other calls of a resource: a host that refreshes before it plans. Nothing is fair about edits, lost answers or drift, and they are bounded.
* `FairSpec` of `PartedDrivers`: of zones only, which alone are claimed to converge; as in `ResourceDrivers`, with each handler going on; the host's next plan (`Start`) is strongly fair, as it competes with its own refreshes.
* `FairSpec` of `JobRunner`: the handlers of RunJob and of each caller's Initialize go on, executions end, and the host polls each handle it was given; it need not begin anything. Weak fairness is enough, as none of these is ever disabled by another for good.

## 5 Proofs

Proved for every value of the constants that satisfies the modules' assumptions.

**State backend** (`GcsStateStoreProofs`: types and locks; `GcsUpdateProofs`: changes,
reads and the refinement). `TypesHold` proves the type invariant; it needs `TypeCorrect`,
which adds which step belongs to which RPC. Four results hold under the assumption
that hosts are disciplined (they unlock and write only what they hold, and do not
repeat an Unlock). `LockExcludes`, `LockCorrect` and `HeldLocksStand` prove mutual
exclusion and that a held lock stands. Neither is inductive alone, because a removal
may be under way or late: `LockInv` adds that whoever is acquiring or releasing
still owns the lock object it found (`ClaimsStand`), that a late removal is one
whose sender no longer holds the lock and whose object still stands
(`LateRemovals`), and that there is one of each at most (`OneLateRemoval`).
`UpdatesAreKept` and `ObjectsStay` build on it: a write under way or late belongs to
the holder of the lock or is in doubt (the lemma `ChangesAreLocked`), hence what a
holder has read stays as it is, and an object it found does not vanish between two
client calls. `StoreKeepsPromise` is the refinement of `LockedState`: every step of the
store is a step of the promise or a stutter.

Three results need no discipline. `OrphansNeedFaults`: an abandoned lock object is a
failure's doing; its invariant (`OrphanInv`) gives each lock object, until the first
failure, to a session that holds it or claims it, and says that an RPC at "create" is
a Lock. `ListingsAreComplete` and `AnswersAreOfTheId` share `ReadInv`: a record lies
under its own ID's name and no younger than the bucket's generation, and each record
that a listing owes its caller is in what it has or in what it has still to read. A
record replaced in between has a generation above the listing's, which is why a
concurrent writer cannot falsify it. The first needs `SureReads` (no read that fails
for a moment: with one it is false, section 6), the second `NamesDiffer` (no two IDs
with one sanitized name).

**Resources** (`ResourceDriversProofs`). `TypesStand` proves
the type invariant. `EntriesAndPlacesFit`, `EntriesAreBacked` and
`NothingIsForgotten` prove `KeptInv`, `StateIsBacked` and `NothingForgotten` for any set of
resources, under two hypotheses:

* `WellBehaved`: the client of each type answers the bare name and waits, and the driver reports errors. `FourAreWellBehaved` proves it of buckets, forwarding rules, firewall rules and certificates. The other types are outside the theorem because they are outside the truth: see section 6, or, for Cloud SQL, because an accepted deletion goes on after its answer.
* `Separate`: no answer of Delete is lost, or every config gives its name. Without it the theorem fails: with two unnamed buckets and a lost Delete, the second bucket takes the cloud name, and the entry of the first, still kept, leads to it.

The inductive invariant is `KeptInv`, whose seven parts relate entries, places and
calls: an entry leads to the one place its resource can have; what stands there
belongs to a resource of that place, and is in doubt or has its entry; only a
Delete that lost its answer leaves a removal under way; and Create is called
without an entry, Update and Delete with one. The argument is local: a step touches
one resource's entry, call and doubt and one place, so `Local` reduces the
invariant to what it says of that resource and place, and there is one lemma per
step.

`UpdatesTakeEffect` proves the action property `UpdateTakesEffect` under the same
hypotheses for clients that are `Candid`: each key their get call answers is sent by
the update call, or its change replaces the resource. An Update compares nothing
with the cloud, so the theorem needs to know why the keys it does not send agree all
the same: `EffectInv` says that an operation under way alters only keys that are sent
(`Steady`), that outputs which have keys at all tell the others as they are
(`OutputsTell`), and that the config of an Update therefore agrees with them
(`UpdateFits`). `ThreeAreCandid` proves it of buckets, forwarding rules and
certificates, and that firewall rules are not: their Update sends nothing (section 6).

**Resources with parts** (`PartedDriversProofs`). `PartedTypes` holds of every
instance; its invariant says which step belongs to which RPC of which type
(`StepFits`), since a step reads the config of its call. `PartsAreKept` and
`NothingIsStray` prove `PartsKept` and `NothingStray` for any configs, edits, cuts and
writers of records, under two hypotheses:

* `Named`: every config gives the name. Unnamed zones share the name their client falls back to: one whose Delete lost its answer keeps an entry, which then leads to the other's zone.
* `OwnSubnets`: a `subnet_id` names the VPC's own subnet. Update drops the subnet of that name, whichever network it is of.

The invariant `PartsInv` says of each resource what the steps of its call have already
made (`VPCKept`: the subnet, except between dropping and creating it; `ZoneKept`: the
first m of a config's records, when m are written), where its entry leads and what it
may find standing (`Placed`, `Known`). A record that a later one of the same list
overwrites need not hold its value, so `HoldTo` speaks of the last of each name. As
above, a step concerns one resource and its place.

**Rollouts** (`CloudRunRolloutProofs`). `RolloutTypes`, `TrafficStaysBetween`,
`MemoryStaysFit` and `RollbacksRestore`, for any images, shares and bounds. The
invariant `RolloutInv` joins the type invariant, what the drivers remember
(`MemoryFits`) and where traffic goes (`OnlyHomeOrTrialServes`), which need each
other: RoutePercent sends traffic where memory says, and CreateCanary remembers
where traffic goes. `home` is whatever served when the rollout began, one revision
or two: the rollback of a canary begun on split traffic may go to either. `Begun` adds that a rollout was
answered no revision before its first call, so that until then nothing but `home`
serves, which CreateCanary's question relies on.

**Labels** (`OwnershipLabelsProofs`). `LabelTypes`, `LabelsAreKept`,
`CarefulClientsKeepLabels` and `OwnersAreTrue`, for any resources and callers. The
invariant adds to the three properties that a write that will not be refused carries
a map nobody has changed since (`ReadsAreFresh`), that only whole-map clients cross
(`CrossedAreWhole`), and that the cloud's and the inventory's owners are in the
history (`OwnersAreHad`).

**Jobs** (`JobRunnerProofs`). `JobTypes`, `ProviderWorksForOneAccount`,
`HandlesAreTheCallsOwn`, `EndsAreTrue`, and `CommandsRunOnce` (no two executions were
asked for by one call), for any accounts, callers, resource types, failures, deaths and
clashing names, with no hypothesis beyond the modules'. Initialize calls may overlap, and
then mix accounts; as long as none did, the fields follow the account of the one under way
as far as it has come, and a driver it has not come to is still wholly of the one before
(`FieldsFollow`, which also says what a lone call has put right so far). A handle is its call's own although
two calls may draw one name: the second Create is refused, so a job belongs to the call
whose command it holds (`NamesAreOwn`), an execution to a job with its call's command
(`ExecsAreOwn`), and an execution to one call, which answers one handle (`CallsDiffer`,
`ExecsKnown`, `HandlesAreOwn`). Reports stay true because a task is counted once
(`CountsFit`), and its end never taken back.

**Modules and mapper** (`ConfigLoadingProofs`, about `LoadSpec`, the composition).
`ModulesTypes`, `ReferencesStand`, `OpenClientsAreKept`, `PartsAreTold`,
`CollectorsHoldTogether` and `TelemetryReaches`, for any modules, names, requirements
and failures. `ModulesInv` adds that a module's client has been made
(`ClientsAreMade`), that a module the host regards as stopped has none (`DownHasNone`),
that a Put under way is unanswered and no other's (`PutsAreOpen`, `PutsDiffer`), and that
a part of an object is there only once its Put answered an error (`PartHasError`). Of the mapper, `AnswerInv` says that an
answer is what `MapRequirements` makes of the request; the two theorems about collectors
are then facts of its operators alone, for lists of any length whose signals and backends
the mapper knows (`RequirementsAssumption`), where the run enumerates short ones.

**Only model-checked**: liveness (`Converges`, `ZonesConverge`, `EndIsReported`), which is outside the prover's
reach, and the violation. Every safety property of a passing run is a theorem; where one
has hypotheses, an instance outside them is checked as far as the property holds
there (`shared_name` repeats unnamed buckets with lost answers other than Delete's). The
branch of `CreateCall` for a GKE cluster that exists already is in the model and the
type proof, but no passing run takes it: no instance with a cluster has a property to
pass, since its first Create already answers an identifier of something else. The
mutant `GCSDriverAdopts` gives the bucket driver that branch, and breaks
`StateIsBacked`.

## 6 Where the code and its words disagree

The run `path_id` checks a property the repository's words imply, and TLC answers
the behaviour that violates it: Cloud Run (as Memorystore, Artifact Registry, API
Gateway and IAM) answers a path as ProviderID that its other calls wrap in a path
again, though provider.go:162 declares all the operations for it.

The models contain more of them, for which no run is kept because a constant or one
definition already shows each:

* One transient read failure silently drops a record from a listing (gcs.go:206-210; the comment at :203 rules partial results out, :50 promises all records): with "transient" in `Faults`, `ListIsComplete` fails in `MCListing`.
* Two goroutines write `lockState` without a mutex (gcs.go:245 and :258; :107 speaks of race-free locking): the action `MapRace` is taken in `locking`.
* A repeated Unlock removes the lock another session acquired meanwhile, as the delete has no precondition (gcs.go:252; :55 promises an exclusive lock): with `RetryUnlock = TRUE`, `MutualExclusion` fails in `MCLocking`.
* GKE answers the create operation's name as ProviderID (real_clients.go:179); Delete by it is "not found", which gke.go:171-172 takes for an already-gone cluster, and the cluster stands: the branch of `DeleteCall`.
* "/" and "_" in IDs give one object name (gcs.go:63), so GetState of one ID answers another's record (gcs.go:46): `AnswersTheIdAsked` fails as soon as `SanitizeID` is not injective.
* A record deleted between the two calls of GetState is an error, not "not found" (gcs.go:277 and :46): the last branch of `GetRead`. `StaysBetweenCalls` says it of no caller that has the lock.
* An unnamed GKE cluster that exists already is answered under the spec's name (gke.go:76), and was created as "cluster" (real_clients.go:152-155): the second branch of `CreateCall`.
* Update of a firewall rule sends nothing and answers success (real_clients.go:936): `FirewallClient.updates` is empty, and `UpdateTakesEffect` fails of it.
* DetectDrift answers "not drifted" for a resource it did not find (provider.go:296; iacserver.go:234-235 calls it an existence check): the ELSE of `Refresh`.
* A certificate's domain is configured as a string and shown as a list, so every plan after a refresh replaces the certificate: `SSLClient.garbles`.
* vpc.go:83 says "Delete subnets first, then the network", and takes the subnet from a read that never answers it: `NetworkShown` and `Delete` of `PartedDrivers`.
* provider.go:84-85 says a driver without a client fails at call time; the nil client is dereferenced, so the call panics. The model has the driver without a client (`Registered`) and no call on it.
* Two Initialize calls at once share the fields, as nothing serialises them (provider.go:52-92): one may set the project between the other's project and its drivers, which are then made for the project of the first with the credentials of the second, and stay so until an Initialize that runs alone: `overlap = "mixed"`, without which `OneAccount` fails in `MCProvider`.
* A zone whose Delete took effect without an answer keeps its entry; Delete of it is "not found" ever after, and once it is wanted again its plans are updates, which fail too: `LeftOver` in `ZonesConverge`.
* A later Initialize that cannot make the runner's client keeps the previous account's (provider.go:88-90), though every other field is replaced: `MakeRunner`. That is why `OneAccount` leaves the runner out, and `EndIsReported` excuses a provider that works for another account. For the same reason the project a handle names, read at the end of RunJob, may be another than the job's.
* A cancelled execution stays "pending" (runner.go:229): the last branch of `ExecutionState`.
* SetOwner labels the resource of that name in the provider's region, whichever region the reference named (ownership.go:143): `DriverRef`.
* A requirement whose backends take none of its signals is accepted and yields a collector without that pipeline, with no diagnostic (iacserver_mapper.go:249): the exceptions of `TelemetryArrives`. And the derived service's environment, secrets, ports and command reach a Cloud Run client that sends the image only (`CloudRunClient.sets`).

## 7 Abstractions and what is not modelled

* A record is its ID and status; the conversion between protobuf and `IaCState` has no state and no decision beyond the errors that `Rejected` stands for.
* `storage.Conditions{GenerationMatch: 0}` is taken as the comment at gcs.go:234 states it. How the library reads the zero value is not in this repository.
* Keys carry the configured prefix as a component: prefixes of which one begins with the other are not modelled.
* A replaced storage client is not closed; no counter of clients is kept.
* Config values are model values in the form the API answers them (a location "US", not "us"); a key that is shown in another form has the value `Other`, whatever was configured.
* Config reaches the plugin as JSON, so a number is a float64 and a list a `[]any`: keys a client reads only as `int` or `[]string` (`node_count`, `memory_size_gb`, a list of `domains`, `permissions`) are never sent, and the table leaves them out.
* The cloud refuses a second call while an operation runs, and names one resource of a type by one name. Projects and regions are one each.
* Refused or read-only driver methods (Scale where it is not one more update, HealthCheck, SensitiveKeys) change nothing and are left out; so are a GKE cluster's per-call credentials.
* An unnamed resource is not imported by the host: Import makes an entry under the cloud's name, which is not the resource's.
* The region and zone of an Initialize are set with its project, in one step. Of the data races on the provider's fields and its map, the orders in which they are seen and the death of the process are modelled, a torn value is not.
* An Update of a load balancer without a target sends an empty one (real_clients.go:595); the table takes it for one that changes nothing.
* A mapping request for another provider is an error (iacserver_mapper.go:26-28) and not among the requests asked.
* Close drops the asset client and nothing calls it. Pages of an asset search are one answer.
* The host starts only storage modules it regards as stopped: a Start over a live client would leave that client open.
* DNS record types, TTLs and the conversion of their data are a name and a value.
* Sizing (`provider/sizing.go`) is a table lookup with a clamp per hint: no state and no order of steps, and its unit tests enumerate it.
* Generated code and wiring have no behaviour of their own.

## 8 Plan

Done: the state backend with its abstract promise, the one-part and the parted
drivers with plan and apply, rollouts, the provider's fields with the job runner,
ownership labels, modules and the requirement mapper; and for each a proof module that
states the safety properties its runs check.

Left, in this order:

1. An abstract promise of the resource drivers, as `LockedState` is one of the store: what a host may rely on of an entry, implemented by `ResourceDrivers` under `WellBehaved`.
2. `StateIsBacked` and `NothingForgotten` for Cloud SQL, whose accepted deletion goes on after its answer: what remains true of a client that does not wait.
3. An unnamed zone and an unnamed network in `MCPartedDrivers`, which fall on one cloud name as unnamed buckets do, and what `PartsKept` becomes without `Named`.
4. `Sizing`, should it come to hold more than a table.
