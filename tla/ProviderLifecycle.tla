-------------------------- MODULE ProviderLifecycle --------------------------
(***************************************************************************)
(* Initialize: the provider's fields and its map of drivers are written    *)
(* one after the other, with no mutex, so that handlers of two Initialize  *)
(* calls interleave and other RPCs see the provider half way.  A client    *)
(* that cannot be made is no error of Initialize: drivers are left without *)
(* one, the asset client is left out, and the runner's is kept as it was.  *)
(* The plugin's process may die, of the Go runtime's check for concurrent  *)
(* writes of a map or otherwise, and a new one is not initialized.         *)
(***************************************************************************)
EXTENDS Naturals

CONSTANTS
    Account,    \* a project with its region and credentials
    NoProject,  \* an Initialize config without a project_id
    Setter,     \* concurrent callers of Initialize
    Types,      \* how many resource types have a driver: 1..Types, in the order they are set
    None,       \* no client, no project, no driver
    MaxInits,   \* bound: Initialize calls
    MaxFaults,  \* bound: clients that cannot be made, and client calls that fail
    MaxDeaths   \* bound: deaths of the process

ASSUME LifecycleAssumption ==
    /\ NoProject \notin Account /\ None \notin Account /\ Types \in Nat \ {0}
    /\ MaxInits \in Nat /\ MaxFaults \in Nat /\ MaxDeaths \in Nat

VARIABLES
    project,  \* projectID, with region and zone, which follow it at once
    assets,   \* ownershipAssets: the account of its client
    drivers,  \* the driver of each type: its project and the account of its client
    runner,   \* runnerClient: the account of its client
    init,     \* the Initialize of each setter: its next step, and the next type
    overlap,  \* history: "mixed" by calls that overlapped, "mending" in one after, or "none"
    inits, faults, deaths

provider == <<project, assets, drivers, runner>>
lifecycle == <<provider, init, overlap, inits, deaths>>

NoDriver == [project |-> None, client |-> None]
Ready == [at |-> "idle", account |-> None, next |-> 1]

LifecycleInit ==
    /\ project = None /\ assets = None /\ runner = None
    /\ drivers = [t \in 1..Types |-> NoDriver]
    /\ init = [s \in Setter |-> Ready] /\ overlap = "none"
    /\ inits = 0 /\ faults = 0 /\ deaths = 0

Initializing(s) == init[s].at # "idle"
Alone(s) == \A other \in Setter \ {s} : ~Initializing(other)

Fault == faults < MaxFaults /\ faults' = faults + 1

\* A client for the account, or the fallback when it cannot be made.
Made(client, account, fallback) ==
    \/ client' = account /\ UNCHANGED faults
    \/ Fault /\ client' = fallback

Initialize(s, account) ==
    /\ ~Initializing(s)
    /\ \/ /\ account \in Account /\ inits < MaxInits /\ inits' = inits + 1
          /\ project' = account
          /\ init' = [init EXCEPT ![s] = [at |-> "assets", account |-> account, next |-> 1]]
          /\ overlap' = IF ~Alone(s) THEN "mixed"
                        ELSE IF overlap = "none" THEN "none" ELSE "mending"
       \/ account = NoProject /\ UNCHANGED <<project, init, overlap, inits>>
    /\ UNCHANGED <<assets, drivers, runner, faults, deaths>>

MakeAssets(s) ==
    /\ init[s].at = "assets" /\ Made(assets, init[s].account, None)
    /\ init' = [init EXCEPT ![s].at = "register"]
    /\ UNCHANGED <<project, drivers, runner, overlap, inits, deaths>>

\* One type after another, and then the next step of Initialize.
NextType(s, step) ==
    \/ init[s].next < Types /\ init' = [init EXCEPT ![s].next = init[s].next + 1]
    \/ init[s].next = Types /\ init' = [init EXCEPT ![s].at = step, ![s].next = 1]

\* Mutant of Registered: a driver that is there is moved to the project.
RegisteredInPlace(t) == [drivers[t] EXCEPT !.project = project]

\* The driver of a type without a client, for the project the provider has by then.
Registered(t) == [project |-> project, client |-> None]

RegisterDriver(s) ==
    /\ init[s].at = "register"
    /\ drivers' = [drivers EXCEPT ![init[s].next] = Registered(init[s].next)]
    /\ NextType(s, "wire")
    /\ UNCHANGED <<project, assets, runner, overlap, inits, faults, deaths>>

\* Another one with a client of the call's credentials, where that can be made.
WireClient(s) ==
    /\ init[s].at = "wire"
    /\ \/ /\ drivers' = [drivers EXCEPT ![init[s].next] =
                            [project |-> project, client |-> init[s].account]]
          /\ UNCHANGED faults
       \/ Fault /\ UNCHANGED drivers
    /\ NextType(s, "runner")
    /\ UNCHANGED <<project, assets, runner, overlap, inits, deaths>>

MakeRunner(s) ==
    /\ init[s].at = "runner" /\ Made(runner, init[s].account, runner)
    /\ init' = [init EXCEPT ![s] = Ready]
    /\ overlap' = IF overlap = "mending" THEN "none" ELSE overlap
    /\ UNCHANGED <<project, assets, drivers, inits, deaths>>

InitializeStep(s) == MakeAssets(s) \/ RegisterDriver(s) \/ WireClient(s) \/ MakeRunner(s)

\* The process dies and the host starts another, whose provider is New().
Restarted ==
    /\ deaths < MaxDeaths /\ deaths' = deaths + 1
    /\ project' = None /\ assets' = None /\ runner' = None
    /\ drivers' = [t \in 1..Types |-> NoDriver]
    /\ init' = [s \in Setter |-> Ready] /\ overlap' = "none"
    /\ UNCHANGED <<inits, faults>>

LifecycleTypeOK ==
    /\ project \in Account \cup {None} /\ assets \in Account \cup {None}
    /\ runner \in Account \cup {None}
    /\ drivers \in [1..Types -> [project : Account \cup {None}, client : Account \cup {None}]]
    /\ init \in [Setter -> [at : {"idle", "assets", "register", "wire", "runner"},
                            account : Account \cup {None}, next : 1..Types]]
    /\ overlap \in {"none", "mixed", "mending"}
    /\ inits \in 0..MaxInits /\ faults \in 0..MaxFaults /\ deaths \in 0..MaxDeaths

\* Where Initialize calls do not overlap, a handler that picks up a driver, between calls or
\* during one, gets one of a single account: its client has the credentials of the project it
\* works in, or there is none.  Between calls every driver and the asset client are of the
\* project last initialized for.  Overlapping calls may mix accounts; the next one that runs
\* alone puts that right, whichever clients it fails to make.
OneAccount ==
    /\ overlap = "none" => \A t \in 1..Types : drivers[t].client \in {None, drivers[t].project}
    /\ (overlap # "mixed" /\ project # None /\ \A s \in Setter : ~Initializing(s)) =>
          /\ assets \in {None, project}
          /\ \A t \in 1..Types : drivers[t].project = project /\ drivers[t].client \in {None, project}
=============================================================================
