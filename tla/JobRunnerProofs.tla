---------------------------- MODULE JobRunnerProofs ----------------------------
(***************************************************************************)
(* Whose account the provider works for, whose execution a handle leads to *)
(* and what is reported of it, for any accounts, callers, commands,        *)
(* failures and colliding job names.                                       *)
(***************************************************************************)
EXTENDS JobRunner, FiniteSetTheorems, SequenceTheorems, TLAPS

-----------------------------------------------------------------------------
(* The provider's fields *)

DriverType == [project : Account \cup {None}, client : Account \cup {None}]
InitType == [at : {"idle", "assets", "register", "wire", "runner"},
             account : Account \cup {None}, next : 1..Types]

\* A driver of the project the provider works in.
OfProject(t) == drivers[t].project = project /\ drivers[t].client \in {None, project}

\* The drivers an Initialize has come to.
Reached(s, t) == \/ init[s].at \in {"wire", "runner"}
                 \/ init[s].at = "register" /\ t < init[s].next

\* Unless calls have overlapped, the one under way has its own project in the fields it has come
\* to; after it all of them have.  No driver is ever of two accounts.
FieldsFollow ==
    /\ \A s \in Setter : Initializing(s) =>
          init[s].account \in Account /\ (init[s].at = "assets" => init[s].next = 1)
    /\ overlap # "mixed" =>
          \A s \in Setter : Initializing(s) =>
             /\ Alone(s) /\ project = init[s].account
             /\ init[s].at # "assets" => assets \in {None, project}
             /\ \A t \in 1..Types : Reached(s, t) => OfProject(t)
    /\ (overlap # "mixed" /\ \A s \in Setter : ~Initializing(s)) =>
          assets \in {None, project} /\ \A t \in 1..Types : OfProject(t)
    /\ overlap = "none" => \A t \in 1..Types : drivers[t].client \in {None, drivers[t].project}

LifecycleInv == LifecycleTypeOK /\ FieldsFollow

\* A provider that is not initialized.
LEMMA LifecycleInvNew ==
    ASSUME project = None, assets = None, runner = None, drivers = [t \in 1..Types |-> NoDriver],
           init = [s \in Setter |-> Ready], overlap = "none",
           inits \in 0..MaxInits, faults \in 0..MaxFaults, deaths \in 0..MaxDeaths
    PROVE  LifecycleInv
<1>1. Ready \in InitType /\ Ready.at = "idle" /\ NoDriver \in DriverType
      /\ NoDriver.project = None /\ NoDriver.client = None
  BY LifecycleAssumption DEF Ready, NoDriver, InitType, DriverType
<1>2. init \in [Setter -> InitType] /\ drivers \in [1..Types -> DriverType]
  BY <1>1
<1>3. \A s \in Setter : ~Initializing(s)
  BY <1>1 DEF Initializing
<1>4. \A t \in 1..Types : drivers[t].project = None /\ drivers[t].client = None
  BY <1>1
<1> QED
  BY <1>2, <1>3, <1>4 DEF LifecycleInv, LifecycleTypeOK, FieldsFollow, InitType, DriverType, OfProject

LEMMA LifecycleInvInit == LifecycleInit => LifecycleInv
BY LifecycleInvNew, LifecycleAssumption DEF LifecycleInit

LEMMA RestartedStep == ASSUME LifecycleInv, Restarted  PROVE LifecycleInv'
<1>1. /\ project' = None /\ assets' = None /\ runner' = None /\ overlap' = "none"
      /\ drivers' = [t \in 1..Types |-> NoDriver] /\ init' = [s \in Setter |-> Ready]
      /\ inits' \in 0..MaxInits /\ faults' \in 0..MaxFaults /\ deaths' \in 0..MaxDeaths
  BY LifecycleAssumption DEF Restarted, LifecycleInv, LifecycleTypeOK
<1>2. Ready \in InitType /\ Ready.at = "idle" /\ NoDriver \in DriverType
      /\ NoDriver.project = None /\ NoDriver.client = None
  BY LifecycleAssumption DEF Ready, NoDriver, InitType, DriverType
<1>3. init' \in [Setter -> InitType] /\ drivers' \in [1..Types -> DriverType]
  BY <1>1, <1>2
<1>4. \A s \in Setter : ~Initializing(s)'
  BY <1>1, <1>2 DEF Initializing
<1>5. \A t \in 1..Types : drivers'[t].project = None /\ drivers'[t].client = None
  BY <1>1, <1>2
<1> QED
  BY <1>1, <1>3, <1>4, <1>5
  DEF LifecycleInv, LifecycleTypeOK, FieldsFollow, InitType, DriverType, OfProject

\* A step that counts a fault, or none.
LEMMA FaultCounts ==
    ASSUME faults \in 0..MaxFaults, Fault \/ UNCHANGED faults
    PROVE  faults' \in 0..MaxFaults
BY LifecycleAssumption DEF Fault

LEMMA InitializeBegins ==
    ASSUME LifecycleInv, NEW s \in Setter, NEW account \in Account \cup {NoProject},
           Initialize(s, account)
    PROVE  LifecycleInv'
<1> USE DEF LifecycleInv
<1>0. UNCHANGED <<assets, drivers, runner, faults, deaths>> /\ ~Initializing(s)
  BY DEF Initialize
<1>1. CASE UNCHANGED <<project, init, overlap, inits>>
  BY <1>0, <1>1 DEF LifecycleTypeOK, FieldsFollow, Initializing, Alone, Reached, OfProject
<1>2. CASE /\ account \in Account /\ inits < MaxInits /\ inits' = inits + 1
           /\ project' = account
           /\ init' = [init EXCEPT ![s] = [at |-> "assets", account |-> account, next |-> 1]]
           /\ overlap' = IF ~Alone(s) THEN "mixed"
                         ELSE IF overlap = "none" THEN "none" ELSE "mending"
  <2> DEFINE begun == [at |-> "assets", account |-> account, next |-> 1]
  <2>1. begun \in InitType /\ begun.at = "assets" /\ begun.account = account
        /\ begun.next = 1
    BY <1>2, LifecycleAssumption DEF InitType
  <2>2. init' = [init EXCEPT ![s] = begun] /\ init \in [Setter -> InitType]
    BY <1>2 DEF LifecycleTypeOK, InitType
  <2> HIDE DEF begun
  <2>3. /\ init' \in [Setter -> InitType] /\ init'[s] = begun
        /\ \A other \in Setter \ {s} : init'[other] = init[other]
    BY <2>1, <2>2
  <2>4. inits' \in 0..MaxInits
    BY <1>2, LifecycleAssumption DEF LifecycleTypeOK
  <2>5. LifecycleTypeOK'
    BY <1>0, <1>2, <2>3, <2>4 DEF LifecycleTypeOK, InitType
  <2>6. \A x \in Setter : Initializing(x)' =>
           init'[x].account \in Account /\ (init'[x].at = "assets" => init'[x].next = 1)
    BY <1>2, <2>1, <2>3 DEF FieldsFollow, Initializing
  <2>7. overlap' # "mixed" =>
           \A x \in Setter : Initializing(x)' =>
              /\ Alone(x)' /\ project' = init'[x].account
              /\ init'[x].at # "assets" => assets' \in {None, project'}
              /\ \A t \in 1..Types : Reached(x, t)' => OfProject(t)'
    <3> SUFFICES ASSUME overlap' # "mixed", NEW x \in Setter, Initializing(x)'
                 PROVE  /\ Alone(x)' /\ project' = init'[x].account
                        /\ init'[x].at # "assets" => assets' \in {None, project'}
                        /\ \A t \in 1..Types : Reached(x, t)' => OfProject(t)'
      OBVIOUS
    <3>1. Alone(s)
      BY <1>2
    <3>2. x = s
      BY <2>3, <3>1 DEF Alone, Initializing
    <3>3. Alone(s)'
      BY <2>3, <3>1 DEF Alone, Initializing
    <3> QED
      BY <1>2, <2>1, <2>3, <3>2, <3>3 DEF Reached
  <2>8. Initializing(s)'
    BY <2>1, <2>3 DEF Initializing
  <2>9. overlap' = "none" => \A t \in 1..Types : drivers'[t].client \in {None, drivers'[t].project}
    BY <1>0, <1>2 DEF FieldsFollow
  <2> QED
    BY <2>5, <2>6, <2>7, <2>8, <2>9 DEF FieldsFollow
<1> QED
  BY <1>1, <1>2 DEF Initialize

\* An Initialize under way goes on to another step or to another type, and a field it has come
\* to is of its own account.
LEMMA GoesOn ==
    ASSUME LifecycleInv, NEW s \in Setter, Initializing(s),
           NEW new \in InitType, init' = [init EXCEPT ![s] = new], new.at \in {"register", "wire", "runner"},
           new.account = init[s].account,
           UNCHANGED <<project, overlap, inits, deaths>>,
           runner' \in Account \cup {None}, assets' \in Account \cup {None},
           faults' \in 0..MaxFaults, drivers' \in [1..Types -> DriverType],
           overlap # "mixed" =>
              /\ assets' \in {None, project}
              /\ \A t \in 1..Types : Reached(s, t)' => OfProject(t)'
              /\ \A t \in 1..Types : drivers'[t] # drivers[t] => OfProject(t)'
    PROVE  LifecycleInv'
<1> USE DEF LifecycleInv
<1>1. init \in [Setter -> InitType] /\ init[s].account \in Account
  BY DEF LifecycleTypeOK, InitType, FieldsFollow
<1>2. /\ init' \in [Setter -> InitType] /\ init'[s] = new
      /\ \A other \in Setter \ {s} : init'[other] = init[other]
  BY <1>1
<1>3. LifecycleTypeOK'
  BY <1>2 DEF LifecycleTypeOK, InitType, DriverType
<1>4. \A x \in Setter : Initializing(x)' <=> Initializing(x)
  BY <1>2 DEF Initializing
<1>5. \A x \in Setter : Initializing(x)' =>
         init'[x].account \in Account /\ (init'[x].at = "assets" => init'[x].next = 1)
  BY <1>1, <1>2, <1>4 DEF FieldsFollow
<1>6. overlap' # "mixed" =>
         \A x \in Setter : Initializing(x)' =>
            /\ Alone(x)' /\ project' = init'[x].account
            /\ init'[x].at # "assets" => assets' \in {None, project'}
            /\ \A t \in 1..Types : Reached(x, t)' => OfProject(t)'
  <2> SUFFICES ASSUME overlap # "mixed", NEW x \in Setter, Initializing(x)
               PROVE  /\ Alone(x)' /\ project' = init'[x].account
                      /\ init'[x].at # "assets" => assets' \in {None, project'}
                      /\ \A t \in 1..Types : Reached(x, t)' => OfProject(t)'
    BY <1>4
  <2>1. x = s
    BY DEF FieldsFollow, Alone
  <2>2. Alone(s)' /\ project = init[s].account
    BY <1>4 DEF FieldsFollow, Alone
  <2> QED
    BY <1>2, <2>1, <2>2
<1>7. overlap' = "none" => \A t \in 1..Types : drivers'[t].client \in {None, drivers'[t].project}
  <2> SUFFICES ASSUME overlap = "none", NEW t \in 1..Types
               PROVE  drivers'[t].client \in {None, drivers'[t].project}
    OBVIOUS
  <2>1. CASE drivers'[t] = drivers[t]
    BY <2>1 DEF FieldsFollow
  <2>2. CASE drivers'[t] # drivers[t]
    BY <2>2 DEF OfProject
  <2> QED
    BY <2>1, <2>2
<1> QED
  BY <1>3, <1>4, <1>5, <1>6, <1>7 DEF FieldsFollow

\* The next type, or the first one again for the next step.
LEMMA NextTypeGoes ==
    ASSUME LifecycleTypeOK, NEW s \in Setter, NEW step \in {"wire", "runner"}, NextType(s, step)
    PROVE  \E new \in InitType :
              /\ init' = [init EXCEPT ![s] = new] /\ new.account = init[s].account
              /\ init'[s] = new
              /\ \/ new.at = step /\ init[s].next = Types
                 \/ new.at = init[s].at /\ new.next = init[s].next + 1 /\ init[s].next < Types
<1> DEFINE old == init[s]
<1>1. old \in InitType /\ Types \in Nat \ {0} /\ old.next \in 1..Types
      /\ init \in [Setter -> InitType]
  BY LifecycleAssumption DEF LifecycleTypeOK, InitType
<1>2. CASE old.next = Types /\ init' = [init EXCEPT ![s].at = step, ![s].next = 1]
  <2> DEFINE mid == [old EXCEPT !.at = step]
             new == [mid EXCEPT !.next = 1]
  <2>1. mid \in InitType /\ mid.at = step /\ mid.account = old.account
    BY <1>1 DEF InitType
  <2>2. init' = [init EXCEPT ![s] = new]
    BY <1>1, <1>2
  <2> HIDE DEF mid
  <2>3. new \in InitType /\ new.at = mid.at /\ new.account = mid.account
    BY <1>1, <2>1 DEF InitType
  <2> HIDE DEF new
  <2> QED
    BY <1>1, <1>2, <2>1, <2>2, <2>3
<1>3. CASE old.next < Types /\ init' = [init EXCEPT ![s].next = init[s].next + 1]
  <2> DEFINE new == [old EXCEPT !.next = old.next + 1]
  <2>1. /\ new \in InitType /\ new.at = old.at /\ new.account = old.account
        /\ new.next = old.next + 1
    BY <1>1, <1>3 DEF InitType
  <2>2. init' = [init EXCEPT ![s] = new]
    BY <1>1, <1>3
  <2> HIDE DEF new
  <2> QED
    BY <1>1, <1>3, <2>1, <2>2
<1> QED
  BY <1>2, <1>3 DEF NextType

LEMMA MakeAssetsStep == ASSUME LifecycleInv, NEW s \in Setter, MakeAssets(s)  PROVE LifecycleInv'
<1> USE DEF LifecycleInv
<1> DEFINE new == [init[s] EXCEPT !.at = "register"]
<1>1. /\ init[s] \in InitType /\ Initializing(s) /\ init[s].account \in Account
      /\ faults' \in 0..MaxFaults /\ assets' \in {None, init[s].account}
      /\ UNCHANGED <<project, drivers, runner, overlap, inits, deaths>>
  BY FaultCounts DEF MakeAssets, Made, Initializing, LifecycleTypeOK, InitType, FieldsFollow
<1>2. /\ new \in InitType /\ new.at = "register" /\ new.account = init[s].account
      /\ new.next = init[s].next /\ init' = [init EXCEPT ![s] = new]
  BY <1>1 DEF MakeAssets, InitType
<1> HIDE DEF new
<1>3. /\ drivers' \in [1..Types -> DriverType] /\ runner' \in Account \cup {None}
      /\ init \in [Setter -> InitType]
  BY <1>1 DEF LifecycleTypeOK, DriverType, InitType
<1>4. overlap # "mixed" => project = init[s].account
  BY <1>1 DEF FieldsFollow
<1>5. init[s].next = 1 /\ \A t \in 1..Types : ~Reached(s, t)'
  BY <1>1, <1>2, <1>3 DEF Reached, FieldsFollow, MakeAssets
<1> QED
  BY <1>1, <1>2, <1>3, <1>4, <1>5, GoesOn

\* One driver is replaced, or none.
LEMMA DriverSet ==
    ASSUME LifecycleTypeOK, NEW t \in 1..Types, NEW driver \in DriverType,
           drivers' = [drivers EXCEPT ![t] = driver]
    PROVE  /\ drivers' \in [1..Types -> DriverType] /\ drivers'[t] = driver
           /\ \A u \in 1..Types \ {t} : drivers'[u] = drivers[u]
<1>1. drivers \in [1..Types -> DriverType]
  BY DEF LifecycleTypeOK, DriverType
<1> QED
  BY <1>1

LEMMA RegisterDriverStep ==
    ASSUME LifecycleInv, NEW s \in Setter, RegisterDriver(s)
    PROVE  LifecycleInv'
<1> USE DEF LifecycleInv
<1> DEFINE t == init[s].next
           driver == Registered(t)
<1>1. /\ init[s].at = "register" /\ Initializing(s) /\ init[s].account \in Account
      /\ t \in 1..Types /\ project \in Account \cup {None}
      /\ UNCHANGED <<project, assets, runner, overlap, inits, faults, deaths>>
      /\ NextType(s, "wire") /\ drivers' = [drivers EXCEPT ![t] = driver]
      /\ init \in [Setter -> InitType]
  BY DEF RegisterDriver, Initializing, LifecycleTypeOK, InitType, FieldsFollow
<1>2. driver \in DriverType /\ driver.project = project /\ driver.client = None
  BY <1>1 DEF Registered, DriverType
<1> HIDE DEF driver
<1>3. /\ drivers' \in [1..Types -> DriverType] /\ drivers'[t] = driver
      /\ \A u \in 1..Types \ {t} : drivers'[u] = drivers[u]
  BY <1>1, <1>2, DriverSet
<1>4. PICK new \in InitType :
         /\ init' = [init EXCEPT ![s] = new] /\ new.account = init[s].account /\ init'[s] = new
         /\ \/ new.at = "wire" /\ init[s].next = Types
            \/ new.at = init[s].at /\ new.next = init[s].next + 1 /\ init[s].next < Types
  BY <1>1, NextTypeGoes
<1>5. overlap # "mixed" => project = init[s].account /\ assets \in {None, project}
  BY <1>1 DEF FieldsFollow
<1>6. overlap # "mixed" => \A u \in 1..Types : Reached(s, u)' => OfProject(u)'
  <2> SUFFICES ASSUME overlap # "mixed", NEW u \in 1..Types, Reached(s, u)'
               PROVE  OfProject(u)'
    OBVIOUS
  <2>1. CASE u = t
    BY <1>1, <1>2, <1>3, <2>1 DEF OfProject
  <2>2. CASE u # t
    <3>1. u < t
      BY <1>1, <1>4, <2>2, LifecycleAssumption DEF Reached
    <3>2. OfProject(u)
      BY <1>1, <3>1 DEF Reached, FieldsFollow
    <3> QED
      BY <1>1, <1>3, <2>2, <3>2 DEF OfProject
  <2> QED
    BY <2>1, <2>2
<1>7. \A u \in 1..Types : drivers'[u] # drivers[u] => OfProject(u)'
  BY <1>1, <1>2, <1>3 DEF OfProject
<1>8. runner' \in Account \cup {None} /\ assets' \in Account \cup {None} /\ faults' \in 0..MaxFaults
  BY <1>1 DEF LifecycleTypeOK
<1> HIDE DEF t
<1> QED
  BY <1>1, <1>3, <1>4, <1>5, <1>6, <1>7, <1>8, GoesOn

LEMMA WireClientStep ==
    ASSUME LifecycleInv, NEW s \in Setter, WireClient(s)
    PROVE  LifecycleInv'
<1> USE DEF LifecycleInv
<1> DEFINE t == init[s].next
           driver == [project |-> project, client |-> init[s].account]
<1>1. /\ init[s].at = "wire" /\ Initializing(s) /\ init[s].account \in Account
      /\ t \in 1..Types /\ project \in Account \cup {None} /\ faults' \in 0..MaxFaults
      /\ UNCHANGED <<project, assets, runner, overlap, inits, deaths>>
      /\ NextType(s, "runner")
      /\ drivers' = [drivers EXCEPT ![t] = driver] \/ drivers' = drivers
      /\ init \in [Setter -> InitType]
  BY FaultCounts DEF WireClient, Initializing, LifecycleTypeOK, InitType, FieldsFollow
<1>2. driver \in DriverType /\ driver.project = project /\ driver.client = init[s].account
  BY <1>1 DEF DriverType
<1> HIDE DEF driver
<1>3. /\ drivers' \in [1..Types -> DriverType] /\ drivers'[t] \in {driver, drivers[t]}
      /\ \A u \in 1..Types \ {t} : drivers'[u] = drivers[u]
  <2>1. CASE drivers' = drivers
    BY <1>1, <2>1 DEF LifecycleTypeOK, DriverType
  <2>2. CASE drivers' = [drivers EXCEPT ![t] = driver]
    BY <1>1, <1>2, <2>2, DriverSet
  <2> QED
    BY <1>1, <2>1, <2>2
<1>4. PICK new \in InitType :
         /\ init' = [init EXCEPT ![s] = new] /\ new.account = init[s].account /\ init'[s] = new
         /\ \/ new.at = "runner" /\ init[s].next = Types
            \/ new.at = init[s].at /\ new.next = init[s].next + 1 /\ init[s].next < Types
  BY <1>1, NextTypeGoes
<1>5. overlap # "mixed" => project = init[s].account /\ assets \in {None, project}
  BY <1>1 DEF FieldsFollow
<1>6. overlap # "mixed" => \A u \in 1..Types : OfProject(u)'
  <2> SUFFICES ASSUME overlap # "mixed", NEW u \in 1..Types  PROVE OfProject(u)'
    OBVIOUS
  <2>1. OfProject(u)
    BY <1>1 DEF Reached, FieldsFollow
  <2>2. drivers'[u] \in {driver, drivers[u]}
    BY <1>3
  <2> QED
    BY <1>1, <1>2, <1>5, <2>1, <2>2 DEF OfProject
<1>7. runner' \in Account \cup {None} /\ assets' \in Account \cup {None}
  BY <1>1 DEF LifecycleTypeOK
<1> HIDE DEF t
<1> QED
  BY <1>1, <1>3, <1>4, <1>5, <1>6, <1>7, GoesOn

LEMMA MakeRunnerStep ==
    ASSUME LifecycleInv, NEW s \in Setter, MakeRunner(s)
    PROVE  LifecycleInv' /\ (runner \in Account => runner' \in Account)
<1> USE DEF LifecycleInv
<1>1. /\ init[s].at = "runner" /\ Initializing(s) /\ init[s].account \in Account
      /\ faults' \in 0..MaxFaults /\ runner' \in {init[s].account, runner}
      /\ UNCHANGED <<project, assets, drivers, inits, deaths>>
      /\ init \in [Setter -> InitType] /\ init' = [init EXCEPT ![s] = Ready]
      /\ overlap' = IF overlap = "mending" THEN "none" ELSE overlap
  BY FaultCounts DEF MakeRunner, Made, Initializing, LifecycleTypeOK, InitType, FieldsFollow
<1>2. Ready \in InitType /\ Ready.at = "idle"
  BY LifecycleAssumption DEF Ready, InitType
<1>3. /\ init' \in [Setter -> InitType] /\ init'[s] = Ready
      /\ \A other \in Setter \ {s} : init'[other] = init[other]
  BY <1>1, <1>2
<1>4. LifecycleTypeOK'
  BY <1>1, <1>3 DEF LifecycleTypeOK, InitType
<1>5. \A x \in Setter : Initializing(x)' => x # s /\ Initializing(x) /\ init'[x] = init[x]
  BY <1>2, <1>3 DEF Initializing
<1>6. overlap # "mixed" => /\ \A x \in Setter : ~Initializing(x)'
                           /\ assets \in {None, project} /\ \A t \in 1..Types : OfProject(t)
  BY <1>1, <1>5 DEF FieldsFollow, Alone, Reached
<1>7. overlap = "mixed" <=> overlap' = "mixed"
  BY <1>1
<1>8. overlap # "mixed" => \A t \in 1..Types : OfProject(t)'
  BY <1>1, <1>6 DEF OfProject
<1>9. FieldsFollow'
  <2>1. \A x \in Setter : Initializing(x)' =>
           init'[x].account \in Account /\ (init'[x].at = "assets" => init'[x].next = 1)
    BY <1>5 DEF FieldsFollow
  <2>2. overlap' = "none" => \A t \in 1..Types : drivers'[t].client \in {None, drivers'[t].project}
    BY <1>7, <1>8 DEF OfProject
  <2> QED
    BY <1>1, <1>6, <1>7, <1>8, <2>1, <2>2 DEF FieldsFollow
<1> QED
  BY <1>1, <1>4, <1>9

-----------------------------------------------------------------------------
(* Calls, jobs, executions and handles *)

Steps == {"idle", "create", "run", "answer"}
Call == [at : Steps, no : 0..MaxCalls, stamp : Nat, parent : Account \cup {None}, exec : Nat]
Execution == [job : jobs, no : 1..MaxCalls, running : 0..1, succeeded : 0..1, failed : 0..1,
              completed : BOOLEAN]

CallTypes ==
    /\ rpc \in [Caller -> Call]
    /\ clock \in Nat /\ calls \in 0..MaxCalls
    /\ jobs \subseteq [parent : Account, stamp : Nat, no : 1..MaxCalls, account : Account]
    /\ execs \in Seq(Execution)
    /\ handles \in Seq([exec : Nat, no : 1..MaxCalls])
    /\ reported \in Seq({"none", "succeeded", "failed"})
    /\ Len(handles) = Len(reported)
    /\ \A h \in DOMAIN handles : handles[h].exec \in DOMAIN execs

\* Calls under way are different calls, asked of an account; the runner keeps a client.
CallsDiffer ==
    \A c \in Caller : rpc[c].at # "idle" =>
        /\ rpc[c].no \in 1..calls /\ rpc[c].parent \in Account /\ runner \in Account
        /\ \A d \in Caller \ {c} : rpc[d].at # "idle" => rpc[d].no # rpc[c].no

\* A name is one job's; who runs a job has made it.
NamesAreOwn ==
    /\ \A j, k \in jobs : (j.parent = k.parent /\ j.stamp = k.stamp) => j = k
    /\ \A c \in Caller : rpc[c].at = "run" =>
          \E j \in jobs : j.parent = rpc[c].parent /\ j.stamp = rpc[c].stamp /\ j.no = rpc[c].no

\* A call's execution is of its own job, and one; there is none before it runs the job.
ExecsAreOwn ==
    /\ \A i \in DOMAIN execs : /\ execs[i].job.no = execs[i].no /\ execs[i].no \in 1..calls
                               /\ \A k \in DOMAIN execs : execs[k].no = execs[i].no => k = i
    /\ \A c \in Caller :
          /\ rpc[c].at \in {"create", "run"} => \A i \in DOMAIN execs : execs[i].no # rpc[c].no
          /\ rpc[c].at = "answer" => rpc[c].exec \in DOMAIN execs /\ execs[rpc[c].exec].no = rpc[c].no

\* A call knows of executions that are there.
ExecsKnown == \A c \in Caller : rpc[c].exec \in 0..Len(execs)

\* A handle is of its own execution; a call that has not answered has none.
HandlesAreOwn ==
    /\ \A h \in DOMAIN handles : /\ execs[handles[h].exec].no = handles[h].no
                                 /\ \A g \in DOMAIN handles : handles[g].no = handles[h].no => g = h
    /\ \A c \in Caller : rpc[c].at # "idle" => \A h \in DOMAIN handles : handles[h].no # rpc[c].no

\* The service counts the one task once.
CountsFit == \A i \in DOMAIN execs : execs[i].running + execs[i].succeeded + execs[i].failed <= 1

JobsInv ==
    /\ LifecycleInv /\ CallTypes /\ CallsDiffer /\ NamesAreOwn /\ ExecsAreOwn /\ ExecsKnown
    /\ HandlesAreOwn /\ CountsFit /\ ReportsAreTrue

LEMMA IdleFits == Idle \in Call /\ Idle.at = "idle" /\ Idle.exec = 0
BY RunnerAssumption DEF Idle, Call, Steps

-----------------------------------------------------------------------------
(* Steps *)

USE DEF Call

\* An Initialize goes on, or nothing happens: no call, job or handle is touched.
LEMMA ProviderStep ==
    ASSUME JobsInv, LifecycleInv', UNCHANGED <<rpc, clock, cloud, answers, calls>>,
           runner \in Account => runner' \in Account
    PROVE  JobsInv'
BY DEF JobsInv, CallTypes, CallsDiffer, NamesAreOwn, ExecsAreOwn, ExecsKnown, HandlesAreOwn,
       CountsFit, ReportsAreTrue, Execution, cloud, answers

\* The process dies: every call ends, whatever became of its job.
LEMMA DiesStep == ASSUME JobsInv, Dies  PROVE JobsInv'
<1> USE DEF JobsInv
<1>1. LifecycleInv' /\ UNCHANGED <<clock, cloud, answers, calls>>
  BY RestartedStep DEF Dies
<1>2. Idle \in Call /\ Idle.at = "idle" /\ Idle.exec = 0
  BY IdleFits
<1>3. rpc' \in [Caller -> Call] /\ \A c \in Caller : rpc'[c].at = "idle" /\ rpc'[c].exec = 0
  BY <1>2 DEF Dies
<1>4. CallTypes'
  BY <1>1, <1>3 DEF CallTypes, Execution, cloud, answers
<1>5. Len(execs) \in Nat
  BY DEF CallTypes
<1>6. CallsDiffer' /\ NamesAreOwn' /\ ExecsAreOwn' /\ ExecsKnown'
  BY <1>1, <1>3, <1>5 DEF CallsDiffer, NamesAreOwn, ExecsAreOwn, ExecsKnown, cloud
<1>7. HandlesAreOwn' /\ CountsFit' /\ ReportsAreTrue'
  BY <1>1, <1>3 DEF HandlesAreOwn, CountsFit, ReportsAreTrue, cloud, answers
<1> QED
  BY <1>1, <1>4, <1>6, <1>7

\* Other steps leave the provider's fields alone.
LEMMA ProviderStands ==
    ASSUME LifecycleInv, UNCHANGED lifecycle, faults' \in 0..MaxFaults
    PROVE  LifecycleInv' /\ runner' = runner
BY DEF LifecycleInv, LifecycleTypeOK, FieldsFollow, lifecycle, provider, Initializing, Alone,
       Reached, OfProject

LEMMA RunJobStep ==
    ASSUME JobsInv, NEW c \in Caller, NEW command \in Command \cup {Blank}, RunJob(c, command)
    PROVE  JobsInv'
<1> USE DEF JobsInv
<1>1. LifecycleInv' /\ UNCHANGED <<runner, cloud, answers>> /\ rpc[c].at = "idle"
  BY ProviderStands DEF RunJob, LifecycleInv, LifecycleTypeOK
<1>2. CASE UNCHANGED <<rpc, clock, calls>>
  BY <1>1, <1>2, ProviderStep
<1>3. CASE /\ calls < MaxCalls /\ calls' = calls + 1 /\ clock' \in {clock, clock + 1}
           /\ project # None /\ runner # None
           /\ rpc' = [rpc EXCEPT ![c] = [at |-> "create", no |-> calls + 1, stamp |-> clock',
                                         parent |-> project, exec |-> 0]]
  <2> DEFINE call == [at |-> "create", no |-> calls + 1, stamp |-> clock', parent |-> project,
                      exec |-> 0]
  <2>1. rpc' = [rpc EXCEPT ![c] = call]
    BY <1>3
  <2>2. /\ calls + 1 \in 1..MaxCalls /\ calls' \in 0..MaxCalls /\ clock' \in Nat
        /\ project \in Account /\ runner \in Account /\ calls \in Nat
    BY <1>3, RunnerAssumption DEF CallTypes, LifecycleInv, LifecycleTypeOK
  <2>3. rpc'[c] = call /\ \A d \in Caller \ {c} : rpc'[d] = rpc[d]
    BY <2>1 DEF CallTypes
  <2>4. CallTypes'
    BY <1>1, <2>1, <2>2 DEF CallTypes, Steps, Execution, cloud, answers
  <2>5. CallsDiffer'
    BY <1>1, <1>3, <2>2, <2>3 DEF CallsDiffer
  <2>6. NamesAreOwn' /\ CountsFit' /\ ReportsAreTrue'
    BY <1>1, <2>3 DEF NamesAreOwn, CountsFit, ReportsAreTrue, cloud, answers
  <2>7. ExecsAreOwn'
    BY <1>1, <1>3, <2>2, <2>3 DEF ExecsAreOwn, cloud
  <2>8. ExecsKnown'
    <3>1. execs' = execs /\ Len(execs) \in Nat
      BY <1>1 DEF CallTypes, cloud
    <3> QED
      BY <2>3, <3>1 DEF ExecsKnown
  <2>9. \A h \in DOMAIN handles : handles[h].no \in 1..calls
    BY DEF CallTypes, HandlesAreOwn, ExecsAreOwn
  <2>10. HandlesAreOwn'
    BY <1>1, <2>2, <2>3, <2>9 DEF HandlesAreOwn, cloud, answers
  <2> QED
    BY <1>1, <2>4, <2>5, <2>6, <2>7, <2>10, <2>8
<1> QED
  BY <1>2, <1>3 DEF RunJob

\* A call ends, whatever became of its job; nobody else can have its number.
LEMMA CallEnds ==
    ASSUME JobsInv, NEW c \in Caller, rpc' = Ends(c), LifecycleInv',
           UNCHANGED <<runner, clock, cloud, answers, calls>>
    PROVE  JobsInv'
<1> USE DEF JobsInv
<1>1. Idle \in Call
  BY IdleFits
<1>2. rpc' \in [Caller -> Call]
      /\ rpc'[c].at = "idle" /\ \A d \in Caller \ {c} : rpc'[d] = rpc[d]
  BY <1>1 DEF CallTypes, Ends, Idle
<1>3. \A d \in Caller : rpc'[d].at # "idle" => rpc'[d] = rpc[d]
  BY <1>2
<1>4. CallTypes'
  BY <1>2 DEF CallTypes, Execution, cloud, answers
<1>5. CallsDiffer' /\ NamesAreOwn' /\ ExecsAreOwn'
  BY <1>2, <1>3 DEF CallsDiffer, NamesAreOwn, ExecsAreOwn, cloud
<1>6. HandlesAreOwn' /\ CountsFit' /\ ReportsAreTrue'
  BY <1>2, <1>3 DEF HandlesAreOwn, CountsFit, ReportsAreTrue, cloud, answers
<1>7. ExecsKnown'
  BY <1>2 DEF ExecsKnown, CallTypes, Ends, Idle, cloud
<1> QED
  BY <1>4, <1>5, <1>6, <1>7

\* A job is made under a name that is free: the call's own then, and the call goes on or ends.
LEMMA JobMade ==
    ASSUME JobsInv, NEW c \in Caller, rpc[c].at = "create", ~Taken(c),
           jobs' = jobs \cup {Asked(c)}, rpc' = Step(c, "run") \/ rpc' = Ends(c), LifecycleInv',
           UNCHANGED <<runner, clock, execs, answers, calls>>
    PROVE  JobsInv'
<1> USE DEF JobsInv
<1>1. Asked(c) \in [parent : Account, stamp : Nat, no : 1..MaxCalls, account : Account]
      /\ Asked(c).parent = rpc[c].parent /\ Asked(c).stamp = rpc[c].stamp /\ Asked(c).no = rpc[c].no
  BY RunnerAssumption DEF Asked, CallsDiffer, CallTypes
<1>2. Idle \in Call
      /\ Idle.at = "idle"
  BY IdleFits
<1>3. /\ rpc' \in [Caller -> Call]
      /\ \A d \in Caller \ {c} : rpc'[d] = rpc[d]
      /\ \/ rpc'[c].at = "idle"
         \/ rpc'[c].at = "run" /\ rpc'[c].no = rpc[c].no /\ rpc'[c].stamp = rpc[c].stamp
            /\ rpc'[c].parent = rpc[c].parent
  BY ZenonT(60), <1>2 DEF CallTypes, Step, Ends, Steps
<1>4. CallTypes'
  <2>1. jobs' \subseteq [parent : Account, stamp : Nat, no : 1..MaxCalls, account : Account]
    BY <1>1 DEF CallTypes
  <2>2. execs' \in Seq(Execution')
    <3>1. Execution \subseteq Execution'
      BY DEF Execution
    <3> QED
      BY <3>1, SeqMonotonic DEF CallTypes
  <2> QED
    BY <1>3, <2>1, <2>2 DEF CallTypes, answers
<1>5. CallsDiffer'
  BY <1>3 DEF CallsDiffer
<1>6. NamesAreOwn'
  <2>1. \A j \in jobs : ~(j.parent = Asked(c).parent /\ j.stamp = Asked(c).stamp)
    BY <1>1 DEF Taken
  <2>2. \A j, k \in jobs' : (j.parent = k.parent /\ j.stamp = k.stamp) => j = k
    BY <2>1 DEF NamesAreOwn
  <2>3. \A d \in Caller : rpc'[d].at = "run" =>
           \E j \in jobs' : j.parent = rpc'[d].parent /\ j.stamp = rpc'[d].stamp /\ j.no = rpc'[d].no
    BY <1>1, <1>3 DEF NamesAreOwn
  <2> QED
    BY <2>2, <2>3 DEF NamesAreOwn
<1>7. ExecsAreOwn' /\ HandlesAreOwn'
  BY <1>3 DEF ExecsAreOwn, HandlesAreOwn, answers
<1>8. CountsFit' /\ ReportsAreTrue'
  BY DEF CountsFit, ReportsAreTrue, answers
<1>9. ExecsKnown'
  <2>1. rpc'[c].exec \in {0, rpc[c].exec} /\ Len(execs) \in Nat
    BY DEF CallTypes, Step, Ends, Idle
  <2> QED
    BY <1>3, <2>1 DEF ExecsKnown
<1> QED
  BY <1>4, <1>5, <1>6, <1>7, <1>8, <1>9

LEMMA CreateJobStep == ASSUME JobsInv, NEW c \in Caller, CreateJob(c)  PROVE JobsInv'
<1>1. LifecycleInv' /\ UNCHANGED <<runner, clock, execs, answers, calls>> /\ rpc[c].at = "create"
  <2>1. faults' \in 0..MaxFaults
    BY FaultCounts DEF CreateJob, JobsInv, LifecycleInv, LifecycleTypeOK
  <2> QED
    BY <2>1, ProviderStands DEF CreateJob, JobsInv
<1>2. CASE UNCHANGED jobs /\ rpc' = Ends(c)
  BY <1>1, <1>2, CallEnds DEF cloud
<1>3. CASE ~Taken(c) /\ jobs' = jobs \cup {Asked(c)} /\ (rpc' = Step(c, "run") \/ rpc' = Ends(c))
  BY <1>1, <1>3, JobMade
<1> QED
  BY <1>2, <1>3 DEF CreateJob

\* The one job of the call's name is its own, and is run for the first time.
LEMMA JobRun ==
    ASSUME JobsInv, NEW c \in Caller, rpc[c].at = "run", NEW job \in jobs, job.no = rpc[c].no,
           execs' = Append(execs, Created(job, rpc[c].no)), LifecycleInv',
           UNCHANGED <<runner, clock, jobs, answers, calls>>,
           \/ rpc' = Ends(c)
           \/ rpc' = [rpc EXCEPT ![c].at = "answer", ![c].exec = Len(execs')]
    PROVE  JobsInv'
<1> USE DEF JobsInv
<1> DEFINE new == Created(job, rpc[c].no)
<1>1. /\ new \in Execution /\ new.job = job /\ new.no = rpc[c].no
      /\ new.running = 0 /\ new.succeeded = 0 /\ new.failed = 0
  BY RunnerAssumption DEF Created, Execution, CallTypes, CallsDiffer
<1>2. /\ execs \in Seq(Execution) /\ execs' \in Seq(Execution') /\ Len(execs) \in Nat
      /\ Len(execs') = Len(execs) + 1 /\ DOMAIN execs = 1..Len(execs)
      /\ DOMAIN execs' = 1..(Len(execs) + 1)
      /\ execs'[Len(execs) + 1] = new /\ \A i \in DOMAIN execs : execs'[i] = execs[i]
  <2> HIDE DEF new
  <2>1. execs \in Seq(Execution) /\ execs' = Append(execs, new)
    BY DEF CallTypes, new
  <2>2. Execution' = Execution
    BY DEF Execution
  <2> QED
    BY <1>1, <2>1, <2>2, AppendProperties
<1> HIDE DEF new
<1>3. Idle \in Call
      /\ Idle.at = "idle"
  BY IdleFits
<1>4. /\ rpc' \in [Caller -> Call]
      /\ \A d \in Caller \ {c} : rpc'[d] = rpc[d]
      /\ \/ rpc'[c].at = "idle"
         \/ rpc'[c].at = "answer" /\ rpc'[c].no = rpc[c].no /\ rpc'[c].parent = rpc[c].parent
            /\ rpc'[c].exec = Len(execs) + 1
  <2>1. CASE rpc' = Ends(c)
    BY <1>3, <2>1 DEF CallTypes, Ends
  <2>2. CASE rpc' = [rpc EXCEPT ![c].at = "answer", ![c].exec = Len(execs')]
    <3> DEFINE mid == [rpc EXCEPT ![c].at = "answer"]
    <3>1. /\ mid \in [Caller -> Call]
          /\ mid[c].at = "answer" /\ mid[c].no = rpc[c].no /\ mid[c].parent = rpc[c].parent
          /\ \A d \in Caller \ {c} : mid[d] = rpc[d]
      <4>1. rpc \in [Caller -> Call]
        BY DEF CallTypes
      <4> QED
        BY <4>1 DEF Steps
    <3>2. rpc' = [mid EXCEPT ![c].exec = Len(execs')] /\ Len(execs') = Len(execs) + 1
          /\ Len(execs') \in Nat
      BY <1>2, <2>2
    <3> HIDE DEF mid
    <3>3. rpc' \in [Caller -> Call]
      BY ZenonT(60), <3>1, <3>2
    <3>4. /\ rpc'[c].at = "answer" /\ rpc'[c].no = rpc[c].no /\ rpc'[c].parent = rpc[c].parent
          /\ rpc'[c].exec = Len(execs')
      BY <3>1, <3>2
    <3>5. \A d \in Caller \ {c} : rpc'[d] = rpc[d]
      BY <3>1, <3>2
    <3> QED
      BY <3>2, <3>3, <3>4, <3>5
  <2> QED
    BY <2>1, <2>2
<1>5. CallTypes'
  <2>1. /\ clock' = clock /\ calls' = calls /\ jobs' = jobs
        /\ handles' = handles /\ reported' = reported
    BY DEF answers
  <2>2. \A h \in DOMAIN handles' : handles'[h].exec \in DOMAIN execs'
    <3>1. \A h \in DOMAIN handles : handles[h].exec \in DOMAIN execs
      BY DEF CallTypes
    <3>2. DOMAIN execs \subseteq DOMAIN execs'
      BY <1>2
    <3> QED
      BY <2>1, <3>1, <3>2
  <2> QED
    BY <1>2, <1>4, <2>1, <2>2 DEF CallTypes
<1>6. CallsDiffer' /\ NamesAreOwn'
  <2>1. \A d \in Caller : rpc'[d].at # "idle" =>
           rpc[d].at # "idle" /\ rpc'[d].no = rpc[d].no /\ rpc'[d].parent = rpc[d].parent
    BY <1>4
  <2>2. CallsDiffer'
    BY <2>1 DEF CallsDiffer
  <2>3. \A d \in Caller : rpc'[d].at = "run" => rpc'[d] = rpc[d]
    BY <1>4
  <2> QED
    BY <2>2, <2>3 DEF NamesAreOwn
<1>7. ExecsAreOwn'
  <2>1. rpc[c].no \in 1..calls /\ \A i \in DOMAIN execs : execs[i].no # rpc[c].no
    BY DEF CallsDiffer, ExecsAreOwn
  <2>2. \A i \in DOMAIN execs' :
           /\ execs'[i].job.no = execs'[i].no /\ execs'[i].no \in 1..calls'
           /\ \A k \in DOMAIN execs' : execs'[k].no = execs'[i].no => k = i
    BY <1>1, <1>2, <2>1 DEF ExecsAreOwn
  <2>3. \A d \in Caller : rpc'[d].at \in {"create", "run"} =>
           \A i \in DOMAIN execs' : execs'[i].no # rpc'[d].no
    <3> SUFFICES ASSUME NEW d \in Caller, rpc'[d].at \in {"create", "run"}, NEW i \in DOMAIN execs'
                 PROVE  execs'[i].no # rpc'[d].no
      OBVIOUS
    <3>1. d # c /\ rpc'[d] = rpc[d]
      BY <1>4
    <3>2. rpc[d].no # rpc[c].no
      BY <1>4, <3>1 DEF CallsDiffer
    <3> QED
      BY <1>1, <1>2, <3>1, <3>2 DEF ExecsAreOwn
  <2>4. \A d \in Caller : rpc'[d].at = "answer" =>
           rpc'[d].exec \in DOMAIN execs' /\ execs'[rpc'[d].exec].no = rpc'[d].no
    BY <1>1, <1>2, <1>4 DEF ExecsAreOwn
  <2> QED
    BY <2>2, <2>3, <2>4 DEF ExecsAreOwn
<1>8. HandlesAreOwn'
  <2>1. \A h \in DOMAIN handles : execs'[handles[h].exec] = execs[handles[h].exec]
    BY <1>2 DEF CallTypes
  <2>2. \A d \in Caller : rpc'[d].at # "idle" => rpc[d].at # "idle" /\ rpc'[d].no = rpc[d].no
    BY <1>4
  <2>3. handles' = handles
    BY DEF answers
  <2>4. \A h \in DOMAIN handles :
           /\ execs'[handles[h].exec].no = handles[h].no
           /\ \A g \in DOMAIN handles : handles[g].no = handles[h].no => g = h
    BY <2>1 DEF HandlesAreOwn
  <2>5. \A d \in Caller : rpc'[d].at # "idle" => \A h \in DOMAIN handles : handles[h].no # rpc'[d].no
    BY <2>2 DEF HandlesAreOwn
  <2> QED
    BY <2>3, <2>4, <2>5 DEF HandlesAreOwn
<1>9. CountsFit' /\ ReportsAreTrue'
  <2>1. CountsFit'
    BY <1>1, <1>2 DEF CountsFit
  <2>2. \A h \in DOMAIN handles : execs'[handles[h].exec] = execs[handles[h].exec]
    BY <1>2 DEF CallTypes
  <2> QED
    BY ZenonT(30), <2>1, <2>2 DEF ReportsAreTrue, answers
<1>10. ExecsKnown'
  <2>1. rpc'[c].exec \in {0, Len(execs) + 1}
    BY <1>2, <1>4 DEF CallTypes, Ends, Idle
  <2> QED
    <3> SUFFICES ASSUME NEW d \in Caller  PROVE rpc'[d].exec \in 0..(Len(execs) + 1)
      BY <1>2 DEF ExecsKnown
    <3>1. d # c => rpc'[d].exec \in 0..Len(execs)
      BY <1>4 DEF ExecsKnown
    <3> QED
      BY <1>2, <2>1, <3>1
<1> QED
  BY <1>5, <1>6, <1>7, <1>8, <1>9, <1>10

LEMMA RunCreatedStep == ASSUME JobsInv, NEW c \in Caller, RunCreated(c)  PROVE JobsInv'
<1>1. LifecycleInv' /\ UNCHANGED <<runner, clock, jobs, answers, calls>> /\ rpc[c].at = "run"
  <2>1. faults' \in 0..MaxFaults
    BY FaultCounts DEF RunCreated, JobsInv, LifecycleInv, LifecycleTypeOK
  <2> QED
    BY <2>1, ProviderStands DEF RunCreated, JobsInv
<1> DEFINE job == CHOOSE j \in jobs : j.parent = rpc[c].parent /\ j.stamp = rpc[c].stamp
<1>2. job \in jobs /\ job.no = rpc[c].no
  <2>1. PICK j \in jobs : j.parent = rpc[c].parent /\ j.stamp = rpc[c].stamp /\ j.no = rpc[c].no
    BY <1>1 DEF JobsInv, NamesAreOwn
  <2>2. job \in jobs /\ job.parent = rpc[c].parent /\ job.stamp = rpc[c].stamp
    BY <2>1
  <2> QED
    BY <2>1, <2>2 DEF JobsInv, NamesAreOwn
<1>3. \/ UNCHANGED execs /\ rpc' = Ends(c)
      \/ /\ execs' = Append(execs, Created(job, rpc[c].no))
         /\ rpc' = Ends(c) \/ rpc' = [rpc EXCEPT ![c].at = "answer", ![c].exec = Len(execs')]
  BY DEF RunCreated
<1> HIDE DEF job
<1>4. CASE UNCHANGED execs /\ rpc' = Ends(c)
  BY <1>1, <1>4, CallEnds DEF cloud
<1> QED
  BY <1>1, <1>2, <1>3, <1>4, JobRun

LEMMA AnswerRunStep == ASSUME JobsInv, NEW c \in Caller, AnswerRun(c)  PROVE JobsInv'
<1> USE DEF JobsInv
<1>1. LifecycleInv' /\ UNCHANGED <<runner, clock, cloud, calls>> /\ rpc' = Ends(c)
      /\ rpc[c].at = "answer"
  <2>1. faults' \in 0..MaxFaults
    BY FaultCounts DEF AnswerRun, LifecycleInv, LifecycleTypeOK
  <2> QED
    BY <2>1, ProviderStands DEF AnswerRun
<1>2. CASE UNCHANGED answers
  BY <1>1, <1>2, CallEnds
<1>3. CASE /\ handles' = Append(handles, [exec |-> rpc[c].exec, no |-> rpc[c].no])
           /\ reported' = Append(reported, "none")
  <2> DEFINE new == [exec |-> rpc[c].exec, no |-> rpc[c].no]
  <2>1. /\ new \in [exec : Nat, no : 1..MaxCalls] /\ new.exec \in DOMAIN execs
        /\ execs[new.exec].no = new.no /\ new.no \in 1..calls /\ new.no = rpc[c].no
    BY <1>1, RunnerAssumption DEF CallTypes, CallsDiffer, ExecsAreOwn
  <2>2. /\ handles' \in Seq([exec : Nat, no : 1..MaxCalls]) /\ Len(handles') = Len(handles) + 1
        /\ Len(handles) \in Nat /\ DOMAIN handles' = 1..(Len(handles) + 1) /\ DOMAIN handles = 1..Len(handles)
        /\ handles'[Len(handles) + 1] = new /\ \A h \in DOMAIN handles : handles'[h] = handles[h]
    <3> HIDE DEF new
    <3>1. handles' = Append(handles, new)
      BY <1>3 DEF new
    <3>2. handles \in Seq([exec : Nat, no : 1..MaxCalls]) /\ new \in [exec : Nat, no : 1..MaxCalls]
      BY <2>1 DEF CallTypes
    <3> QED
      BY <3>1, <3>2, AppendProperties
  <2>3. /\ reported' \in Seq({"none", "succeeded", "failed"}) /\ Len(reported') = Len(handles')
        /\ reported'[Len(handles) + 1] = "none"
        /\ \A h \in DOMAIN handles : reported'[h] = reported[h]
    BY <1>3, <2>2, AppendProperties DEF CallTypes
  <2> HIDE DEF new
  <2>4. Idle \in Call
    BY IdleFits
  <2>5. /\ rpc' \in [Caller -> Call]
        /\ rpc'[c].at = "idle" /\ rpc'[c].exec = 0 /\ \A d \in Caller \ {c} : rpc'[d] = rpc[d]
    BY <1>1, <2>4 DEF CallTypes, Ends, Idle
  <2>6. CallTypes'
    <3>1. \A h \in DOMAIN handles' : handles'[h].exec \in DOMAIN execs
      <4> SUFFICES ASSUME NEW h \in DOMAIN handles'  PROVE handles'[h].exec \in DOMAIN execs
        OBVIOUS
      <4>1. h \in DOMAIN handles \/ h = Len(handles) + 1
        BY <2>2
      <4> QED
        BY <2>1, <2>2, <4>1 DEF CallTypes
    <3> QED
      BY <1>1, <2>2, <2>3, <2>5, <3>1 DEF CallTypes, Execution, cloud
  <2>7. CallsDiffer' /\ NamesAreOwn' /\ ExecsAreOwn' /\ CountsFit'
    BY <1>1, <2>5 DEF CallsDiffer, NamesAreOwn, ExecsAreOwn, CountsFit, cloud
  <2>8. ExecsKnown'
    <3>1. execs' = execs /\ Len(execs) \in Nat
      BY <1>1 DEF CallTypes, cloud
    <3> QED
      BY <2>5, <3>1 DEF ExecsKnown
  <2>9. \A h \in DOMAIN handles : handles[h].no # new.no
    BY <1>1, <2>1 DEF HandlesAreOwn
  <2>10. \A h \in DOMAIN handles' :
           /\ execs[handles'[h].exec].no = handles'[h].no
           /\ \A g \in DOMAIN handles' : handles'[g].no = handles'[h].no => g = h
    <3> SUFFICES ASSUME NEW h \in DOMAIN handles'
                 PROVE  /\ execs[handles'[h].exec].no = handles'[h].no
                        /\ \A g \in DOMAIN handles' : handles'[g].no = handles'[h].no => g = h
      OBVIOUS
    <3>1. \A g \in DOMAIN handles' : g \in DOMAIN handles \/ g = Len(handles) + 1
      BY <2>2
    <3> QED
      BY ZenonT(30), <2>1, <2>2, <2>9, <3>1 DEF HandlesAreOwn
  <2>11. \A d \in Caller : rpc'[d].at # "idle" => \A h \in DOMAIN handles' : handles'[h].no # rpc'[d].no
    <3> SUFFICES ASSUME NEW d \in Caller, rpc'[d].at # "idle", NEW h \in DOMAIN handles'
                 PROVE  handles'[h].no # rpc'[d].no
      OBVIOUS
    <3>1. d # c /\ rpc'[d] = rpc[d]
      BY <2>5
    <3>2. rpc[d].no # rpc[c].no
      BY <1>1, <3>1 DEF CallsDiffer
    <3> QED
      BY SMTT(30), <2>1, <2>2, <3>1, <3>2 DEF HandlesAreOwn
  <2>12. ReportsAreTrue'
    <3>1. execs' = execs
      BY <1>1 DEF cloud
    <3>2. \A h \in DOMAIN handles' : h \in DOMAIN handles \/ h = Len(handles) + 1
      BY <2>2
    <3> SUFFICES ASSUME NEW h \in DOMAIN handles'
                 PROVE  /\ reported'[h] = "succeeded" =>
                              execs[handles'[h].exec].succeeded = 1 /\ execs[handles'[h].exec].completed
                        /\ reported'[h] = "failed" => execs[handles'[h].exec].failed = 1
      BY <3>1 DEF ReportsAreTrue
    <3> QED
      BY <2>2, <2>3, <3>2 DEF ReportsAreTrue
  <2> QED
    BY <1>1, <2>6, <2>7, <2>10, <2>11, <2>12, <2>8 DEF HandlesAreOwn, cloud
<1> QED
  BY <1>2, <1>3 DEF AnswerRun

\* What an end read from an execution says.
LEMMA WordIsTrue ==
    ASSUME NEW S, NEW e \in [job : S, no : 1..MaxCalls, running : 0..1, succeeded : 0..1,
                             failed : 0..1, completed : BOOLEAN], NEW reconciling \in BOOLEAN
    PROVE  /\ ExecutionState(e, reconciling) \in {"failed", "succeeded", "running", "pending"}
           /\ ExecutionState(e, reconciling) = "failed" => e.failed = 1
           /\ ExecutionState(e, reconciling) = "succeeded" => e.succeeded = 1 /\ e.completed
BY DEF ExecutionState

LEMMA JobStatusStep == ASSUME JobsInv, NEW h \in DOMAIN handles, JobStatus(h)  PROVE JobsInv'
<1> USE DEF JobsInv
<1>1. LifecycleInv' /\ UNCHANGED <<runner, rpc, clock, cloud, handles, calls>>
  BY ProviderStands DEF JobStatus, LifecycleInv, LifecycleTypeOK
<1> DEFINE e == execs[handles[h].exec]
<1>2. e \in Execution
  BY ElementOfSeq DEF CallTypes
<1>3. PICK reconciling \in {FALSE, ~e.completed} :
         reported' = [reported EXCEPT ![h] =
                         IF ExecutionState(e, reconciling) \in {"succeeded", "failed"}
                         THEN ExecutionState(e, reconciling) ELSE @]
  BY DEF JobStatus
<1> DEFINE word == ExecutionState(e, reconciling)
<1>4. /\ word \in {"failed", "succeeded", "running", "pending"}
      /\ word = "failed" => e.failed = 1
      /\ word = "succeeded" => e.succeeded = 1 /\ e.completed
  BY <1>2, WordIsTrue DEF Execution
<1>5. h \in DOMAIN reported
  BY DEF CallTypes
<1> HIDE DEF word
<1>6. /\ reported' \in Seq({"none", "succeeded", "failed"}) /\ Len(reported') = Len(reported)
      /\ reported'[h] = reported[h] \/ (reported'[h] = word /\ word \in {"succeeded", "failed"})
      /\ \A g \in DOMAIN handles \ {h} : reported'[g] = reported[g]
  BY <1>3, <1>4, <1>5, ExceptSeq DEF CallTypes, word
<1>7. CallTypes' /\ CallsDiffer' /\ NamesAreOwn' /\ CountsFit'
  BY <1>1, <1>6 DEF CallTypes, CallsDiffer, NamesAreOwn, CountsFit, Execution, cloud
<1>8. ExecsAreOwn' /\ ExecsKnown' /\ HandlesAreOwn'
  BY <1>1 DEF ExecsAreOwn, ExecsKnown, HandlesAreOwn, cloud
<1>9. ReportsAreTrue'
  BY <1>1, <1>4, <1>6 DEF ReportsAreTrue, cloud
<1> QED
  BY <1>1, <1>7, <1>8, <1>9

\* An execution goes on: it stays the call's, and what it came to stays.
LEMMA ExecutesStep ==
    ASSUME JobsInv, NEW i \in DOMAIN execs, Executes(i)
    PROVE  \E e \in Execution :
              /\ execs' = [execs EXCEPT ![i] = e] /\ e.job = execs[i].job /\ e.no = execs[i].no
              /\ e.running + e.succeeded + e.failed <= 1
              /\ execs[i].succeeded = 1 => e.succeeded = 1
              /\ execs[i].failed = 1 => e.failed = 1
              /\ execs[i].completed => e.completed
<1> USE DEF JobsInv
<1> DEFINE old == execs[i]
<1>1. old \in Execution /\ old.running + old.succeeded + old.failed <= 1
  BY ElementOfSeq DEF CallTypes, CountsFit
<1>2. CASE Starts(i)
  <2> DEFINE e == [old EXCEPT !.running = 1]
  <2>1. e \in Execution /\ execs' = [execs EXCEPT ![i] = e]
    BY <1>1, <1>2 DEF Starts, Execution
  <2>2. /\ e.running = 1 /\ e.succeeded = old.succeeded /\ e.failed = old.failed
        /\ e.job = old.job /\ e.no = old.no /\ e.completed = old.completed
    BY <1>1 DEF Execution
  <2>3. e.running + e.succeeded + e.failed <= 1
    BY <1>2, <2>2 DEF Starts
  <2> HIDE DEF e
  <2> QED
    BY <1>2, <2>1, <2>2, <2>3 DEF Starts
<1>3. CASE Succeeds(i)
  <2> DEFINE mid == [old EXCEPT !.running = 0]
             e == [mid EXCEPT !.succeeded = 1]
  <2>1. mid \in Execution /\ mid.running = 0 /\ old.failed = 0
        /\ mid.succeeded = old.succeeded /\ mid.failed = old.failed /\ mid.job = old.job
        /\ mid.no = old.no /\ mid.completed = old.completed
    BY <1>1, <1>3 DEF Succeeds, Execution
  <2>2. execs' = [execs EXCEPT ![i] = e]
    BY <1>3 DEF Succeeds
  <2> HIDE DEF mid
  <2>3. e \in Execution /\ e.succeeded = 1 /\ e.running = mid.running /\ e.failed = mid.failed
        /\ e.job = mid.job /\ e.no = mid.no /\ e.completed = mid.completed
    BY <2>1 DEF Execution
  <2>4. e.running + e.succeeded + e.failed <= 1
    BY <1>1, <2>1, <2>3 DEF Execution
  <2> HIDE DEF e
  <2> QED
    BY <2>1, <2>2, <2>3, <2>4
<1>4. CASE FailsTask(i)
  <2> DEFINE mid == [old EXCEPT !.running = 0]
             e == [mid EXCEPT !.failed = 1]
  <2>1. mid \in Execution /\ mid.running = 0 /\ old.succeeded = 0
        /\ mid.succeeded = old.succeeded /\ mid.failed = old.failed /\ mid.job = old.job
        /\ mid.no = old.no /\ mid.completed = old.completed
    BY <1>1, <1>4 DEF FailsTask, Execution
  <2>2. execs' = [execs EXCEPT ![i] = e]
    BY <1>4 DEF FailsTask
  <2> HIDE DEF mid
  <2>3. e \in Execution /\ e.failed = 1 /\ e.running = mid.running /\ e.succeeded = mid.succeeded
        /\ e.job = mid.job /\ e.no = mid.no /\ e.completed = mid.completed
    BY <2>1 DEF Execution
  <2>4. e.running + e.succeeded + e.failed <= 1
    BY <1>1, <2>1, <2>3 DEF Execution
  <2> HIDE DEF e
  <2> QED
    BY <2>1, <2>2, <2>3, <2>4
<1>5. CASE Completes(i)
  <2> DEFINE e == [old EXCEPT !.completed = TRUE]
  <2>1. e \in Execution /\ execs' = [execs EXCEPT ![i] = e]
    BY <1>1, <1>5 DEF Completes, Execution
  <2> QED
    BY <1>1, <2>1 DEF Execution
<1>6. CASE Cancels(i)
  <2> DEFINE mid == [old EXCEPT !.running = 0]
             e == [mid EXCEPT !.completed = TRUE]
  <2>1. mid \in Execution /\ mid.running = 0
        /\ mid.succeeded = old.succeeded /\ mid.failed = old.failed /\ mid.job = old.job
        /\ mid.no = old.no
    BY <1>1, <1>6 DEF Execution
  <2>2. execs' = [execs EXCEPT ![i] = e]
    BY <1>6 DEF Cancels
  <2> HIDE DEF mid
  <2>3. e \in Execution /\ e.completed /\ e.running = mid.running /\ e.succeeded = mid.succeeded
        /\ e.job = mid.job /\ e.no = mid.no /\ e.failed = mid.failed
    BY <2>1 DEF Execution
  <2>4. mid.running + mid.succeeded + mid.failed <= 1
    BY <1>1, <2>1 DEF Execution
  <2> HIDE DEF e
  <2> QED
    BY <2>1, <2>2, <2>3, <2>4
<1> QED
  BY <1>2, <1>3, <1>4, <1>5, <1>6 DEF Executes

LEMMA CloudStep == ASSUME JobsInv, NEW i \in DOMAIN execs, Cloud(i)  PROVE JobsInv'
<1> USE DEF JobsInv
<1>1. LifecycleInv' /\ UNCHANGED <<runner, rpc, clock, jobs, answers, calls>>
  BY ProviderStands DEF Cloud, LifecycleInv, LifecycleTypeOK
<1>2. PICK e \in Execution :
         /\ execs' = [execs EXCEPT ![i] = e] /\ e.job = execs[i].job /\ e.no = execs[i].no
         /\ e.running + e.succeeded + e.failed <= 1
         /\ execs[i].succeeded = 1 => e.succeeded = 1
         /\ execs[i].failed = 1 => e.failed = 1
         /\ execs[i].completed => e.completed
  BY ExecutesStep DEF Cloud
<1>3. /\ execs' \in Seq(Execution') /\ Len(execs') = Len(execs) /\ DOMAIN execs' = DOMAIN execs
      /\ execs'[i] = e /\ \A k \in DOMAIN execs \ {i} : execs'[k] = execs[k]
  <2>1. Execution' = Execution
    BY <1>1 DEF Execution
  <2> QED
    BY <1>2, <2>1, ExceptSeq DEF CallTypes
<1>4. \A k \in DOMAIN execs : execs'[k].no = execs[k].no /\ execs'[k].job = execs[k].job
  BY <1>2, <1>3
<1>5. CallTypes' /\ CallsDiffer' /\ NamesAreOwn'
  BY <1>1, <1>3 DEF CallTypes, CallsDiffer, NamesAreOwn, answers
<1>6. ExecsAreOwn' /\ ExecsKnown'
  BY <1>1, <1>3, <1>4 DEF ExecsAreOwn, ExecsKnown
<1>7. HandlesAreOwn'
  BY <1>1, <1>3, <1>4 DEF HandlesAreOwn, CallTypes, answers
<1>8. CountsFit'
  BY <1>2, <1>3 DEF CountsFit
<1>9. ReportsAreTrue'
  <2> SUFFICES ASSUME NEW h \in DOMAIN handles
               PROVE  /\ reported[h] = "succeeded" =>
                            execs'[handles[h].exec].succeeded = 1 /\ execs'[handles[h].exec].completed
                      /\ reported[h] = "failed" => execs'[handles[h].exec].failed = 1
    BY <1>1 DEF ReportsAreTrue, answers
  <2>1. handles[h].exec \in DOMAIN execs
    BY DEF CallTypes
  <2> QED
    BY <1>2, <1>3, <2>1 DEF ReportsAreTrue
<1> QED
  BY <1>1, <1>5, <1>6, <1>7, <1>8, <1>9

-----------------------------------------------------------------------------
(* The invariant and what it says *)

LEMMA JobsInvInit == Init => JobsInv
<1> SUFFICES ASSUME Init  PROVE JobsInv
  OBVIOUS
<1>1. LifecycleInv
  BY LifecycleInvInit DEF Init
<1>2. Idle \in Call
      /\ Idle.at = "idle" /\ Idle.exec = 0
  BY IdleFits
<1>3. CallTypes
  BY <1>2, RunnerAssumption DEF Init, CallTypes
<1>4. /\ CallsDiffer /\ NamesAreOwn /\ ExecsAreOwn /\ ExecsKnown /\ HandlesAreOwn
      /\ CountsFit /\ ReportsAreTrue
  BY <1>2 DEF Init, CallsDiffer, NamesAreOwn, ExecsAreOwn, ExecsKnown, HandlesAreOwn, CountsFit,
              ReportsAreTrue
<1> QED
  BY <1>1, <1>3, <1>4 DEF JobsInv

LEMMA JobsInvStep == JobsInv /\ [Next]_vars => JobsInv'
<1> SUFFICES ASSUME JobsInv, [Next]_vars  PROVE JobsInv'
  OBVIOUS
<1>1. ASSUME NEW s \in Setter, NEW account \in Account \cup {NoProject},
             HostInitializes(s, account)
      PROVE  JobsInv'
  <2>1. runner' = runner
    BY <1>1 DEF HostInitializes, Initialize
  <2> QED
    BY <1>1, <2>1, InitializeBegins, ProviderStep DEF HostInitializes, JobsInv
<1>2. ASSUME NEW s \in Setter, GoesOnInitializing(s)  PROVE JobsInv'
  <2>1. CASE MakeAssets(s) \/ RegisterDriver(s) \/ WireClient(s)
    <3>1. runner' = runner
      BY <2>1 DEF MakeAssets, RegisterDriver, WireClient
    <3>2. LifecycleInv'
      BY <2>1, MakeAssetsStep, RegisterDriverStep, WireClientStep DEF JobsInv
    <3> QED
      BY <1>2, <3>1, <3>2, ProviderStep DEF GoesOnInitializing
  <2>2. CASE MakeRunner(s)
    BY <1>2, <2>2, MakeRunnerStep, ProviderStep DEF GoesOnInitializing, JobsInv
  <2> QED
    BY <1>2, <2>1, <2>2 DEF GoesOnInitializing, InitializeStep
<1>3. CASE UNCHANGED vars
  <2>1. LifecycleInv' /\ runner' = runner
    BY <1>3, ProviderStands DEF vars, JobsInv, LifecycleInv, LifecycleTypeOK
  <2> QED
    BY <1>3, <2>1, ProviderStep DEF vars
<1> QED
  BY <1>1, <1>2, <1>3, DiesStep, RunJobStep, CreateJobStep, RunCreatedStep, AnswerRunStep,
     JobStatusStep, CloudStep DEF Next

\* There are no more executions than calls, as each is of a call of its own.
LEMMA ExecsAreFew == JobsInv => Len(execs) <= calls
<1> SUFFICES ASSUME JobsInv, ~(Len(execs) <= calls)  PROVE FALSE
  OBVIOUS
<1> DEFINE f == [i \in 1..Len(execs) |-> execs[i].no]
<1>1. Len(execs) \in Nat /\ calls \in Nat /\ DOMAIN execs = 1..Len(execs)
  BY RunnerAssumption DEF JobsInv, CallTypes
<1>2. f \in [1..Len(execs) -> 1..calls]
  BY <1>1 DEF JobsInv, ExecsAreOwn
<1>3. /\ IsFiniteSet(1..Len(execs)) /\ IsFiniteSet(1..calls)
      /\ Cardinality(1..calls) < Cardinality(1..Len(execs))
  <2>1. IsFiniteSet(1..Len(execs)) /\ Cardinality(1..Len(execs)) = Len(execs)
    <3>1. Len(execs) \in Int /\ ~(1 > Len(execs))
      BY <1>1
    <3> QED
      BY <1>1, <3>1, FS_Interval
  <2>2. IsFiniteSet(1..calls) /\ Cardinality(1..calls) = calls
    BY <1>1, FS_Interval
  <2> QED
    BY <1>1, <2>1, <2>2
<1>4. \E x, y \in 1..Len(execs) : x # y /\ f[x] = f[y]
  <2> HIDE DEF f
  <2> QED
    BY <1>2, <1>3, FS_PigeonHole
<1> QED
  BY <1>1, <1>4 DEF JobsInv, ExecsAreOwn

\* Fields, calls, jobs, executions and handles stay of their types, and there are no more
\* executions than RunJob calls.
THEOREM JobTypes == Spec => []TypeOK
<1>1. JobsInv => TypeOK
  <2> SUFFICES ASSUME JobsInv  PROVE TypeOK
    OBVIOUS
  <2> USE DEF JobsInv
  <2>1. \A c \in Caller : /\ rpc[c].at \in Steps /\ rpc[c].no \in 0..MaxCalls
                          /\ rpc[c].at # "idle" => rpc[c].parent \in Account
                          /\ rpc[c].at = "answer" => rpc[c].exec \in DOMAIN execs
    BY DEF CallTypes, CallsDiffer, ExecsAreOwn
  <2>2. \A c \in Caller : rpc[c].exec \in 0..Len(execs)
    BY DEF ExecsKnown
  <2>3. \A i \in DOMAIN execs : execs[i] \in Execution
    BY ElementOfSeq DEF CallTypes
  <2>4. \A i \in DOMAIN execs : execs[i].job \in jobs
    BY <2>3 DEF Execution
  <2> QED
    BY <2>1, <2>2, <2>4, ExecsAreFew DEF TypeOK, LifecycleInv, CallTypes, Steps
<1> QED
  BY <1>1, JobsInvInit, JobsInvStep, PTL DEF Spec

\* For any callers of Initialize: while their calls do not overlap no driver is ever of two
\* accounts, and between calls all of them and the asset client are of the last call's account;
\* what overlapping calls mixed up is put right by the next call that runs alone.
THEOREM ProviderWorksForOneAccount == Spec => []OneAccount
<1>1. JobsInv => OneAccount
  BY DEF JobsInv, LifecycleInv, FieldsFollow, OneAccount, OfProject
<1> QED
  BY <1>1, JobsInvInit, JobsInvStep, PTL DEF Spec

\* A handle leads to the execution its own call asked for, of the job with that call's command.
THEOREM HandlesAreTheCallsOwn == Spec => []HandleIsOwn
<1>1. JobsInv => HandleIsOwn
  <2> SUFFICES ASSUME JobsInv, NEW h \in DOMAIN handles
               PROVE  LET e == execs[handles[h].exec]
                      IN  /\ e.no = handles[h].no /\ e.job.no = handles[h].no
                          /\ \A g \in DOMAIN handles : handles[g].exec = handles[h].exec => g = h
    BY DEF HandleIsOwn
  <2>1. handles[h].exec \in DOMAIN execs
    BY DEF JobsInv, CallTypes
  <2> QED
    BY <2>1 DEF JobsInv, ExecsAreOwn, HandlesAreOwn
<1> QED
  BY <1>1, JobsInvInit, JobsInvStep, PTL DEF Spec

\* No call's command is run twice, whatever fails and whoever has the same job name.
THEOREM CommandsRunOnce ==
    Spec => [](\A i, k \in DOMAIN execs : execs[i].job.no = execs[k].job.no => i = k)
<1>1. JobsInv => \A i, k \in DOMAIN execs : execs[i].job.no = execs[k].job.no => i = k
  BY DEF JobsInv, ExecsAreOwn
<1> QED
  BY <1>1, JobsInvInit, JobsInvStep, PTL DEF Spec

\* The end JobStatus reported of an execution is the end it came to.
THEOREM EndsAreTrue == Spec => []ReportsAreTrue
<1>1. JobsInv => ReportsAreTrue
  BY DEF JobsInv
<1> QED
  BY <1>1, JobsInvInit, JobsInvStep, PTL DEF Spec
=============================================================================
