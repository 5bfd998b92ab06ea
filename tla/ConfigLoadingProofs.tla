------------------------- MODULE ConfigLoadingProofs -------------------------
(***************************************************************************)
(* Of the plugin while a configuration is loaded: the credentials and the  *)
(* clients of its modules agree with what they were created from, a        *)
(* partial object is told of, and a derived collector holds together, for  *)
(* any modules, callers, faults and requests.                              *)
(***************************************************************************)
EXTENDS ConfigLoading, SequenceTheorems, TLAPS

-----------------------------------------------------------------------------
(* Types and the modules' invariant *)

Busy == {"copy", "close", "close part"}

\* What TypeOK says of the parts, with the domains its quantifiers take for granted.
Shapes ==
    /\ registry \in [Name -> Cred \cup {None}]
    /\ module \in [Storage -> [cred : Cred \cup {Adc, None}, client : Nat]]
    /\ asked \in [Storage -> (Cred \cup {None}) \X (Name \cup {None})]
    /\ clients \in Seq([of : Storage, open : BOOLEAN])
    /\ call \in [Caller -> [at : {"idle"} \cup Busy, put : Nat, client : Nat]]
    /\ object \in [put : Nat, whole : BOOLEAN]
    /\ told \in Seq({"none", "ok", "error"})
    /\ down \subseteq Storage /\ Len(clients) <= MaxClients /\ faults \in 0..MaxFaults

\* A module's client has been made, and only a module that was created has one.
ClientsAreMade ==
    \A s \in Storage : /\ module[s].client <= Len(clients)
                       /\ module[s].client # 0 => module[s].cred # None

\* A module that is down has no client.
DownHasNone == \A s \in down : module[s].client = 0

\* A Put under way has a client that was made, and has not been answered.
PutsAreOpen ==
    \A c \in Caller : call[c].at # "idle" =>
        /\ call[c].client \in 1..Len(clients)
        /\ call[c].put \in 1..Len(told) /\ told[call[c].put] = "none"

PutsDiffer ==
    \A c, d \in Caller :
        c # d /\ call[c].at # "idle" /\ call[d].at # "idle" => call[c].put # call[d].put

\* A part of what was put is there only after its Put answered an error.
PartHasError ==
    /\ object.put <= Len(told)
    /\ ~object.whole => object.put \in 1..Len(told) /\ told[object.put] = "error"

ModulesInv ==
    /\ Shapes /\ ClientsAreMade /\ DownHasNone /\ PutsAreOpen /\ PutsDiffer /\ PartHasError
    /\ CredsAgree /\ ClientsAreKept

LEMMA ModulesInit == Init => ModulesInv
<1> SUFFICES ASSUME Init PROVE ModulesInv  OBVIOUS
<1>1. /\ Absent \in [cred : Cred \cup {Adc, None}, client : Nat]
      /\ Idle \in [at : {"idle"} \cup Busy, put : Nat, client : Nat]
      /\ <<None, None>> \in (Cred \cup {None}) \X (Name \cup {None})
  BY DEF Absent, Idle
<1>2. Len(<<>>) = 0
  OBVIOUS
<1>3. clients \in Seq([of : Storage, open : BOOLEAN]) /\ told \in Seq({"none", "ok", "error"})
  BY DEF Init
<1>4. object \in [put : Nat, whole : BOOLEAN]
  BY DEF Init
<1>5. Shapes
  BY <1>1, <1>2, <1>3, <1>4, ModulesAssumption DEF Init, Shapes
<1> QED
  BY <1>5, <1>2 DEF Init, ModulesInv, ClientsAreMade, DownHasNone, PutsAreOpen, PutsDiffer,
     PartHasError, CredsAgree, ClientsAreKept, Absent, Idle

-----------------------------------------------------------------------------
(* One lemma per operation *)

\* A client that was made is some module's.
LEMMA ClientIsTyped ==
    ASSUME Shapes
    PROVE  /\ Len(clients) \in Nat /\ DOMAIN clients = 1..Len(clients)
           /\ \A i \in DOMAIN clients : clients[i] \in [of : Storage, open : BOOLEAN]
<1>1. clients \in Seq([of : Storage, open : BOOLEAN])
  BY DEF Shapes
<1>2. Len(clients) \in Nat /\ DOMAIN clients = 1..Len(clients)
  BY <1>1
<1> QED
  BY <1>1, <1>2, ElementOfSeq

\* A module's client is replaced.
LEMMA NewClient ==
    ASSUME Shapes, NEW s \in Storage, NEW n \in Nat, module' = [module EXCEPT ![s].client = n]
    PROVE  /\ module' \in [Storage -> [cred : Cred \cup {Adc, None}, client : Nat]]
           /\ module'[s].client = n
           /\ \A t \in Storage : module'[t].cred = module[t].cred
           /\ \A t \in Storage \ {s} : module'[t] = module[t]
<1> DEFINE new == [module[s] EXCEPT !.client = n]
<1>1. module \in [Storage -> [cred : Cred \cup {Adc, None}, client : Nat]]
  BY DEF Shapes
<1>2. module[s] \in [cred : Cred \cup {Adc, None}, client : Nat]
  BY <1>1
<1>3. new \in [cred : Cred \cup {Adc, None}, client : Nat] /\ new.client = n
      /\ new.cred = module[s].cred
  BY <1>2
<1>4. module' = [module EXCEPT ![s] = new]
  OBVIOUS
<1> HIDE DEF new
<1> QED
  BY <1>1, <1>3, <1>4

\* A client that was made is closed.
LEMMA OldClient ==
    ASSUME Shapes, NEW k \in 1..Len(clients), clients' = [clients EXCEPT ![k].open = FALSE]
    PROVE  /\ clients' \in Seq([of : Storage, open : BOOLEAN]) /\ Len(clients') = Len(clients)
           /\ DOMAIN clients' = 1..Len(clients) /\ ~clients'[k].open
           /\ \A i \in 1..Len(clients) \ {k} : clients'[i] = clients[i]
<1> DEFINE new == [clients[k] EXCEPT !.open = FALSE]
           changed == [clients EXCEPT ![k] = new]
<1>1. clients \in Seq([of : Storage, open : BOOLEAN]) /\ Len(clients) \in Nat
  BY DEF Shapes
<1>2. clients[k] \in [of : Storage, open : BOOLEAN]
  BY ClientIsTyped
<1>3. new \in [of : Storage, open : BOOLEAN] /\ ~new.open
  BY <1>2
<1>4. clients' = [clients EXCEPT ![k] = new]
  OBVIOUS
<1> HIDE DEF new
<1>5. /\ clients' \in Seq([of : Storage, open : BOOLEAN]) /\ Len(clients') = Len(clients)
      /\ \A i \in 1..Len(clients) : clients'[i] = IF i = k THEN new ELSE clients[i]
  <2>1. /\ changed \in Seq([of : Storage, open : BOOLEAN]) /\ Len(changed) = Len(clients)
        /\ \A i \in 1..Len(clients) : changed[i] = IF i = k THEN new ELSE clients[i]
    BY <1>1, <1>3, ExceptSeq
  <2> QED
    BY <2>1, <1>4
<1>6. DOMAIN clients' = 1..Len(clients')
  BY <1>5
<1> QED
  BY <1>1, <1>3, <1>5, <1>6

LEMMA RegisterKeeps ==
    ASSUME ModulesInv, NEW n \in Name, NEW cred \in Cred, CreateCredentials(n, cred)
    PROVE  ModulesInv'
<1>1. registry' \in [Name -> Cred \cup {None}]
  BY DEF ModulesInv, Shapes, CreateCredentials, Register
<1>2. \A m \in Name : registry[m] # None => registry'[m] = registry[m]
  BY DEF ModulesInv, Shapes, CreateCredentials, Register
<1>3. CredsAgree'
  <2> SUFFICES ASSUME NEW s \in Storage, module[s].cred # None,
                      asked[s][1] = None, asked[s][2] # None
               PROVE  module[s].cred = registry'[asked[s][2]]
    BY DEF CredsAgree, ModulesInv, CreateCredentials
  <2>1. asked[s][2] \in Name
    BY DEF ModulesInv, Shapes
  <2> QED
    BY <2>1, <1>2 DEF ModulesInv, CredsAgree
<1> QED
  BY <1>1, <1>3 DEF ModulesInv, Shapes, ClientsAreMade, DownHasNone, PutsAreOpen, PutsDiffer,
     PartHasError, ClientsAreKept, CreateCredentials, bucket

LEMMA CreateStorageKeeps ==
    ASSUME ModulesInv, NEW s \in Storage, NEW inline \in Cred \cup {None},
           NEW ref \in Name \cup {None}, CreateStorage(s, inline, ref)
    PROVE  ModulesInv'
<1>1. Resolved(inline, ref) \in Cred \cup {Adc, None}
  BY DEF Resolved, ModulesInv, Shapes
<1>2. /\ module' \in [Storage -> [cred : Cred \cup {Adc, None}, client : Nat]]
      /\ module'[s].cred = Resolved(inline, ref)
      /\ \A t \in Storage : module'[t].client = module[t].client
      /\ \A t \in Storage \ {s} : module'[t] = module[t]
  BY <1>1 DEF CreateStorage, ModulesInv, Shapes
<1>3. /\ asked' \in [Storage -> (Cred \cup {None}) \X (Name \cup {None})]
      /\ asked'[s] = <<inline, ref>>
      /\ \A t \in Storage \ {s} : asked'[t] = asked[t]
  BY DEF CreateStorage, ModulesInv, Shapes
<1>4. registry' = registry /\ clients' = clients /\ down' = down /\ faults' = faults
      /\ call' = call /\ object' = object /\ told' = told
  BY DEF CreateStorage, bucket
<1>5. Shapes' /\ DownHasNone' /\ PutsAreOpen' /\ PutsDiffer' /\ PartHasError'
  BY <1>2, <1>3, <1>4 DEF ModulesInv, Shapes, DownHasNone, PutsAreOpen, PutsDiffer, PartHasError
<1>6. ClientsAreMade'
  BY <1>2, <1>4 DEF ModulesInv, ClientsAreMade, CreateStorage
<1>7. ClientsAreKept'
  <2> SUFFICES ASSUME NEW i \in DOMAIN clients, clients[i].open
               PROVE  module'[clients[i].of].client = i
    BY <1>4 DEF ClientsAreKept
  <2>1. clients[i].of \in Storage
    BY ClientIsTyped DEF ModulesInv
  <2> QED
    BY <2>1, <1>2 DEF ModulesInv, ClientsAreKept
<1>8. CredsAgree'
  <2> SUFFICES ASSUME NEW t \in Storage, module'[t].cred # None
               PROVE  /\ asked'[t][1] # None => module'[t].cred = asked'[t][1]
                      /\ asked'[t][1] = None /\ asked'[t][2] # None
                         => module'[t].cred = registry[asked'[t][2]]
    BY <1>4 DEF CredsAgree
  <2>1. CASE t = s
    BY <2>1, <1>2, <1>3 DEF Resolved
  <2>2. CASE t # s
    BY <2>2, <1>2, <1>3 DEF ModulesInv, CredsAgree
  <2> QED
    BY <2>1, <2>2
<1> QED
  BY <1>5, <1>6, <1>7, <1>8 DEF ModulesInv

\* A step that leaves the modules' credentials and the Puts alone, and forgets no client made.
LEMMA ClientStep ==
    ASSUME ModulesInv, UNCHANGED <<registry, asked, call, object, told>>,
           clients' \in Seq([of : Storage, open : BOOLEAN]),
           Len(clients') >= Len(clients), Len(clients') <= MaxClients,
           module' \in [Storage -> [cred : Cred \cup {Adc, None}, client : Nat]],
           \A s \in Storage : module'[s].cred = module[s].cred,
           down' \subseteq Storage, faults' \in 0..MaxFaults
    PROVE  Shapes' /\ PutsAreOpen' /\ PutsDiffer' /\ PartHasError' /\ CredsAgree'
<1>1. Shapes' /\ PutsDiffer' /\ PartHasError'
  BY DEF ModulesInv, Shapes, PutsDiffer, PartHasError
<1>2. Len(clients) \in Nat /\ Len(clients') \in Nat
  BY DEF ModulesInv, Shapes
<1>3. PutsAreOpen'
  BY <1>2 DEF ModulesInv, PutsAreOpen
<1>4. CredsAgree'
  BY DEF ModulesInv, CredsAgree
<1> QED
  BY <1>1, <1>3, <1>4

LEMMA FaultCounts == faults \in 0..MaxFaults /\ Fault => faults' \in 0..MaxFaults
BY ModulesAssumption DEF Fault

\* A failure that changes nothing else.
LEMMA FaultKeeps ==
    ASSUME ModulesInv, Fault, UNCHANGED <<modules, clients, down, bucket>>
    PROVE  ModulesInv'
<1>1. faults' \in 0..MaxFaults
  BY FaultCounts DEF ModulesInv, Shapes
<1> QED
  BY <1>1 DEF ModulesInv, Shapes, ClientsAreMade, DownHasNone, PutsAreOpen, PutsDiffer,
     PartHasError, CredsAgree, ClientsAreKept, modules, bucket

LEMMA StartKeeps ==
    ASSUME ModulesInv, NEW s \in Storage, Start(s)
    PROVE  ModulesInv'
<1>1. CASE Fault /\ UNCHANGED <<clients, module, down>>
  BY <1>1, FaultKeeps DEF Start, modules
<1>2. CASE /\ Len(clients) < MaxClients
           /\ clients' = Append(clients, [of |-> s, open |-> TRUE])
           /\ module' = [module EXCEPT ![s].client = Len(clients')]
           /\ down' = down \ {s} /\ UNCHANGED faults
  <2> DEFINE new == [of |-> s, open |-> TRUE]
  <2>1. /\ clients \in Seq([of : Storage, open : BOOLEAN]) /\ Len(clients) \in Nat
        /\ DOMAIN clients = 1..Len(clients)
    BY DEF ModulesInv, Shapes
  <2>2. /\ clients' \in Seq([of : Storage, open : BOOLEAN]) /\ Len(clients') = Len(clients) + 1
        /\ DOMAIN clients' = 1..(Len(clients) + 1)
        /\ \A i \in 1..Len(clients) : clients'[i] = clients[i]
        /\ clients'[Len(clients) + 1] = new
    BY <1>2, <2>1, AppendProperties
  <2>3. /\ module' \in [Storage -> [cred : Cred \cup {Adc, None}, client : Nat]]
        /\ module'[s].client = Len(clients) + 1
        /\ \A t \in Storage : module'[t].cred = module[t].cred
        /\ \A t \in Storage \ {s} : module'[t] = module[t]
    <3>1. module' = [module EXCEPT ![s].client = Len(clients) + 1] /\ Len(clients) + 1 \in Nat
      BY <1>2, <2>1, <2>2
    <3> QED
      BY <3>1, NewClient DEF ModulesInv
  <2>4. s \in down /\ module[s].cred # None /\ module[s].client = 0
    BY DEF Start, ModulesInv, DownHasNone
  <2>5. Shapes' /\ PutsAreOpen' /\ PutsDiffer' /\ PartHasError' /\ CredsAgree'
    <3>1. registry' = registry /\ asked' = asked /\ call' = call /\ object' = object /\ told' = told
      BY DEF Start, bucket
    <3>2. down' \subseteq Storage /\ faults' \in 0..MaxFaults /\ Len(clients') <= MaxClients
          /\ Len(clients') >= Len(clients)
      BY <1>2, <2>1, <2>2, ModulesAssumption DEF ModulesInv, Shapes
    <3> QED
      BY <3>1, <3>2, <2>2, <2>3, ClientStep
  <2>6. ClientsAreMade'
    <3> SUFFICES ASSUME NEW t \in Storage
                 PROVE  /\ module'[t].client <= Len(clients')
                        /\ module'[t].client # 0 => module'[t].cred # None
      BY DEF ClientsAreMade
    <3>1. module[t].client \in Nat /\ module[t].client <= Len(clients)
      BY DEF ModulesInv, Shapes, ClientsAreMade
    <3>2. module[t].client # 0 => module[t].cred # None
      BY DEF ModulesInv, ClientsAreMade
    <3>3. CASE t = s
      BY <3>3, <2>1, <2>2, <2>3, <2>4
    <3>4. CASE t # s
      BY <3>1, <3>2, <3>4, <2>1, <2>2, <2>3
    <3> QED
      BY <3>3, <3>4
  <2>7. DownHasNone'
    BY <1>2, <2>3 DEF ModulesInv, DownHasNone, Shapes
  <2>8. ClientsAreKept'
    <3> SUFFICES ASSUME NEW i \in DOMAIN clients', clients'[i].open
                 PROVE  module'[clients'[i].of].client = i
      BY DEF ClientsAreKept
    <3>1. CASE i = Len(clients) + 1
      BY <3>1, <2>2, <2>3
    <3>2. CASE i \in 1..Len(clients)
      <4>1. clients'[i] = clients[i] /\ clients[i].of \in Storage
        BY <3>2, <2>1, <2>2, ClientIsTyped DEF ModulesInv
      <4>2. module[clients[i].of].client = i
        BY <3>2, <4>1, <2>1 DEF ModulesInv, ClientsAreKept
      <4>3. clients[i].of # s
        BY <4>2, <2>4, <3>2
      <4> QED
        BY <4>1, <4>2, <4>3, <2>3
    <3> QED
      BY <3>1, <3>2, <2>1, <2>2
  <2> QED
    BY <2>5, <2>6, <2>7, <2>8 DEF ModulesInv
<1> QED
  BY <1>1, <1>2 DEF Start

LEMMA StopKeeps ==
    ASSUME ModulesInv, NEW s \in Storage, Stop(s)
    PROVE  ModulesInv'
<1>0. registry' = registry /\ asked' = asked /\ call' = call /\ object' = object /\ told' = told
  BY DEF Stop, bucket
<1>1. CASE Fault /\ UNCHANGED <<clients, module, down>>
  BY <1>0, <1>1, FaultKeeps DEF modules, bucket
<1>2. CASE module[s].client = 0 /\ down' = down \cup {s} /\ UNCHANGED <<clients, module, faults>>
  BY <1>0, <1>2 DEF ModulesInv, Shapes, ClientsAreMade, DownHasNone, PutsAreOpen, PutsDiffer,
     PartHasError, CredsAgree, ClientsAreKept
<1>3. CASE /\ module[s].client # 0
           /\ clients' = [clients EXCEPT ![module[s].client].open = FALSE]
           /\ module' = [module EXCEPT ![s].client = 0]
           /\ down' = down \cup {s} /\ UNCHANGED faults
  <2> DEFINE k == module[s].client
  <2>1. /\ clients \in Seq([of : Storage, open : BOOLEAN]) /\ Len(clients) \in Nat
        /\ DOMAIN clients = 1..Len(clients) /\ k \in 1..Len(clients)
    BY <1>3 DEF ModulesInv, Shapes, ClientsAreMade
  <2>2. /\ clients' \in Seq([of : Storage, open : BOOLEAN]) /\ Len(clients') = Len(clients)
        /\ DOMAIN clients' = 1..Len(clients) /\ ~clients'[k].open
        /\ \A i \in 1..Len(clients) \ {k} : clients'[i] = clients[i]
    BY <1>3, <2>1, OldClient DEF ModulesInv
  <2>3. /\ module' \in [Storage -> [cred : Cred \cup {Adc, None}, client : Nat]]
        /\ module'[s].client = 0
        /\ \A t \in Storage : module'[t].cred = module[t].cred
        /\ \A t \in Storage \ {s} : module'[t] = module[t]
    BY <1>3, NewClient DEF ModulesInv
  <2>4. Shapes' /\ PutsAreOpen' /\ PutsDiffer' /\ PartHasError' /\ CredsAgree'
    <3>1. down' \subseteq Storage /\ faults' \in 0..MaxFaults /\ Len(clients') <= MaxClients
          /\ Len(clients') >= Len(clients)
      BY <1>3, <2>1, <2>2 DEF ModulesInv, Shapes
    <3> QED
      BY <1>0, <3>1, <2>2, <2>3, ClientStep
  <2>5. ClientsAreMade' /\ DownHasNone'
    BY <1>3, <2>1, <2>2, <2>3 DEF ModulesInv, ClientsAreMade, DownHasNone, Shapes
  <2>6. ClientsAreKept'
    <3> SUFFICES ASSUME NEW i \in DOMAIN clients', clients'[i].open
                 PROVE  module'[clients'[i].of].client = i
      BY DEF ClientsAreKept
    <3>1. i \in 1..Len(clients) \ {k} /\ clients'[i] = clients[i]
      BY <2>2
    <3>4. clients[i].of \in Storage
      BY <3>1, <2>1, ClientIsTyped DEF ModulesInv
    <3>2. module[clients[i].of].client = i
      BY <3>1, <3>4, <2>1 DEF ModulesInv, ClientsAreKept
    <3>3. clients[i].of # s
      BY <3>1, <3>2
    <3> QED
      BY <3>1, <3>2, <3>3, <3>4, <2>3
  <2> QED
    BY <2>4, <2>5, <2>6 DEF ModulesInv
<1> QED
  BY <1>1, <1>2, <1>3 DEF Stop, CloseClient

\* A step of the Puts leaves the modules alone, and is answered for by what it says of call,
\* object and told.
LEMMA PutStep ==
    ASSUME ModulesInv, UNCHANGED <<modules, clients, down>>, faults' \in 0..MaxFaults,
           call' \in [Caller -> [at : {"idle"} \cup Busy, put : Nat, client : Nat]],
           object' \in [put : Nat, whole : BOOLEAN], told' \in Seq({"none", "ok", "error"}),
           PutsAreOpen', PutsDiffer', PartHasError'
    PROVE  ModulesInv'
BY DEF ModulesInv, Shapes, ClientsAreMade, DownHasNone, CredsAgree, ClientsAreKept, modules

LEMMA BeginPutKeeps ==
    ASSUME ModulesInv, NEW c \in Caller, NEW s \in Storage, BeginPut(c, s)
    PROVE  ModulesInv'
<1>1. CASE UNCHANGED <<call, told>>
  BY <1>1 DEF BeginPut, ModulesInv, Shapes, ClientsAreMade, DownHasNone, PutsAreOpen, PutsDiffer,
     PartHasError, CredsAgree, ClientsAreKept, modules
<1>2. CASE /\ module[s].client # 0 /\ told' = Append(told, "none")
           /\ call' = [call EXCEPT ![c] = [at |-> "copy", put |-> Len(told'),
                                          client |-> module[s].client]]
  <2> DEFINE new == [at |-> "copy", put |-> Len(told) + 1, client |-> module[s].client]
  <2>1. told \in Seq({"none", "ok", "error"}) /\ Len(told) \in Nat
    BY DEF ModulesInv, Shapes
  <2>2. /\ told' \in Seq({"none", "ok", "error"}) /\ Len(told') = Len(told) + 1
        /\ \A i \in 1..Len(told) : told'[i] = told[i]
        /\ told'[Len(told) + 1] = "none"
    BY <1>2, <2>1, AppendProperties
  <2>3. module[s].client \in 1..Len(clients) /\ Len(clients) \in Nat
    BY <1>2, ClientIsTyped DEF ModulesInv, Shapes, ClientsAreMade
  <2>4. new \in [at : {"idle"} \cup Busy, put : Nat, client : Nat]
    BY <2>1, <2>3 DEF Busy
  <2>5. call' = [call EXCEPT ![c] = new]
    BY <1>2, <2>2
  <2>6. new.at # "idle" /\ new.put = Len(told) + 1 /\ new.client \in 1..Len(clients)
    BY <2>3
  <2> HIDE DEF new
  <2>7. /\ call' \in [Caller -> [at : {"idle"} \cup Busy, put : Nat, client : Nat]]
        /\ call'[c] = new /\ \A d \in Caller \ {c} : call'[d] = call[d]
    BY <2>4, <2>5 DEF ModulesInv, Shapes
  <2>8. clients' = clients /\ object' = object /\ UNCHANGED <<modules, clients, down, faults>>
    BY DEF BeginPut
  <2>9. PutsAreOpen'
    <3> SUFFICES ASSUME NEW d \in Caller, call'[d].at # "idle"
                 PROVE  /\ call'[d].client \in 1..Len(clients)
                        /\ call'[d].put \in 1..Len(told') /\ told'[call'[d].put] = "none"
      BY <2>8 DEF PutsAreOpen
    <3>1. CASE d = c
      BY <3>1, <2>1, <2>2, <2>6, <2>7
    <3>2. CASE d # c
      BY <3>2, <2>1, <2>2, <2>7 DEF ModulesInv, PutsAreOpen
    <3> QED
      BY <3>1, <3>2
  <2>10. PutsDiffer'
    <3>1. \A d \in Caller \ {c} : call'[d].at # "idle" => call'[d].put # Len(told) + 1
      BY <2>1, <2>7 DEF ModulesInv, PutsAreOpen
    <3> QED
      BY <3>1, <2>6, <2>7 DEF ModulesInv, PutsDiffer
  <2>11. PartHasError'
    <3>1. object.put \in Nat
      BY DEF ModulesInv, Shapes
    <3> QED
      BY <3>1, <2>1, <2>2, <2>8 DEF ModulesInv, PartHasError
  <2> QED
    BY <2>2, <2>7, <2>8, <2>9, <2>10, <2>11, PutStep DEF ModulesInv, Shapes
<1> QED
  BY <1>1, <1>2 DEF BeginPut

LEMMA CopyKeeps ==
    ASSUME ModulesInv, NEW c \in Caller, Copy(c)
    PROVE  ModulesInv'
<1>1. PICK at \in {"close", "close part"} : call' = [call EXCEPT ![c].at = at]
  BY DEF Copy
<1>2. call \in [Caller -> [at : {"idle"} \cup Busy, put : Nat, client : Nat]]
  BY DEF ModulesInv, Shapes
<1>3. /\ call' \in [Caller -> [at : {"idle"} \cup Busy, put : Nat, client : Nat]]
      /\ \A d \in Caller : /\ call'[d].put = call[d].put /\ call'[d].client = call[d].client
                           /\ call'[d].at # "idle" <=> call[d].at # "idle"
  BY <1>1, <1>2 DEF Copy, Busy
<1>4. UNCHANGED <<modules, clients, down>> /\ clients' = clients /\ object' = object /\ told' = told
  BY DEF Copy
<1>5. faults' \in 0..MaxFaults
  <2>1. faults' = faults \/ Fault
    BY DEF Copy
  <2> QED
    BY <2>1, FaultCounts DEF ModulesInv, Shapes
<1>6. PutsAreOpen' /\ PutsDiffer' /\ PartHasError'
  BY ZenonT(30), <1>3, <1>4 DEF ModulesInv, PutsAreOpen, PutsDiffer, PartHasError
<1> QED
  BY <1>3, <1>4, <1>5, <1>6, PutStep DEF ModulesInv, Shapes

\* A Put is answered; a part becomes the object only with an error.
LEMMA AnswerKeeps ==
    ASSUME ModulesInv, NEW c \in Caller, call[c].at # "idle", NEW word \in {"ok", "error"},
           Answer(c, word), UNCHANGED <<modules, clients, down>>, faults' \in 0..MaxFaults,
           \/ object' = object
           \/ \E whole \in BOOLEAN : /\ object' = [put |-> call[c].put, whole |-> whole]
                                     /\ ~whole => word = "error"
    PROVE  ModulesInv'
<1> DEFINE p == call[c].put
<1>1. told \in Seq({"none", "ok", "error"}) /\ Len(told) \in Nat /\ p \in 1..Len(told)
  BY DEF ModulesInv, Shapes, PutsAreOpen
<1>2. /\ told' \in Seq({"none", "ok", "error"}) /\ Len(told') = Len(told) /\ told'[p] = word
      /\ \A i \in 1..Len(told) : i # p => told'[i] = told[i]
  <2> DEFINE changed == [told EXCEPT ![p] = word]
  <2>1. /\ changed \in Seq({"none", "ok", "error"}) /\ Len(changed) = Len(told)
        /\ \A i \in 1..Len(told) : changed[i] = IF i = p THEN word ELSE told[i]
    BY <1>1, ExceptSeq
  <2> QED
    BY <1>1, <2>1 DEF Answer
<1>3. Idle \in [at : {"idle"} \cup Busy, put : Nat, client : Nat] /\ Idle.at = "idle"
  BY DEF Idle
<1>4. /\ call' \in [Caller -> [at : {"idle"} \cup Busy, put : Nat, client : Nat]]
      /\ call'[c] = Idle /\ \A d \in Caller \ {c} : call'[d] = call[d]
  BY <1>3 DEF ModulesInv, Shapes, Answer
<1>5. PutsAreOpen'
  <2> SUFFICES ASSUME NEW d \in Caller, call'[d].at # "idle"
               PROVE  /\ call'[d].client \in 1..Len(clients)
                      /\ call'[d].put \in 1..Len(told') /\ told'[call'[d].put] = "none"
    BY DEF PutsAreOpen
  <2>1. d # c /\ call'[d] = call[d]
    BY <1>3, <1>4
  <2>2. call[d].put # p
    BY <2>1 DEF ModulesInv, PutsDiffer
  <2> QED
    BY <2>1, <2>2, <1>1, <1>2 DEF ModulesInv, PutsAreOpen
<1>6. PutsDiffer'
  BY <1>3, <1>4 DEF ModulesInv, PutsDiffer
<1>7. object' \in [put : Nat, whole : BOOLEAN]
  BY <1>1 DEF ModulesInv, Shapes
<1>8. PartHasError'
  <2>1. CASE object' = object
    <3>1. told[p] = "none"
      BY DEF ModulesInv, PutsAreOpen
    <3> QED
      BY <2>1, <3>1, <1>1, <1>2 DEF ModulesInv, PartHasError
  <2>2. ASSUME NEW whole \in BOOLEAN, object' = [put |-> p, whole |-> whole],
               ~whole => word = "error"
        PROVE  PartHasError'
    <3>1. object'.put = p /\ object'.whole = whole
      BY <2>2
    <3> QED
      BY <2>2, <3>1, <1>1, <1>2 DEF PartHasError
  <2> QED
    BY <2>1, <2>2
<1> QED
  BY <1>2, <1>4, <1>5, <1>6, <1>7, <1>8, PutStep

LEMMA CloseWriterKeeps ==
    ASSUME ModulesInv, NEW c \in Caller, CloseWriter(c)
    PROVE  ModulesInv'
<1>1. UNCHANGED <<modules, clients, down>> /\ call[c].at # "idle"
  BY DEF CloseWriter
<1>2. faults' \in 0..MaxFaults
  <2>1. faults' = faults \/ Fault
    BY DEF CloseWriter
  <2> QED
    BY <2>1, FaultCounts DEF ModulesInv, Shapes
<1>3. PICK word \in {"ok", "error"} :
         /\ Answer(c, word)
         /\ \/ object' = object
            \/ \E whole \in BOOLEAN : /\ object' = [put |-> call[c].put, whole |-> whole]
                                      /\ ~whole => word = "error"
  BY DEF CloseWriter, Commit
<1> QED
  BY <1>1, <1>2, <1>3, AnswerKeeps

LEMMA DeleteKeeps ==
    ASSUME ModulesInv, NEW s \in Storage, DeleteObject(s)
    PROVE  ModulesInv'
<1>1. object' = [put |-> 0, whole |-> TRUE] /\ call' = call /\ told' = told /\ clients' = clients
  BY DEF DeleteObject
<1>2. Len(told) \in Nat /\ object'.put = 0 /\ object'.whole
      /\ object' \in [put : Nat, whole : BOOLEAN]
  BY <1>1 DEF ModulesInv, Shapes
<1>3. PutsAreOpen' /\ PutsDiffer' /\ PartHasError'
  BY <1>1, <1>2 DEF ModulesInv, PutsAreOpen, PutsDiffer, PartHasError
<1> QED
  BY <1>1, <1>2, <1>3, PutStep DEF DeleteObject, ModulesInv, Shapes

LEMMA ModulesKeep == ModulesInv /\ [Next]_vars => ModulesInv'
<1> SUFFICES ASSUME ModulesInv, [Next]_vars PROVE ModulesInv'  OBVIOUS
<1>1. CASE UNCHANGED vars
  BY <1>1 DEF vars, modules, bucket, ModulesInv, Shapes, ClientsAreMade, DownHasNone, PutsAreOpen,
     PutsDiffer, PartHasError, CredsAgree, ClientsAreKept
<1>2. CASE \E n \in Name, cred \in Cred : CreateCredentials(n, cred)
  BY <1>2, RegisterKeeps
<1>3. ASSUME NEW s \in Storage, \E inline \in Cred \cup {None}, ref \in Name \cup {None} :
                                   CreateStorage(s, inline, ref)
      PROVE  ModulesInv'
  BY <1>3, CreateStorageKeeps
<1>4. ASSUME NEW s \in Storage, \/ Start(s) \/ Stop(s) \/ DeleteObject(s)
                                \/ \E c \in Caller : BeginPut(c, s)
      PROVE  ModulesInv'
  BY <1>4, StartKeeps, StopKeeps, DeleteKeeps, BeginPutKeeps
<1>5. CASE \E c \in Caller : Copy(c) \/ CloseWriter(c)
  BY <1>5, CopyKeeps, CloseWriterKeeps
<1> QED
  BY <1>1, <1>2, <1>3, <1>4, <1>5 DEF Next

LEMMA ModulesInvTypes == ModulesInv => TypeOK
<1> SUFFICES ASSUME ModulesInv PROVE TypeOK  OBVIOUS
<1>1. registry \in [Name -> Cred \cup {None}]
  BY DEF ModulesInv, Shapes
<1>2. module \in [Storage -> [cred : Cred \cup {Adc, None}, client : 0..Len(clients)]]
  <2>1. module \in [Storage -> [cred : Cred \cup {Adc, None}, client : Nat]] /\ Len(clients) \in Nat
    BY DEF ModulesInv, Shapes
  <2>2. \A s \in Storage : module[s].client <= Len(clients)
    BY DEF ModulesInv, ClientsAreMade
  <2>3. \A s \in Storage : module[s] \in [cred : Cred \cup {Adc, None}, client : 0..Len(clients)]
    BY <2>1, <2>2
  <2> QED
    BY <2>1, <2>3
<1>3. \A i \in DOMAIN clients : clients[i].of \in Storage /\ clients[i].open \in BOOLEAN
  BY ClientIsTyped DEF ModulesInv
<1>4. \A i \in DOMAIN told : told[i] \in {"none", "ok", "error"}
  <2>1. told \in Seq({"none", "ok", "error"}) /\ DOMAIN told = 1..Len(told)
    BY DEF ModulesInv, Shapes
  <2> QED
    BY <2>1, ElementOfSeq
<1>5. \A c \in Caller :
         /\ call[c].at \in {"idle", "copy", "close", "close part"}
         /\ call[c].at # "idle" => call[c].client \in DOMAIN clients /\ call[c].put \in DOMAIN told
  <2>1. DOMAIN clients = 1..Len(clients) /\ DOMAIN told = 1..Len(told)
    BY DEF ModulesInv, Shapes
  <2>2. \A c \in Caller : call[c].at \in {"idle"} \cup Busy
    BY DEF ModulesInv, Shapes
  <2> QED
    BY <2>1, <2>2 DEF ModulesInv, PutsAreOpen, Busy
<1>6. object.put \in 0..Len(told)
  BY DEF ModulesInv, Shapes, PartHasError
<1> QED
  BY <1>1, <1>2, <1>3, <1>4, <1>5, <1>6 DEF TypeOK, ModulesInv, Shapes, ClientsAreMade

-----------------------------------------------------------------------------
(* The mapper *)

\* What is said of a backend in the parts of the collector's configuration.
LEMMA SectionFits ==
    ASSUME NEW b \in Backend, NEW backends, b \in backends
    PROVE  /\ Section(b).name = Exporter(b)
           /\ Section(b).env \subseteq EnvVars(backends) \cup SecretVars(backends)
           /\ Section(b).port \in Ports(backends) \cup {0}
<1>1. CASE b = "otel"
  BY <1>1 DEF Section, Exporter, EnvVars
<1>2. CASE b = "datadog"
  <2>1. Section(b) = [name |-> "datadog", env |-> {"DD_API_KEY", "DD_SITE"}, port |-> 0]
    BY <1>2 DEF Section
  <2>2. "DD_SITE" \in EnvVars(backends) /\ "DD_API_KEY" \in SecretVars(backends)
    BY <1>2 DEF EnvVars, SecretVars
  <2> QED
    BY <1>2, <2>1, <2>2 DEF Exporter
<1>3. CASE b = "prometheus"
  BY <1>3 DEF Section, Exporter, Ports
<1>4. CASE b = "loki"
  BY <1>4 DEF Section, Exporter, EnvVars
<1>5. CASE b = "grafana"
  <2>1. Section(b) = [name |-> "otlp/grafana_otlp",
                      env |-> {"GRAFANA_OTLP_ENDPOINT", "GRAFANA_OTLP_HEADERS"}, port |-> 0]
    BY <1>5 DEF Section
  <2>2. "GRAFANA_OTLP_ENDPOINT" \in EnvVars(backends) /\ "GRAFANA_OTLP_HEADERS" \in SecretVars(backends)
    BY <1>5 DEF EnvVars, SecretVars
  <2> QED
    BY <1>5, <2>1, <2>2 DEF Exporter
<1> QED
  BY <1>1, <1>2, <1>3, <1>4, <1>5 DEF Backend

\* The exporters of two backends differ in their names.
LEMMA ExportersDiffer ==
    ASSUME NEW a \in Backend, NEW b \in Backend, Exporter(a) = Exporter(b)
    PROVE  a = b
BY DEF Exporter, Backend

\* A list of requirements whose signals and backends the mapper knows.
Known(reqs) == \A i \in DOMAIN reqs : reqs[i].signals \subseteq Signal /\ reqs[i].backends \subseteq Backend

LEMMA RequestedIsKnown ==
    ASSUME NEW reqs, Known(reqs)
    PROVE  RequestedBackends(reqs) \subseteq Backend
BY DEF Known, RequestedBackends, OrElse, Backend

LEMMA RequestedIsAsked ==
    ASSUME NEW reqs, NEW i \in DOMAIN reqs
    PROVE  /\ reqs[i].signals \subseteq RequestedSignals(reqs)
           /\ reqs[i].backends \subseteq RequestedBackends(reqs)
BY DEF RequestedSignals, RequestedBackends, OrElse

\* The parts of a collector's configuration.
LEMMA ConfigParts ==
    ASSUME NEW reqs
    PROVE  LET config == CollectorModuleConfig(reqs)
               backends == RequestedBackends(reqs)
           IN  /\ config.exporters = WriteExporters(backends)
               /\ config.env = EnvVars(backends) \cup SecretVars(backends)
               /\ config.ports = Ports(backends)
               /\ DOMAIN config.pipelines =
                     {s \in RequestedSignals(reqs) : ExportersForSignal(s, backends) # {}}
               /\ \A s \in DOMAIN config.pipelines :
                     config.pipelines[s] = ExportersForSignal(s, backends)
<1> DEFINE backends == RequestedBackends(reqs)
           exporters == [s \in RequestedSignals(reqs) |-> ExportersForSignal(s, backends)]
           served == {s \in DOMAIN exporters : exporters[s] # {}}
           pipelines == [s \in served |-> exporters[s]]
<1>1. CollectorModuleConfig(reqs) =
         [exporters |-> WriteExporters(backends), pipelines |-> pipelines,
          env |-> EnvVars(backends) \cup SecretVars(backends), ports |-> Ports(backends)]
  BY DEF CollectorModuleConfig
<1>2. served = {s \in RequestedSignals(reqs) : ExportersForSignal(s, backends) # {}}
  OBVIOUS
<1>3. DOMAIN pipelines = served /\ \A s \in served : pipelines[s] = ExportersForSignal(s, backends)
  OBVIOUS
<1> HIDE DEF pipelines, served, backends
<1>4. /\ CollectorModuleConfig(reqs).exporters = WriteExporters(backends)
      /\ CollectorModuleConfig(reqs).env = EnvVars(backends) \cup SecretVars(backends)
      /\ CollectorModuleConfig(reqs).ports = Ports(backends)
      /\ CollectorModuleConfig(reqs).pipelines = pipelines
  BY <1>1
<1> QED
  BY <1>2, <1>3, <1>4 DEF backends

\* What MapRequirements derives from a request is made from the requirements it accepts.
LEMMA AnswerParts ==
    ASSUME NEW runtime, NEW reqs, MapRequirements(runtime, reqs).modules # <<>>
    PROVE  LET accepted == Accepted(runtime, reqs)
           IN  /\ MapRequirements(runtime, reqs).accepted = accepted
               /\ MapRequirements(runtime, reqs).modules[1].config =
                     CollectorModuleConfig([i \in accepted |-> reqs[i]])
<1> DEFINE accepted == Accepted(runtime, reqs)
           config == CollectorModuleConfig([i \in accepted |-> reqs[i]])
<1>1. MapRequirements(runtime, reqs) =
         [accepted |-> accepted, rejected |-> DOMAIN reqs \ accepted,
          modules |-> IF accepted = {} THEN <<>>
                      ELSE <<[satisfies |-> accepted, config |-> config]>>]
  BY DEF MapRequirements
<1> HIDE DEF accepted, config
<1> QED
  BY <1>1 DEF accepted, config

\* What was answered is what MapRequirements makes of the request.
AnswerInv ==
    answer # None => /\ request.reqs \in Requirements
                     /\ answer = MapRequirements(request.runtime, request.reqs)

\* What a derived collector was derived from.
LEMMA DerivedFrom ==
    ASSUME AnswerInv, Derived
    PROVE  LET taken == [i \in answer.accepted |-> request.reqs[i]]
           IN  Config = CollectorModuleConfig(taken) /\ Known(taken)
<1>1. /\ request.reqs \in Requirements
      /\ answer = MapRequirements(request.runtime, request.reqs)
      /\ MapRequirements(request.runtime, request.reqs).modules # <<>>
  BY DEF AnswerInv, Derived
<1>2. /\ answer.accepted = Accepted(request.runtime, request.reqs)
      /\ Config = CollectorModuleConfig([i \in answer.accepted |-> request.reqs[i]])
  <2> DEFINE runtime == request.runtime
             reqs == request.reqs
             accepted == Accepted(runtime, reqs)
  <2> HIDE DEF runtime, reqs
  <2>1. /\ MapRequirements(runtime, reqs).accepted = accepted
        /\ MapRequirements(runtime, reqs).modules[1].config =
              CollectorModuleConfig([i \in accepted |-> reqs[i]])
    BY <1>1, AnswerParts DEF runtime, reqs
  <2>2. answer = MapRequirements(runtime, reqs)
    BY <1>1 DEF runtime, reqs
  <2>3. /\ answer.accepted = accepted
        /\ Config = CollectorModuleConfig([i \in accepted |-> reqs[i]])
    BY <2>1, <2>2 DEF Config
  <2> QED
    BY <2>3 DEF runtime, reqs
<1>3. answer.accepted \subseteq DOMAIN request.reqs
  BY <1>2 DEF Accepted
<1> QED
  BY <1>1, <1>2, <1>3, RequirementsAssumption DEF Known

LEMMA AnswerHolds == AnswerInv => CollectorHoldsTogether
<1> SUFFICES ASSUME AnswerInv, Derived
             PROVE  /\ \A s \in DOMAIN Config.pipelines : \A e \in Config.pipelines[s] :
                          \E x \in Config.exporters : x.name = e
                    /\ \A x, y \in Config.exporters : x.name = y.name => x = y
                    /\ \A x \in Config.exporters : /\ x.env \subseteq Config.env
                                                   /\ x.port \in Config.ports \cup {0}
  BY DEF CollectorHoldsTogether
<1> DEFINE taken == [i \in answer.accepted |-> request.reqs[i]]
           backends == RequestedBackends(taken)
<1>1. /\ Config.exporters = WriteExporters(backends)
      /\ Config.env = EnvVars(backends) \cup SecretVars(backends)
      /\ Config.ports = Ports(backends)
      /\ \A s \in DOMAIN Config.pipelines :
            Config.pipelines[s] = ExportersForSignal(s, backends)
  BY DerivedFrom, ConfigParts
<1>2. backends \subseteq Backend
  BY DerivedFrom, RequestedIsKnown
<1> HIDE DEF backends
<1>3. ASSUME NEW s \in DOMAIN Config.pipelines, NEW e \in Config.pipelines[s]
      PROVE  \E x \in Config.exporters : x.name = e
  <2>1. PICK b \in backends : e = Exporter(b)
    BY <1>1, <1>3 DEF ExportersForSignal
  <2>2. Section(b).name = e /\ Section(b) \in Config.exporters
    BY <1>1, <1>2, <2>1, SectionFits DEF WriteExporters
  <2> QED
    BY <2>2
<1>4. ASSUME NEW x \in Config.exporters, NEW y \in Config.exporters, x.name = y.name
      PROVE  x = y
  <2>1. PICK a \in backends, b \in backends : x = Section(a) /\ y = Section(b)
    BY <1>1 DEF WriteExporters
  <2>2. Exporter(a) = Exporter(b)
    BY <1>2, <1>4, <2>1, SectionFits
  <2> QED
    BY <1>2, <2>1, <2>2, ExportersDiffer
<1>5. ASSUME NEW x \in Config.exporters
      PROVE  x.env \subseteq Config.env /\ x.port \in Config.ports \cup {0}
  <2>1. PICK b \in backends : x = Section(b)
    BY <1>1 DEF WriteExporters
  <2> QED
    BY <1>1, <1>2, <2>1, SectionFits
<1> QED
  BY <1>3, <1>4, <1>5

LEMMA AnswerReaches == AnswerInv => TelemetryArrives
<1> SUFFICES ASSUME AnswerInv, Derived, NEW i \in answer.accepted,
                    NEW s \in request.reqs[i].signals, NEW b \in request.reqs[i].backends,
                    ~(b = "prometheus" /\ s # "metrics"), ~(b = "loki" /\ s # "logs")
             PROVE  s \in DOMAIN Config.pipelines /\ Exporter(b) \in Config.pipelines[s]
  BY DEF TelemetryArrives
<1> DEFINE taken == [k \in answer.accepted |-> request.reqs[k]]
           backends == RequestedBackends(taken)
<1>1. /\ DOMAIN Config.pipelines =
            {t \in RequestedSignals(taken) : ExportersForSignal(t, backends) # {}}
      /\ \A t \in DOMAIN Config.pipelines :
            Config.pipelines[t] = ExportersForSignal(t, backends)
  BY DerivedFrom, ConfigParts
<1>2. s \in RequestedSignals(taken) /\ b \in backends
  <2>1. i \in DOMAIN taken /\ taken[i] = request.reqs[i]
    OBVIOUS
  <2> HIDE DEF taken
  <2> QED
    BY <2>1, RequestedIsAsked
<1>3. Takes(b, s)
  BY DEF Takes
<1>4. Exporter(b) \in ExportersForSignal(s, backends)
  BY <1>2, <1>3 DEF ExportersForSignal
<1> QED
  BY <1>1, <1>2, <1>4

-----------------------------------------------------------------------------
(* The theorems *)

LoadInv == ModulesInv /\ AnswerInv

LEMMA LoadKeeps == LoadInv /\ [LoadNext]_<<vars, deriving>> => LoadInv'
<1> SUFFICES ASSUME LoadInv, [LoadNext]_<<vars, deriving>> PROVE LoadInv'  OBVIOUS
<1>1. ASSUME NEW runtime \in Runtime, NEW reqs \in Requirements, Ask(runtime, reqs)
      PROVE  LoadInv'
  <2>1. ModulesInv'
    BY <1>1, ModulesKeep DEF Ask, LoadInv
  <2>2. request'.runtime = runtime /\ request'.reqs = reqs
    BY <1>1 DEF Ask
  <2> QED
    BY <1>1, <2>1, <2>2 DEF Ask, LoadInv, AnswerInv
<1>2. CASE Take
  BY <1>2, ModulesKeep DEF Take, LoadInv, AnswerInv
<1>3. CASE Next /\ UNCHANGED deriving
  BY <1>3, ModulesKeep DEF LoadInv, AnswerInv, deriving
<1>4. CASE UNCHANGED <<vars, deriving>>
  BY <1>4, ModulesKeep DEF LoadInv, AnswerInv, deriving
<1> QED
  BY <1>1, <1>2, <1>3, <1>4 DEF LoadNext

LEMMA LoadHolds == LoadSpec => []LoadInv
<1>1. LoadInit => LoadInv
  BY ModulesInit DEF LoadInit, LoadInv, AnswerInv
<1> QED
  BY <1>1, LoadKeeps, PTL DEF LoadSpec

\* The types of the modules' state, in every state of a plugin that loads configurations.
THEOREM ModulesTypes == LoadSpec => []TypeOK
<1>1. LoadInv => TypeOK
  BY ModulesInvTypes DEF LoadInv
<1> QED
  BY <1>1, LoadHolds, PTL

\* A storage module created with a reference works with the credentials that stand under that
\* name, as nothing registered is ever replaced; inline credentials are its own.
THEOREM ReferencesStand == LoadSpec => []CredsAgree
<1>1. LoadInv => CredsAgree
  BY DEF LoadInv, ModulesInv
<1> QED
  BY <1>1, LoadHolds, PTL

\* A client that is open is the one its module will close, through failed and repeated Stops.
THEOREM OpenClientsAreKept == LoadSpec => []ClientsAreKept
<1>1. LoadInv => ClientsAreKept
  BY DEF LoadInv, ModulesInv
<1> QED
  BY <1>1, LoadHolds, PTL

\* A Put that answered success has not left a part of its data in the object.
THEOREM PartsAreTold == LoadSpec => []PartIsTold
<1>1. LoadInv => PartIsTold
  BY DEF LoadInv, ModulesInv, PartHasError, PartIsTold
<1> QED
  BY <1>1, LoadHolds, PTL

\* Whatever is required, the parts of a derived collector's configuration refer only to parts
\* that are there.
THEOREM CollectorsHoldTogether == LoadSpec => []CollectorHoldsTogether
<1>1. LoadInv => CollectorHoldsTogether
  BY AnswerHolds DEF LoadInv
<1> QED
  BY <1>1, LoadHolds, PTL

\* Whatever is required, telemetry that was accepted reaches the backends that take it.
THEOREM TelemetryReaches == LoadSpec => []TelemetryArrives
<1>1. LoadInv => TelemetryArrives
  BY AnswerReaches DEF LoadInv
<1> QED
  BY <1>1, LoadHolds, PTL
=============================================================================
