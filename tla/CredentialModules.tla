-------------------------- MODULE CredentialModules --------------------------
(***************************************************************************)
(* The standalone modules of the plugin.  gcp.credentials registers its    *)
(* credentials by name for the process; storage.gcs takes its credentials  *)
(* once, when it is created, and its client is made by Start, closed by    *)
(* Stop and handed, under a mutex, to the storage calls, which use it      *)
(* after the mutex is let go.                                              *)
(***************************************************************************)
EXTENDS Naturals, Sequences

CONSTANTS
    Name,       \* names of gcp.credentials modules
    Cred,       \* credentials
    Adc,        \* the application default credentials
    Storage,    \* storage.gcs modules
    None,       \* not there, not given
    Caller,     \* callers of the storage calls
    MaxClients, \* bound: clients made
    MaxPuts,    \* bound: Put calls
    MaxFaults   \* bound: client calls and readers that fail

ASSUME ModulesAssumption ==
    None \notin Cred /\ Adc \notin Cred \cup {None}
    /\ MaxClients \in Nat /\ MaxPuts \in Nat /\ MaxFaults \in Nat

VARIABLES
    registry,  \* the credentials registered under each name
    module,    \* of each storage.gcs: its credentials and its client, or None
    asked,     \* history: the inline credentials and the reference it was created with
    clients,   \* the clients made: which module's, and whether open
    down,      \* storage modules the host regards as not started
    call,      \* the Put of each caller
    object,    \* the object: the Put whose data it holds, all of it or a part; 0: none
    told,      \* history: what each Put was answered
    faults

modules == <<registry, module, asked>>
bucket == <<call, object, told>>
vars == <<modules, clients, down, bucket, faults>>

Absent == [cred |-> None, client |-> 0]
Idle == [at |-> "idle", put |-> 0, client |-> 0]

Init ==
    /\ registry = [n \in Name |-> None]
    /\ module = [s \in Storage |-> Absent] /\ asked = [s \in Storage |-> <<None, None>>]
    /\ clients = <<>> /\ down = Storage
    /\ call = [c \in Caller |-> Idle] /\ object = [put |-> 0, whole |-> TRUE] /\ told = <<>>
    /\ faults = 0

Fault == faults < MaxFaults /\ faults' = faults + 1

(***************************************************************************)
(* CreateModule.                                                           *)
(***************************************************************************)
\* Mutant of Register: the second registration replaces the first.
RegisterAgain(n, cred) == registry' = [registry EXCEPT ![n] = cred]

\* A second registration is an error, and nothing is ever taken out.
Register(n, cred) ==
    registry' = IF registry[n] = None THEN [registry EXCEPT ![n] = cred] ELSE registry

CreateCredentials(n, cred) ==
    Register(n, cred) /\ UNCHANGED <<module, asked, clients, down, bucket, faults>>

\* The inline block beats the reference; a reference that is not registered is an error.
Resolved(inline, ref) ==
    IF inline # None THEN inline ELSE IF ref # None THEN registry[ref] ELSE Adc

CreateStorage(s, inline, ref) ==
    /\ module[s] = Absent /\ Resolved(inline, ref) # None
    /\ module' = [module EXCEPT ![s].cred = Resolved(inline, ref)]
    /\ asked' = [asked EXCEPT ![s] = <<inline, ref>>]
    /\ UNCHANGED <<registry, clients, down, bucket, faults>>

(***************************************************************************)
(* Start and Stop: the host starts what is down, may stop anything, and    *)
(* repeats what failed.                                                    *)
(***************************************************************************)
Start(s) ==
    /\ s \in down /\ module[s].cred # None
    /\ \/ /\ Len(clients) < MaxClients
          /\ clients' = Append(clients, [of |-> s, open |-> TRUE])
          /\ module' = [module EXCEPT ![s].client = Len(clients')]
          /\ down' = down \ {s} /\ UNCHANGED faults
       \/ Fault /\ UNCHANGED <<clients, module, down>>
    /\ UNCHANGED <<registry, asked, bucket>>

\* Mutant of CloseClient: the client is forgotten though it would not close.
CloseClientForgets(s) ==
    /\ module' = [module EXCEPT ![s].client = 0]
    /\ \/ clients' = [clients EXCEPT ![module[s].client].open = FALSE]
          /\ down' = down \cup {s} /\ UNCHANGED faults
       \/ Fault /\ UNCHANGED <<clients, down>>

\* A client that would not close is kept.
CloseClient(s) ==
    \/ /\ clients' = [clients EXCEPT ![module[s].client].open = FALSE]
       /\ module' = [module EXCEPT ![s].client = 0]
       /\ down' = down \cup {s} /\ UNCHANGED faults
    \/ Fault /\ UNCHANGED <<clients, module, down>>

Stop(s) ==
    /\ module[s].cred # None
    /\ IF module[s].client # 0 THEN CloseClient(s)
       ELSE down' = down \cup {s} /\ UNCHANGED <<clients, module, faults>>
    /\ UNCHANGED <<registry, asked, bucket>>

(***************************************************************************)
(* Put takes the client, copies the data into a writer, and closes the     *)
(* writer, which makes the object of what was copied.                      *)
(***************************************************************************)
\* Mutant of BeginPut: a module that was not started is not noticed.
BeginPutUnready(c, s) ==
    /\ call[c].at = "idle" /\ module[s].cred # None /\ Len(told) < MaxPuts
    /\ told' = Append(told, "none")
    /\ call' = [call EXCEPT ![c] = [at |-> "copy", put |-> Len(told'), client |-> module[s].client]]
    /\ UNCHANGED <<modules, clients, down, object, faults>>

BeginPut(c, s) ==
    /\ call[c].at = "idle" /\ module[s].cred # None
    /\ \/ module[s].client = 0 /\ UNCHANGED <<call, told>>
       \/ /\ module[s].client # 0 /\ Len(told) < MaxPuts
          /\ told' = Append(told, "none")
          /\ call' = [call EXCEPT ![c] = [at |-> "copy", put |-> Len(told'),
                                         client |-> module[s].client]]
    /\ UNCHANGED <<modules, clients, down, object, faults>>

\* The reader, or the upload, may fail on the way.
Copy(c) ==
    /\ call[c].at = "copy"
    /\ \/ call' = [call EXCEPT ![c].at = "close"] /\ UNCHANGED faults
       \/ call' = [call EXCEPT ![c].at = "close part"] /\ Fault
    /\ UNCHANGED <<modules, clients, down, object, told>>

Answer(c, word) ==
    told' = [told EXCEPT ![call[c].put] = word] /\ call' = [call EXCEPT ![c] = Idle]
Commit(c, whole) ==
    clients[call[c].client].open /\ object' = [put |-> call[c].put, whole |-> whole]

\* Mutant of CloseWriter: what io.Copy returned is not looked at.
CloseWriterAnyway(c) ==
    /\ call[c].at \in {"close", "close part"}
    /\ Commit(c, call[c].at = "close") /\ Answer(c, "ok") /\ UNCHANGED faults
    /\ UNCHANGED <<modules, clients, down>>

\* After a failed copy the writer is closed too, and what was copied may become the object.
CloseWriter(c) ==
    /\ \/ /\ call[c].at = "close" /\ Commit(c, TRUE) /\ Answer(c, "ok") /\ UNCHANGED faults
       \/ /\ call[c].at = "close" /\ (Fault /\ (Commit(c, TRUE) \/ UNCHANGED object))
          /\ Answer(c, "error")
       \/ /\ call[c].at = "close" /\ ~clients[call[c].client].open /\ Answer(c, "error")
          /\ UNCHANGED <<object, faults>>
       \/ /\ call[c].at = "close part" /\ (Commit(c, FALSE) \/ UNCHANGED object)
          /\ Answer(c, "error") /\ UNCHANGED faults
    /\ UNCHANGED <<modules, clients, down>>

DeleteObject(s) ==
    /\ module[s].client # 0 /\ object' = [put |-> 0, whole |-> TRUE]
    /\ UNCHANGED <<modules, clients, down, call, told, faults>>

Next ==
    \/ \E n \in Name, cred \in Cred : CreateCredentials(n, cred)
    \/ \E s \in Storage :
          \/ \E inline \in Cred \cup {None}, ref \in Name \cup {None} : CreateStorage(s, inline, ref)
          \/ Start(s) \/ Stop(s) \/ DeleteObject(s)
          \/ \E c \in Caller : BeginPut(c, s)
    \/ \E c \in Caller : Copy(c) \/ CloseWriter(c)

Spec == Init /\ [][Next]_vars

(***************************************************************************)
(* Properties.                                                             *)
(***************************************************************************)
TypeOK ==
    /\ registry \in [Name -> Cred \cup {None}]
    /\ module \in [Storage -> [cred : Cred \cup {Adc, None}, client : 0..Len(clients)]]
    /\ \A s \in Storage : module[s].client # 0 => module[s].cred # None
    /\ \A i \in DOMAIN clients : clients[i].of \in Storage /\ clients[i].open \in BOOLEAN
    /\ \A c \in Caller :
          /\ call[c].at \in {"idle", "copy", "close", "close part"}
          /\ call[c].at # "idle" => call[c].client \in DOMAIN clients /\ call[c].put \in DOMAIN told
    /\ object.put \in 0..Len(told) /\ \A i \in DOMAIN told : told[i] \in {"none", "ok", "error"}
    /\ down \subseteq Storage /\ Len(clients) <= MaxClients /\ faults \in 0..MaxFaults

\* A module that was created with a reference works with what is registered under that name
\* now, whatever was registered or refused since; inline credentials are its own.
CredsAgree ==
    \A s \in Storage : module[s].cred # None =>
        LET inline == asked[s][1]
            ref == asked[s][2]
        IN  /\ inline # None => module[s].cred = inline
            /\ inline = None /\ ref # None => module[s].cred = registry[ref]

\* An open client is the one its module would close: none is left behind by a Stop that failed
\* and was repeated, or by a Start after it.
ClientsAreKept ==
    \A i \in DOMAIN clients : clients[i].open => module[clients[i].of].client = i

\* An object that holds a part of what was put was made by a Put that answered an error, or has
\* not answered yet: a Put that succeeded is whole until another write.
PartIsTold == ~object.whole => told[object.put] # "ok"
=============================================================================
