---------------------------- MODULE GcsStateStore ----------------------------
(***************************************************************************)
(* The typed IaC state backend of the plugin: the state RPCs of            *)
(* internal/statebackend_server.go over GCSIaCStateStore and its real      *)
(* client (internal/statebackend/gcs.go).                                  *)
(*                                                                         *)
(* Several plugin processes share one bucket, and every process serves     *)
(* several RPCs at once, each in a goroutine of its own.  A handler is a   *)
(* sequence of client calls; other handlers run between any two of them,   *)
(* a client call may fail with its request still on the way to the bucket, *)
(* and a process may die at any point.                                     *)
(*                                                                         *)
(* A session is one sequential caller on the host's side (one apply run):  *)
(* it issues one RPC at a time and remembers the locks it was granted.     *)
(***************************************************************************)
EXTENDS Naturals, FiniteSets

CONSTANTS
    Process,        \* plugin processes
    Session,        \* sequential callers of the state RPCs
    ProcessOf,      \* [Session -> Process]: the process a session talks to
    Cfg,            \* iac.state module configurations (bucket, prefix)
    Delivers,       \* [Process -> SUBSET Cfg]: what a process's host may Configure
    Id,             \* resource IDs
    EmptyId,        \* the empty resource ID, a member of Id or not
    Name,           \* sanitized resource IDs
    SanitizeID,     \* [Id -> Name]: "/" and "\" become "_"
    Status,         \* values of a record's status field
    Garbage,        \* the status of an object that is not a JSON record
    None,           \* no argument, no session
    Filter,         \* ListStates filters: functions from field names to values
    Undecodable,    \* keys at which somebody else put an object that is not JSON
    Ops,            \* the RPCs the sessions issue
    Disciplined,    \* TRUE: a session writes and unlocks only what it has locked
    RetryUnlock,    \* TRUE: a session repeats an Unlock that answered an error
    Faults,         \* how a client call may fail: subset of {"transient", "cancel"}
    MaxFaults,      \* bound: failed client calls
    MaxCrashes,     \* bound: deaths of processes and sessions
    MaxEpoch,       \* bound: Configure calls
    MaxGen          \* bound: generations of state objects

Key == Cfg \X Name
AllOps == {"GetState", "SaveState", "ListStates", "DeleteState", "Lock", "Unlock"}

ConstantsOK ==
    /\ ProcessOf \in [Session -> Process]
    /\ Delivers \in [Process -> SUBSET Cfg]
    /\ SanitizeID \in [Id -> Name]
    /\ Ops \subseteq AllOps
    /\ None \notin Session
    /\ Garbage \notin Status
    /\ Undecodable \subseteq Key
    /\ Disciplined \in BOOLEAN
    /\ RetryUnlock \in BOOLEAN
    /\ Faults \subseteq {"transient", "cancel"}
    /\ {MaxFaults, MaxCrashes, MaxEpoch, MaxGen} \subseteq Nat

ASSUME GcsStateStoreAssumption == ConstantsOK

VARIABLES
    store,      \* [Process -> Store]: stateBackend.store
    epoch,      \* Configure calls so far: tells one GCSIaCStateStore from the next
    rpc,        \* [Session -> the RPC it has in flight, or its last one answered]
    records,    \* the bucket's *.json objects
    locks,      \* the bucket's *.lock objects, each with the session that wrote it
    gen,        \* the last generation the bucket gave to a state object
    late,       \* requests whose caller was told "failed" that may still take effect
    held,       \* [Session -> the lock keys it was granted and has not given back]
    view,       \* history: the generation a lock holder knows a record to have
    doubt,      \* history: keys of writes and deletes that failed with the request sent
    faults,     \* failed client calls so far
    crashes     \* processes and sessions that died so far

vars == <<store, epoch, rpc, records, locks, gen, late, held, view, doubt, faults, crashes>>

bucket == <<records, locks, gen>>
host   == <<held, view>>
fate   == <<late, doubt, faults, crashes>>
plugin == <<store, epoch>>

-----------------------------------------------------------------------------
(* Data *)

\* Mutant of KeyOf: the ID is left out of the object key.
KeyOfPrefix(c, id) == <<c, CHOOSE n \in Name : TRUE>>

\* prefix + sanitizeID(id); ".json" and ".lock" tell records and locks apart.
KeyOf(c, id) == <<c, SanitizeID[id]>>

NoStore == [epoch |-> 0]
Stores  == [epoch : Nat, cfg : Cfg]

\* Generation 0 is the bucket's word for "there is no such object".
NoObject == [gen |-> 0]
Object   == [gen : Nat \ {0}, resource_id : Id \cup {None}, status : Status \cup {Garbage}]
Decodes(o) == o.status # Garbage

\* Of a filter's fields only these are honoured; any other field is ignored.
Honoured == {"resource_type", "provider", "status"}
MatchesFilter(o, f) == \A field \in DOMAIN f \cap Honoured : o[field] = f[field]

Steps   == {"attrs", "read", "write", "confirm", "delete", "list", "each",
            "create", "created", "map", "remove", "done"}
Outcome == {"pending", "ok", "error", "not_found", "already_locked", "not_locked", "unconfigured"}
Call    == [op : AllOps, at : Steps, id : Id, arg : Status \cup Filter \cup {Garbage, None},
            cfg : Cfg, epoch : Nat, since : Nat, todo : SUBSET Key, got : SUBSET Object,
            out : Outcome]
Reply   == [op : AllOps \cup {"none"}, at : {"done"}, out : Outcome]
Idle    == [op |-> "none", at |-> "done", out |-> "ok"]

\* The client call a handler makes first.
FirstStep == [GetState |-> "attrs", SaveState |-> "write", DeleteState |-> "delete",
              ListStates |-> "list", Lock |-> "create", Unlock |-> "remove"]

\* A request to change the bucket, as it may outlive the handler that sent it.
Changing == {"write", "delete", "create", "remove"}
Request  == [at : Changing, key : Key, by : Session, id : Id, arg : Status \cup Filter \cup {Garbage, None}]

Busy(s)      == rpc[s].at # "done"
Target(s)    == KeyOf(rpc[s].cfg, rpc[s].id)
RequestOf(s) == [at |-> rpc[s].at, key |-> Target(s), by |-> s, id |-> rpc[s].id, arg |-> rpc[s].arg]

GoTo(s, step)    == rpc' = [rpc EXCEPT ![s].at = step]
Answer(s, out)   == rpc' = [rpc EXCEPT ![s] = [Idle EXCEPT !.op = rpc[s].op, !.out = out]]
AnswerWith(s, objs) == rpc' = [rpc EXCEPT ![s].at = "done", ![s].out = "ok", ![s].got = objs]
Failed(call, out)   == [call EXCEPT !.at = "done", !.out = out]

\* A lock holder that learns a record's generation remembers it while it holds the lock.
Learn(s, g) == view' = IF Target(s) \in held[s] THEN [view EXCEPT ![s][Target(s)] = {g}] ELSE view

\* Bound: writes under way or on their way count against MaxGen.  As the bucket starts at
\* generation 1, MaxGen - 1 uploads take effect.
WriteFits == gen + Cardinality({s \in Session : rpc[s].at = "write"})
                 + Cardinality({r \in late : r.at = "write"}) < MaxGen

PutRecord(k, id, status) ==
    /\ gen' = gen + 1
    /\ records' = [records EXCEPT ![k] = [gen |-> gen + 1, resource_id |-> id, status |-> status]]

DropRecord(k) == records' = [records EXCEPT ![k] = NoObject] /\ UNCHANGED gen

TypeOK ==
    /\ store \in [Process -> Stores \cup {NoStore}]
    /\ epoch \in Nat
    /\ rpc \in [Session -> Call \cup Reply]
    /\ records \in [Key -> Object \cup {NoObject}]
    /\ locks \in [Key -> Session \cup {None}]
    /\ gen \in Nat
    /\ late \subseteq Request
    /\ held \in [Session -> SUBSET Key]
    /\ view \in [Session -> [Key -> SUBSET Nat]]
    /\ doubt \subseteq Key
    /\ faults \in Nat
    /\ crashes \in Nat

Init ==
    /\ store = [p \in Process |-> NoStore]
    /\ epoch = 0
    /\ rpc = [s \in Session |-> Idle]
    /\ records = [k \in Key |-> IF k \in Undecodable
                               THEN [gen |-> 1, resource_id |-> None, status |-> Garbage]
                               ELSE NoObject]
    /\ locks = [k \in Key |-> None]
    /\ gen = 1
    /\ late = {}
    /\ held = [s \in Session |-> {}]
    /\ view = [s \in Session |-> [k \in Key |-> {}]]
    /\ doubt = {}
    /\ faults = 0
    /\ crashes = 0

-----------------------------------------------------------------------------
(* The host: it configures the plugin and issues RPCs *)

\* A later Configure replaces the store; handlers that resolved the old one keep it.
Configure(p, c) ==
    /\ epoch < MaxEpoch
    /\ epoch' = epoch + 1
    /\ store' = [store EXCEPT ![p] = [epoch |-> epoch + 1, cfg |-> c]]
    /\ UNCHANGED <<rpc, bucket, host, fate>>

\* resolveStore finds no store: FailedPrecondition, for every RPC.
Unconfigured(s, op) ==
    /\ ~Busy(s)
    /\ store[ProcessOf[s]] = NoStore
    /\ rpc' = [rpc EXCEPT ![s] = [Idle EXCEPT !.op = op, !.out = "unconfigured"]]
    /\ UNCHANGED <<plugin, bucket, host, fate>>

\* SaveState's early returns: a message that does not decode, an empty resource ID.
Rejected(s, id, status) ==
    /\ ~Busy(s)
    /\ store[ProcessOf[s]] # NoStore
    /\ id = EmptyId \/ status = Garbage
    /\ rpc' = [rpc EXCEPT ![s] = [Idle EXCEPT !.op = "SaveState", !.out = "error"]]
    /\ UNCHANGED <<plugin, bucket, host, fate>>

\* What a disciplined session calls: it changes a record only under its lock, and
\* gives back a lock once (or again after an error, if RetryUnlock).
MayCall(s, op, k) ==
    /\ op \in {"SaveState", "DeleteState"} => k \in held[s]
    /\ op = "Unlock" => \/ k \in held[s]
                        \/ /\ RetryUnlock
                           /\ rpc[s].op = "Unlock" /\ rpc[s].out = "error"
                           /\ Target(s) = k

\* An RPC arrives and resolves the store: from here on it works on that store.
Invoke(s, op, id, arg) ==
    /\ ~Busy(s)
    /\ store[ProcessOf[s]] # NoStore
    /\ LET st == store[ProcessOf[s]]
           k  == KeyOf(st.cfg, id)
       IN /\ Disciplined => MayCall(s, op, k)
          /\ rpc' = [rpc EXCEPT ![s] =
                      [op |-> op, at |-> FirstStep[op], id |-> id, arg |-> arg,
                       cfg |-> st.cfg, epoch |-> st.epoch, since |-> 0, todo |-> {},
                       got |-> {}, out |-> "pending"]]
          /\ IF op = "Unlock"
             THEN /\ held' = [held EXCEPT ![s] = @ \ {k}]
                  /\ view' = [view EXCEPT ![s][k] = {}]
             ELSE UNCHANGED host
    /\ UNCHANGED <<plugin, bucket, fate>>

-----------------------------------------------------------------------------
(* GetState, SaveState, DeleteState *)

\* ReadObject asks for the attributes first: a missing object is "nil, nil" ...
GetAttrs(s) ==
    /\ rpc[s].at = "attrs"
    /\ IF records[Target(s)] = NoObject
       THEN Answer(s, "not_found") /\ Learn(s, 0)
       ELSE GoTo(s, "read") /\ UNCHANGED view
    /\ UNCHANGED <<plugin, bucket, held, fate>>

\* ... and then opens a reader, whose "does not exist" is passed on as an error.
GetRead(s) ==
    /\ rpc[s].at = "read"
    /\ LET o == records[Target(s)] IN
       IF o # NoObject /\ Decodes(o)
       THEN AnswerWith(s, {o}) /\ Learn(s, o.gen)
       ELSE Answer(s, "error") /\ UNCHANGED view
    /\ UNCHANGED <<plugin, bucket, held, fate>>

\* Mutant of SaveWrite: the upload is answered for before it is over.
SaveWriteAsync(s) ==
    /\ rpc[s].at = "write"
    /\ late' = late \cup {RequestOf(s)}
    /\ Answer(s, "ok")
    /\ UNCHANGED <<plugin, bucket, host, doubt, faults, crashes>>

\* The upload takes effect when the writer closes; no precondition guards it.
SaveWrite(s) ==
    /\ rpc[s].at = "write"
    /\ PutRecord(Target(s), rpc[s].id, rpc[s].arg)
    /\ Learn(s, gen + 1)
    /\ GoTo(s, "confirm")
    /\ UNCHANGED <<plugin, locks, held, fate>>

\* WriteObject then asks for the attributes, and fails if the object is gone again.
SaveConfirm(s) ==
    /\ rpc[s].at = "confirm"
    /\ Answer(s, IF records[Target(s)] = NoObject THEN "error" ELSE "ok")
    /\ UNCHANGED <<plugin, bucket, host, fate>>

DeleteRecord(s) ==
    /\ rpc[s].at = "delete"
    /\ Answer(s, IF records[Target(s)] = NoObject THEN "not_found" ELSE "ok")
    /\ DropRecord(Target(s))
    /\ Learn(s, 0)
    /\ UNCHANGED <<plugin, locks, held, fate>>

-----------------------------------------------------------------------------
(* ListStates *)

\* The listing is a snapshot of the keys, not of the objects.
ListKeys(s) ==
    /\ rpc[s].at = "list"
    /\ rpc' = [rpc EXCEPT ![s].at = "each", ![s].since = gen,
                          ![s].todo = {k \in Key : k[1] = rpc[s].cfg /\ records[k] # NoObject}]
    /\ UNCHANGED <<plugin, bucket, host, fate>>

\* One read per key, in any order: an object that is gone or does not decode is skipped.
ListRead(s) ==
    /\ rpc[s].at = "each"
    /\ \E k \in rpc[s].todo :
          LET o == records[k] IN
          rpc' = [rpc EXCEPT ![s].todo = @ \ {k},
                             ![s].got = IF o # NoObject /\ Decodes(o) /\ MatchesFilter(o, rpc[s].arg)
                                        THEN @ \cup {o} ELSE @]
    /\ UNCHANGED <<plugin, bucket, host, fate>>

ListAnswer(s) ==
    /\ rpc[s].at = "each"
    /\ rpc[s].todo = {}
    /\ AnswerWith(s, rpc[s].got)
    /\ UNCHANGED <<plugin, bucket, host, fate>>

-----------------------------------------------------------------------------
(* Lock and Unlock *)

\* Mutants of LockCreate: no precondition; a contended Lock "cleans up" the lock object.
LockOverwrite(s) ==
    /\ rpc[s].at = "create"
    /\ locks' = [locks EXCEPT ![Target(s)] = s]
    /\ GoTo(s, "created")
    /\ UNCHANGED <<plugin, records, gen, host, fate>>
LockCleanUp(s) ==
    /\ rpc[s].at = "create"
    /\ IF locks[Target(s)] = None
       THEN /\ locks' = [locks EXCEPT ![Target(s)] = s]
            /\ GoTo(s, "created")
       ELSE /\ Answer(s, "already_locked")
            /\ locks' = [locks EXCEPT ![Target(s)] = None]
    /\ UNCHANGED <<plugin, records, gen, host, fate>>

\* The lock object is created only if it does not exist (generation 0).
LockCreate(s) ==
    /\ rpc[s].at = "create"
    /\ IF locks[Target(s)] = None
       THEN /\ locks' = [locks EXCEPT ![Target(s)] = s]
            /\ GoTo(s, "created")
       ELSE /\ Answer(s, "already_locked")
            /\ UNCHANGED locks
    /\ UNCHANGED <<plugin, records, gen, host, fate>>

\* The attributes of the new object are read back; if it is gone already, Lock fails.
LockCreated(s) ==
    /\ rpc[s].at = "created"
    /\ IF locks[Target(s)] = None THEN Answer(s, "error") ELSE GoTo(s, "map")
    /\ UNCHANGED <<plugin, bucket, host, fate>>

\* Mutant of LockGranted: the lock is remembered by resource ID, not by key.
LockGrantedById(s) ==
    /\ rpc[s].at = "map" /\ rpc[s].op = "Lock"
    /\ Answer(s, "ok")
    /\ held' = [held EXCEPT ![s] = @ \cup {rpc[s].id}]
    /\ UNCHANGED <<plugin, bucket, view, fate>>

\* lockState[resourceID] = gen, and the answer.  No code reads lockState: what is kept
\* of it is the write, which no mutex guards (see MapRace).
LockGranted(s) ==
    /\ rpc[s].at = "map" /\ rpc[s].op = "Lock"
    /\ Answer(s, "ok")
    /\ held' = [held EXCEPT ![s] = @ \cup {Target(s)}]
    /\ view' = [view EXCEPT ![s][Target(s)] = {}]
    /\ UNCHANGED <<plugin, bucket, fate>>

\* Mutant of UnlockRemove: the state object is deleted instead of the lock object.
UnlockRemovesState(s) ==
    /\ rpc[s].at = "remove"
    /\ GoTo(s, "map")
    /\ DropRecord(Target(s))
    /\ UNCHANGED <<plugin, locks, host, fate>>

\* The lock object is deleted whoever created it.
UnlockRemove(s) ==
    /\ rpc[s].at = "remove"
    /\ IF locks[Target(s)] = None
       THEN Answer(s, "not_locked")
       ELSE GoTo(s, "map")
    /\ locks' = [locks EXCEPT ![Target(s)] = None]
    /\ UNCHANGED <<plugin, records, gen, host, fate>>

\* delete(lockState, resourceID), and the answer.
UnlockDone(s) ==
    /\ rpc[s].at = "map" /\ rpc[s].op = "Unlock"
    /\ Answer(s, "ok")
    /\ UNCHANGED <<plugin, bucket, host, fate>>

-----------------------------------------------------------------------------
(* Failures *)

\* The calls of the sessions in S end here.  Of the requests they had sent, any may
\* still reach the bucket.
Abandon(S) ==
    \E R \in SUBSET {RequestOf(s) : s \in {t \in S : rpc[t].at \in Changing}} :
        /\ late' = late \cup R
        /\ doubt' = doubt \cup {r.key : r \in {q \in R : q.at \in {"write", "delete"}}}

\* Mutant of Fail: a listing skips an object even when its context is over.
FailSkips(s, kind) ==
    /\ faults < MaxFaults
    /\ faults' = faults + 1
    /\ rpc[s].at = "each"
    /\ \E k \in rpc[s].todo : rpc' = [rpc EXCEPT ![s].todo = @ \ {k}]
    /\ UNCHANGED <<plugin, bucket, host, late, doubt, crashes>>

\* A client call fails.  Lock reads every failure of the closing writer as "already
\* locked"; ListStates skips the object unless the RPC's context is over.
Fail(s, kind) ==
    /\ faults < MaxFaults
    /\ faults' = faults + 1
    /\ Busy(s) /\ rpc[s].at # "map"
    /\ \/ /\ rpc[s].at = "each" /\ kind = "transient"
          /\ \E k \in rpc[s].todo : rpc' = [rpc EXCEPT ![s].todo = @ \ {k}]
       \/ /\ rpc[s].at = "each" => kind = "cancel" /\ rpc[s].todo # {}
          /\ \E out \in IF rpc[s].at = "create" THEN {"already_locked", "error"} ELSE {"error"} :
                rpc' = [rpc EXCEPT ![s] = Failed(@, out)]
    /\ Abandon({s})
    /\ UNCHANGED <<plugin, bucket, host, crashes>>

\* A request given up by its sender reaches the bucket after all.
Land(r) ==
    /\ late' = late \ {r}
    /\ \/ r.at = "write"  /\ PutRecord(r.key, r.id, r.arg) /\ UNCHANGED locks
       \/ r.at = "delete" /\ DropRecord(r.key) /\ UNCHANGED locks
       \/ /\ r.at = "create"
          /\ locks' = IF locks[r.key] = None THEN [locks EXCEPT ![r.key] = r.by] ELSE locks
          /\ UNCHANGED <<records, gen>>
       \/ /\ r.at = "remove"
          /\ locks' = [locks EXCEPT ![r.key] = None]
          /\ UNCHANGED <<records, gen>>
    /\ UNCHANGED <<plugin, rpc, host, doubt, faults, crashes>>

\* A plugin process dies: its calls fail, its store is gone; the bucket and the hosts stay.
Die(p) ==
    LET S == {s \in Session : ProcessOf[s] = p /\ Busy(s)} IN
    /\ rpc' = [s \in Session |-> IF s \in S THEN Failed(rpc[s], "error") ELSE rpc[s]]
    /\ store' = [store EXCEPT ![p] = NoStore]
    /\ crashes' = crashes + 1
    /\ Abandon(S)
    /\ UNCHANGED <<epoch, bucket, host, faults>>

ProcessDies(p) == crashes < MaxCrashes /\ store[p] # NoStore /\ Die(p)

\* Two handlers write the lockState map of one store at once: the Go runtime may stop
\* the process ("fatal error: concurrent map writes"), or not notice.
Racing(s, t) ==
    /\ s # t
    /\ ProcessOf[s] = ProcessOf[t]
    /\ rpc[s].at = "map" /\ rpc[t].at = "map"
    /\ rpc[s].epoch = rpc[t].epoch

MapRace(p) ==
    /\ \E s, t \in Session : ProcessOf[s] = p /\ Racing(s, t)
    /\ Die(p)

\* A caller dies with its locks: nobody is left who would call Unlock.
SessionDies(s) ==
    /\ crashes < MaxCrashes
    /\ Busy(s) \/ held[s] # {}
    /\ crashes' = crashes + 1
    /\ rpc' = [rpc EXCEPT ![s] = Idle]
    /\ held' = [held EXCEPT ![s] = {}]
    /\ view' = [view EXCEPT ![s] = [k \in Key |-> {}]]
    /\ Abandon({s})
    /\ UNCHANGED <<plugin, bucket, faults>>

-----------------------------------------------------------------------------

Handler(s) ==
    \/ GetAttrs(s)   \/ GetRead(s)     \/ SaveWrite(s)    \/ SaveConfirm(s)
    \/ DeleteRecord(s)
    \/ ListKeys(s)   \/ ListRead(s)    \/ ListAnswer(s)
    \/ LockCreate(s) \/ LockCreated(s) \/ LockGranted(s)
    \/ UnlockRemove(s) \/ UnlockDone(s)

\* The RPCs a session issues, with every argument the host may pass.
Args(op) == CASE op = "SaveState"  -> Status
              [] op = "ListStates" -> Filter
              [] OTHER             -> {None}

Calls(s) == \E op \in Ops, id \in Id :
    \/ \E arg \in Args(op) :
          /\ op = "SaveState" => id # EmptyId /\ WriteFits
          /\ Invoke(s, op, id, arg)
    \/ op = "SaveState" /\ \E arg \in Status \cup {Garbage} : Rejected(s, id, arg)
    \/ Unconfigured(s, op)

Next ==
    \/ \E s \in Session : Calls(s) \/ Handler(s) \/ SessionDies(s)
    \/ \E s \in Session, kind \in Faults : Fail(s, kind)
    \/ \E r \in late : Land(r)
    \/ \E p \in Process : ProcessDies(p) \/ MapRace(p) \/ \E c \in Delivers[p] : Configure(p, c)

Spec == Init /\ [][Next]_vars

-----------------------------------------------------------------------------
(* Properties *)

\* "Lock acquires an exclusive lock" (gcs.go:55): two sessions never both have a granted
\* Lock of one key, whatever fails, dies or lands late.
MutualExclusion ==
    \A s, t \in Session : s # t => held[s] \cap held[t] = {}

\* While a session holds a lock, the lock object it created stands in the bucket: no
\* failure path of Lock, no late request and no other session's call removes it.
HeldLockStands ==
    \A s \in Session : \A k \in held[s] : locks[k] = s

\* Without failed calls and deaths no lock object is left behind: each belongs to a
\* session that holds it, is being told so, or is giving it back.
OrphanNeedsFault ==
    faults = 0 /\ crashes = 0 =>
        \A k \in Key : locks[k] # None =>
            LET s == locks[k] IN
            \/ k \in held[s]
            \/ Busy(s) /\ Target(s) = k /\ rpc[s].at \in {"created", "map", "remove"}

\* The strengthening that makes HeldLockStands inductive: a session between creating a lock
\* object and being told so, one about to remove it, and a removal still on its way each
\* have the lock object of that session's to themselves.
Acquiring(s) == rpc[s].at = "created" \/ (rpc[s].at = "map" /\ rpc[s].op = "Lock")
Releasing(s) == rpc[s].at = "remove"
Claiming(s)  == Acquiring(s) \/ Releasing(s)
ClaimsStand  == \A s \in Session : Claiming(s) => locks[Target(s)] = s /\ Target(s) \notin held[s]
LateRemovals ==
    \A r \in late : r.at = "remove" =>
        /\ locks[r.key] = r.by
        /\ r.key \notin held[r.by]
        /\ ~(Claiming(r.by) /\ Target(r.by) = r.key)
OneLateRemoval ==
    \A r, q \in late : r.at = "remove" /\ q.at = "remove" /\ r.key = q.key => r = q
LockInv == HeldLockStands /\ ClaimsStand /\ LateRemovals /\ OneLateRemoval

\* GetState and SaveState look at the object twice, in two client calls: for a caller with the
\* lock it does not vanish between the two, so GetState does not answer the error gcs.go:277
\* would make of that, nor SaveState one for a record it has written.
StaysBetweenCalls ==
    \A s \in Session :
        (rpc[s].at \in {"read", "confirm"} /\ Target(s) \in held[s] \ doubt) =>
            records[Target(s)] # NoObject

\* What a session learned of a record while holding its lock stays true until it gives the
\* lock back: the unconditional write of SaveState overwrites no other holder's update,
\* unless an earlier write or delete of that record failed with its request sent.
NoLostUpdate ==
    \A s \in Session : \A k \in held[s] \ doubt : \A g \in view[s][k] : records[k].gen = g

\* ListStates "returns all state records matching" (gcs.go:50): a matching record that has
\* been in the bucket since the keys were listed is in the answer.
ListIsComplete ==
    \A s \in Session :
        rpc[s].op = "ListStates" /\ rpc[s].at = "done" /\ rpc[s].out = "ok" =>
            \A k \in Key :
                /\ k[1] = rpc[s].cfg
                /\ records[k] # NoObject
                /\ records[k].gen <= rpc[s].since
                /\ Decodes(records[k])
                /\ MatchesFilter(records[k], rpc[s].arg)
                => records[k] \in rpc[s].got

\* "GetState retrieves a state record by resource ID" (gcs.go:46): the record answered is
\* one saved under the ID that was asked for, where no two IDs have one sanitized name.
AnswersTheIdAsked ==
    \A s \in Session :
        rpc[s].op = "GetState" /\ rpc[s].at = "done" /\ rpc[s].out = "ok" =>
            \A o \in rpc[s].got : o.resource_id = rpc[s].id

\* Disciplined sessions see the locked key-value store the interface promises: the lock of a
\* key is released only when nobody holds it, and a record changes only under its lock or if
\* an earlier change of it is unsettled.
Promise == INSTANCE LockedState WITH saved <- records, owner <- locks, unsettled <- doubt
KeepsPromise == Promise!ASpec
=============================================================================
