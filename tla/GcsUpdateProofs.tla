--------------------------- MODULE GcsUpdateProofs ---------------------------
(***************************************************************************)
(* Under disciplined callers no holder of a lock has the record it read or *)
(* wrote changed under it; and, under any callers, a listing is complete   *)
(* and a read is of the ID asked for.  Under disciplined callers the store *)
(* implements LockedState.  Theorems for any number of                     *)
(* processes, sessions, failed calls and deaths.                           *)
(***************************************************************************)
EXTENDS GcsStateStoreProofs

-----------------------------------------------------------------------------
(* Records change under the lock *)

\* A write or delete under way is of a key its caller holds, as the host is disciplined; one
\* given up and still on its way is of a key in doubt.
ChangesUnderLock ==
    /\ \A s \in Session : rpc[s].at \in {"write", "delete"} => Target(s) \in held[s]
    /\ \A r \in late : r.at \in {"write", "delete"} => r.key \in doubt

\* A step of s that is not about to change a record and gives up no lock of another's.
LEMMA NoChangeStep ==
    ASSUME TypeInv, ChangesUnderLock, NEW s \in Session, Others(s),
           rpc'[s].at \notin {"write", "delete"},
           \A t \in Session \ {s} : held'[t] = held[t],
           late' \subseteq late, doubt \subseteq doubt'
    PROVE  ChangesUnderLock'
<1>1. \A t \in Session \ {s} : Target(t)' = Target(t)
  BY OthersClaims
<1> QED
  BY <1>1 DEF ChangesUnderLock, Others

\* A write or delete given up with its request sent is in doubt.
LEMMA AbandonChanges ==
    ASSUME TypeInv, ChangesUnderLock, NEW S \in SUBSET Session, Abandon(S)
    PROVE  \A r \in late' : r.at \in {"write", "delete"} => r.key \in doubt'
BY DEF Abandon, ChangesUnderLock

\* No handler step begins a write or a delete.
LEMMA HandlerMovesOn ==
    ASSUME TypeInv, NEW s \in Session, Handler(s)
    PROVE  /\ Others(s) /\ rpc'[s].at \notin {"write", "delete"}
           /\ \A t \in Session \ {s} : held'[t] = held[t]
           /\ UNCHANGED <<late, doubt>>
<1>0. TypeOK
  BY DEF TypeInv
<1>1. UNCHANGED <<late, doubt>>
  BY DEF Handler, GetAttrs, GetRead, SaveWrite, SaveConfirm, DeleteRecord, ListKeys, ListRead,
         ListAnswer, LockCreate, LockCreated, LockGranted, UnlockRemove, UnlockDone, fate
<1>2. \A t \in Session \ {s} : held'[t] = held[t]
  <2>1. CASE LockGranted(s)
    BY <1>0, <2>1 DEF LockGranted, TypeOK
  <2>2. CASE ~LockGranted(s)
    BY <2>2 DEF Handler, GetAttrs, GetRead, SaveWrite, SaveConfirm, DeleteRecord, ListKeys,
                ListRead, ListAnswer, LockCreate, LockCreated, UnlockRemove, UnlockDone, host
  <2> QED
    BY <2>1, <2>2
<1>3. rpc[s].at # "done"
  BY DEF Handler, GetAttrs, GetRead, SaveWrite, SaveConfirm, DeleteRecord, ListKeys, ListRead,
         ListAnswer, LockCreate, LockCreated, LockGranted, UnlockRemove, UnlockDone
<1>4. rpc[s] \in Call
  BY <1>0, <1>3, BusyIsCall
<1>5. CASE \E out : Answer(s, out)
  BY <1>0, <1>1, <1>2, <1>5, AnswerFacts
<1>6. CASE \E step \in {"read", "confirm", "created", "map"} : GoTo(s, step)
  BY <1>0, <1>1, <1>2, <1>3, <1>6, GoToFacts
<1>7. CASE \E objs : AnswerWith(s, objs)
  <2>1. Others(s) /\ rpc'[s].at = "done"
    BY <1>0, <1>4, <1>7 DEF AnswerWith, TypeOK, Others, Call
  <2> QED
    BY <1>1, <1>2, <2>1
<1>8. CASE ListKeys(s) \/ ListRead(s)
  <2>1. \/ \E gn, keys : rpc' = [rpc EXCEPT ![s].at = "each", ![s].since = gn, ![s].todo = keys]
        \/ rpc[s].at = "each" /\ \E keys, objs : rpc' = [rpc EXCEPT ![s].todo = keys, ![s].got = objs]
    BY <1>8, Zenon DEF ListKeys, ListRead
  <2>2. Others(s) /\ rpc'[s].at = "each"
    BY ZenonT(30), <1>0, <1>4, <2>1 DEF TypeOK, Others, Call
  <2> QED
    BY <1>1, <1>2, <2>2
<1> QED
  BY <1>1, <1>2, <1>5, <1>6, <1>7, <1>8
  DEF Handler, GetAttrs, GetRead, SaveWrite, SaveConfirm, DeleteRecord, ListAnswer, LockCreate,
      LockCreated, LockGranted, UnlockRemove, UnlockDone

\* A new call keeps ChangesUnderLock: a disciplined write is of a held key.
LEMMA InvokeChanges ==
    ASSUME DisciplinedHosts, TypeInv, ChangesUnderLock, NEW s \in Session, NEW op \in Ops,
           NEW id \in Id, NEW arg, Invoke(s, op, id, arg)
    PROVE  ChangesUnderLock'
<1> DEFINE key == KeyOf(store[ProcessOf[s]].cfg, id)
<1>1. op \in AllOps
  BY GcsStateStoreAssumption DEF ConstantsOK
<1>2. /\ Others(s) /\ rpc'[s].at = FirstStep[op] /\ Target(s)' = key
  BY DEF Invoke, TypeInv, TypeOK, Others, Target, KeyOf
<1>3. UNCHANGED <<late, doubt>>
  BY DEF Invoke, fate
<1>4. \A t \in Session \ {s} : held'[t] = held[t]
  BY DEF Invoke, host, TypeInv, TypeOK
<1>5. CASE op \notin {"SaveState", "DeleteState"}
  <2>1. rpc'[s].at \notin {"write", "delete"}
    BY <1>1, <1>2, <1>5 DEF FirstStep, AllOps
  <2> QED
    BY <1>2, <1>3, <1>4, <2>1, NoChangeStep
<1>6. CASE op \in {"SaveState", "DeleteState"}
  <2>1. key \in held[s] /\ held' = held
    BY <1>6 DEF Invoke, DisciplinedHosts, MayCall, host
  <2>2. \A t \in Session \ {s} : Target(t)' = Target(t) /\ rpc'[t] = rpc[t]
    BY <1>2, OthersClaims DEF Others
  <2> QED
    BY <1>2, <1>3, <2>1, <2>2 DEF ChangesUnderLock
<1> QED
  BY <1>5, <1>6

\* Every step keeps ChangesUnderLock.
LEMMA ChangesStep ==
    ASSUME DisciplinedHosts, TypeInv, ChangesUnderLock, [Next]_vars
    PROVE  ChangesUnderLock'
<1>0. TypeOK
  BY DEF TypeInv
<1>1. CASE UNCHANGED vars
  BY <1>1 DEF vars, ChangesUnderLock, Target, KeyOf
<1>2. ASSUME NEW s \in Session, Calls(s) PROVE ChangesUnderLock'
  <2>1. CASE \E op \in Ops, id \in Id : \E arg : Invoke(s, op, id, arg)
    BY <2>1, InvokeChanges
  <2>2. CASE (\E op \in Ops : Unconfigured(s, op)) \/ (\E id, st : Rejected(s, id, st))
    <3>1. UNCHANGED <<held, late, doubt>>
      BY <2>2 DEF Unconfigured, Rejected, host, fate
    <3>2. \E op, out : rpc' = [rpc EXCEPT ![s] = [Idle EXCEPT !.op = op, !.out = out]]
      BY <2>2, Zenon DEF Unconfigured, Rejected
    <3>3. Others(s) /\ rpc'[s].at = "done"
      BY <1>0, <3>2 DEF TypeOK, Others, Idle
    <3> QED
      BY <3>1, <3>3, NoChangeStep
  <2> QED
    BY <1>2, <2>1, <2>2 DEF Calls
<1>3. ASSUME NEW s \in Session, Handler(s) PROVE ChangesUnderLock'
  BY <1>3, HandlerMovesOn, NoChangeStep
<1>4. ASSUME NEW s \in Session, SessionDies(s) PROVE ChangesUnderLock'
  <2>1. Others(s) /\ rpc'[s].at = "done" /\ \A t \in Session \ {s} : held'[t] = held[t]
    BY <1>0, <1>4 DEF SessionDies, TypeOK, Others, Idle
  <2>2. \A r \in late' : r.at \in {"write", "delete"} => r.key \in doubt'
    BY <1>4, AbandonChanges DEF SessionDies
  <2>3. \A t \in Session \ {s} : Target(t)' = Target(t)
    BY <2>1, OthersClaims
  <2> QED
    BY <2>1, <2>2, <2>3 DEF ChangesUnderLock, Others
<1>5. ASSUME NEW s \in Session, NEW kind \in Faults, Fail(s, kind) PROVE ChangesUnderLock'
  <2>1. rpc[s] \in Call
    BY <1>0, <1>5, BusyIsCall DEF Fail, Busy
  <2>2. Others(s) /\ rpc'[s].at \in {"done", "each"}
    <3>1. CASE rpc[s].at = "each" /\ \E keys : rpc' = [rpc EXCEPT ![s].todo = keys]
      BY <1>0, <2>1, <3>1 DEF TypeOK, Others, Call
    <3>2. CASE \E out : rpc' = [rpc EXCEPT ![s] = Failed(@, out)]
      BY <1>0, <2>1, <3>2 DEF Failed, TypeOK, Others, Call
    <3> QED
      BY <1>5, <3>1, <3>2, Zenon DEF Fail
  <2>3. \A r \in late' : r.at \in {"write", "delete"} => r.key \in doubt'
    BY <1>5, AbandonChanges DEF Fail
  <2>4. \A t \in Session \ {s} : Target(t)' = Target(t)
    BY <2>2, OthersClaims
  <2> QED
    BY <1>5, <2>2, <2>3, <2>4 DEF ChangesUnderLock, Others, Fail, host
<1>6. ASSUME NEW r \in late, Land(r) PROVE ChangesUnderLock'
  BY <1>6 DEF Land, host, ChangesUnderLock, Target, KeyOf
<1>7. ASSUME NEW p \in Process, Die(p) PROVE ChangesUnderLock'
  <2> DEFINE S == {s \in Session : ProcessOf[s] = p /\ Busy(s)}
  <2>1. \A r \in late' : r.at \in {"write", "delete"} => r.key \in doubt'
    BY <1>7, AbandonChanges DEF Die
  <2>2. ASSUME NEW t \in Session, rpc'[t].at \in {"write", "delete"}
        PROVE  rpc'[t] = rpc[t]
    <3>1. CASE t \in S
      <4>1. rpc[t] \in Call
        BY <1>0, <3>1, BusyIsCall DEF Busy
      <4>2. rpc'[t].at = "done"
        BY <1>7, <3>1, <4>1 DEF Die, Failed, Call
      <4> QED
        BY <2>2, <4>2
    <3>2. CASE t \notin S
      BY <1>7, <3>2 DEF Die
    <3> QED
      BY <3>1, <3>2
  <2>3. UNCHANGED held
    BY <1>7 DEF Die, host
  <2> QED
    BY <2>1, <2>2, <2>3 DEF ChangesUnderLock, Target, KeyOf
<1>8. ASSUME NEW p \in Process, NEW c \in Delivers[p], Configure(p, c) PROVE ChangesUnderLock'
  BY <1>8 DEF Configure, host, fate, ChangesUnderLock, Target, KeyOf
<1> QED
  BY <1>1, <1>2, <1>3, <1>4, <1>5, <1>6, <1>7, <1>8 DEF Next, ProcessDies, MapRace

-----------------------------------------------------------------------------
(* No lost update *)

\* A step that leaves the records alone and adds nothing to what a lock holder has learned.
LEMMA NothingLearned ==
    ASSUME NoLostUpdate, UNCHANGED records, doubt \subseteq doubt',
           \A t \in Session : \A k \in held'[t] :
               view'[t][k] = {} \/ (k \in held[t] /\ view'[t][k] = view[t][k])
    PROVE  NoLostUpdate'
BY DEF NoLostUpdate

\* A step in which s learns, of its target alone, the generation the target then has.
LEMMA Learned ==
    ASSUME TypeInv, MutualExclusion, NoLostUpdate, NEW s \in Session, rpc[s].at # "done",
           NEW g, Learn(s, g), UNCHANGED <<held, doubt>>,
           Target(s) \in held[s] => records'[Target(s)].gen = g,
           \A k \in Key \ {Target(s)} : records'[k] = records[k],
           Target(s) \in held[s] \/ UNCHANGED records
    PROVE  NoLostUpdate'
<1> DEFINE k == Target(s)
<1>0. TypeOK /\ k \in Key
  BY TargetIsKey DEF TypeInv
<1>1. CASE k \notin held[s]
  BY <1>1, NothingLearned DEF Learn
<1>2. CASE k \in held[s]
  <2>1. view'[s][k] = {g} /\ \A q \in Key \ {k} : view'[s][q] = view[s][q]
    BY <1>0, <1>2 DEF Learn, TypeOK
  <2>2. \A t \in Session \ {s} : view'[t] = view[t] /\ k \notin held[t]
    BY <1>0, <1>2 DEF Learn, TypeOK, MutualExclusion
  <2>3. \A t \in Session : held[t] \subseteq Key
    BY <1>0 DEF TypeOK
  <2>4. records'[k].gen = g
    BY <1>2
  <2> HIDE DEF k
  <2> QED
    BY <2>1, <2>2, <2>3, <2>4 DEF NoLostUpdate, k
<1> QED
  BY <1>1, <1>2

\* Every handler step keeps NoLostUpdate: a change is made by the only holder.
LEMMA HandlerUpdate ==
    ASSUME TypeInv, MutualExclusion, ChangesUnderLock, NoLostUpdate, NEW s \in Session, Handler(s)
    PROVE  NoLostUpdate'
<1>0. TypeOK
  BY DEF TypeInv
<1>1. CASE GetAttrs(s)
  <2>1. UNCHANGED <<records, held, doubt>> /\ rpc[s].at # "done"
    BY <1>1 DEF GetAttrs, bucket, fate
  <2>2. CASE records[Target(s)] = NoObject
    <3>1. Learn(s, 0) /\ records'[Target(s)].gen = 0
      BY <1>1, <2>1, <2>2 DEF GetAttrs, NoObject
    <3> QED
      BY <2>1, <3>1, Learned
  <2>3. CASE records[Target(s)] # NoObject
    BY <1>1, <2>1, <2>3, NothingLearned DEF GetAttrs
  <2> QED
    BY <2>2, <2>3
<1>2. CASE GetRead(s)
  <2>1. UNCHANGED <<records, held, doubt>> /\ rpc[s].at # "done"
    BY <1>2 DEF GetRead, bucket, fate
  <2>2. CASE Learn(s, records[Target(s)].gen)
    BY <2>1, <2>2, Learned
  <2>3. CASE UNCHANGED view
    BY <2>1, <2>3, NothingLearned
  <2> QED
    BY <1>2, <2>2, <2>3 DEF GetRead
<1>3. CASE SaveWrite(s)
  <2>1. UNCHANGED <<held, doubt>> /\ rpc[s].at # "done" /\ Learn(s, gen + 1)
    BY <1>3 DEF SaveWrite, fate
  <2>2. Target(s) \in held[s] /\ Target(s) \in Key
    BY <1>0, <1>3, TargetIsKey DEF SaveWrite, ChangesUnderLock
  <2>3. /\ records'[Target(s)].gen = gen + 1
        /\ \A k \in Key \ {Target(s)} : records'[k] = records[k]
    BY <1>0, <1>3, <2>2 DEF SaveWrite, PutRecord, TypeOK
  <2> QED
    BY <2>1, <2>2, <2>3, Learned
<1>4. CASE DeleteRecord(s)
  <2>1. UNCHANGED <<held, doubt>> /\ rpc[s].at # "done" /\ Learn(s, 0)
    BY <1>4 DEF DeleteRecord, fate
  <2>2. Target(s) \in held[s] /\ Target(s) \in Key
    BY <1>0, <1>4, TargetIsKey DEF DeleteRecord, ChangesUnderLock
  <2>3. /\ records'[Target(s)].gen = 0
        /\ \A k \in Key \ {Target(s)} : records'[k] = records[k]
    BY <1>0, <1>4, <2>2 DEF DeleteRecord, DropRecord, TypeOK, NoObject
  <2> QED
    BY <2>1, <2>2, <2>3, Learned
<1>5. CASE LockGranted(s)
  <2> DEFINE k == Target(s)
  <2>1. UNCHANGED <<records, doubt>> /\ rpc[s].at # "done"
    BY <1>5 DEF LockGranted, bucket, fate
  <2>2. k \in Key
    BY <1>0, <2>1, TargetIsKey
  <2>3. /\ view' = [view EXCEPT ![s][k] = {}]
        /\ held' = [held EXCEPT ![s] = @ \cup {k}]
    BY <1>5 DEF LockGranted
  <2> HIDE DEF k
  <2>4. \A t \in Session : \A q \in held'[t] :
            view'[t][q] = {} \/ (q \in held[t] /\ view'[t][q] = view[t][q])
    BY <1>0, <2>2, <2>3 DEF TypeOK
  <2> QED
    BY <2>1, <2>4, NothingLearned
<1>6. CASE \/ SaveConfirm(s) \/ ListKeys(s) \/ ListRead(s) \/ ListAnswer(s) \/ LockCreate(s)
           \/ LockCreated(s) \/ UnlockRemove(s) \/ UnlockDone(s)
  <2>1. UNCHANGED <<records, held, view, doubt>>
    BY <1>6 DEF SaveConfirm, ListKeys, ListRead, ListAnswer, LockCreate, LockCreated,
                UnlockRemove, UnlockDone, bucket, host, fate
  <2> QED
    BY <2>1, NothingLearned
<1> QED
  BY <1>1, <1>2, <1>3, <1>4, <1>5, <1>6 DEF Handler

\* Every step keeps NoLostUpdate.
LEMMA UpdateStep ==
    ASSUME TypeInv, MutualExclusion, ChangesUnderLock, NoLostUpdate, [Next]_vars
    PROVE  NoLostUpdate'
<1>0. TypeOK
  BY DEF TypeInv
<1>1. CASE UNCHANGED vars
  BY <1>1 DEF vars, NoLostUpdate
<1>2. ASSUME NEW s \in Session, Calls(s) PROVE NoLostUpdate'
  <2>1. UNCHANGED <<records, doubt>>
    BY <1>2 DEF Calls, Invoke, Unconfigured, Rejected, bucket, fate
  <2>2. CASE UNCHANGED host
    BY <2>1, <2>2, NothingLearned DEF host
  <2>3. CASE \E k \in Key : /\ held' = [held EXCEPT ![s] = @ \ {k}]
                            /\ view' = [view EXCEPT ![s][k] = {}]
    <3>1. \A t \in Session : \A q \in held'[t] :
              view'[t][q] = {} \/ (q \in held[t] /\ view'[t][q] = view[t][q])
      BY <1>0, <2>3 DEF TypeOK
    <3> QED
      BY <2>1, <3>1, NothingLearned
  <2>4. UNCHANGED host \/ \E k \in Key : /\ held' = [held EXCEPT ![s] = @ \ {k}]
                                         /\ view' = [view EXCEPT ![s][k] = {}]
    <3>1. CASE \E op \in Ops, id \in Id : \E arg : Invoke(s, op, id, arg)
      <4>0. PICK op \in Ops, id \in Id : \E arg : Invoke(s, op, id, arg)
        BY <3>1
      <4>1. PICK arg : Invoke(s, op, id, arg)
        BY <4>0
      <4>2. store[ProcessOf[s]] \in Stores
        BY <1>0, <4>1, GcsStateStoreAssumption DEF Invoke, TypeOK, ConstantsOK
      <4>3. KeyOf(store[ProcessOf[s]].cfg, id) \in Key
        BY <4>2, GcsStateStoreAssumption DEF KeyOf, Key, Stores, ConstantsOK
      <4> QED
        BY <4>1, <4>3, Zenon DEF Invoke
    <3>2. CASE \E op, id, st : Unconfigured(s, op) \/ Rejected(s, id, st)
      BY <3>2 DEF Unconfigured, Rejected
    <3> QED
      BY <1>2, <3>1, <3>2, Zenon DEF Calls
  <2> QED
    BY <2>2, <2>3, <2>4
<1>3. ASSUME NEW s \in Session, Handler(s) PROVE NoLostUpdate'
  BY <1>3, HandlerUpdate
<1>4. ASSUME NEW s \in Session, SessionDies(s) PROVE NoLostUpdate'
  <2>1. UNCHANGED records /\ doubt \subseteq doubt'
    BY <1>4 DEF SessionDies, Abandon, bucket
  <2>2. \A t \in Session : \A q \in held'[t] : q \in held[t] /\ view'[t][q] = view[t][q]
    BY <1>0, <1>4 DEF SessionDies, TypeOK
  <2> QED
    BY <2>1, <2>2, NothingLearned
<1>5. ASSUME NEW s \in Session, NEW kind \in Faults, Fail(s, kind) PROVE NoLostUpdate'
  <2>1. UNCHANGED <<records, held, view>> /\ doubt \subseteq doubt'
    BY <1>5 DEF Fail, Abandon, bucket, host
  <2> QED
    BY <2>1, NothingLearned
<1>6. ASSUME NEW r \in late, Land(r) PROVE NoLostUpdate'
  <2>1. UNCHANGED <<held, view, doubt>>
    BY <1>6 DEF Land, host
  <2>2. CASE r.at \in {"write", "delete"}
    <3>1. r.key \in doubt /\ r.key \in Key
      BY <1>0, <2>2 DEF ChangesUnderLock, TypeOK, Request
    <3>2. \A k \in Key \ {r.key} : records'[k] = records[k]
      BY <1>0, <1>6, <2>2, <3>1 DEF Land, PutRecord, DropRecord, TypeOK
    <3>3. \A t \in Session : held[t] \subseteq Key
      BY <1>0 DEF TypeOK
    <3> QED
      BY <2>1, <3>1, <3>2, <3>3 DEF NoLostUpdate
  <2>3. CASE r.at \notin {"write", "delete"}
    <3>1. UNCHANGED records
      BY <1>6, <2>3 DEF Land
    <3> QED
      BY <2>1, <3>1, NothingLearned
  <2> QED
    BY <2>2, <2>3
<1>7. ASSUME NEW p \in Process, Die(p) PROVE NoLostUpdate'
  <2>1. UNCHANGED <<records, held, view>> /\ doubt \subseteq doubt'
    BY <1>7 DEF Die, Abandon, bucket, host
  <2> QED
    BY <2>1, NothingLearned
<1>8. ASSUME NEW p \in Process, NEW c \in Delivers[p], Configure(p, c) PROVE NoLostUpdate'
  <2>1. UNCHANGED <<records, held, view, doubt>>
    BY <1>8 DEF Configure, bucket, host, fate
  <2> QED
    BY <2>1, NothingLearned
<1> QED
  BY <1>1, <1>2, <1>3, <1>4, <1>5, <1>6, <1>7, <1>8 DEF Next, ProcessDies, MapRace

\* What the theorems below need of hosts that are disciplined, at every moment of a call.
LEMMA ChangesAreLocked == DisciplinedHosts => (Spec => []ChangesUnderLock)
<1> SUFFICES ASSUME DisciplinedHosts PROVE Spec => []ChangesUnderLock
  OBVIOUS
<1>1. Init => ChangesUnderLock
  BY DEF Init, ChangesUnderLock, Idle
<1>2. TypeInv /\ ChangesUnderLock /\ [Next]_vars => ChangesUnderLock'
  BY ChangesStep
<1> QED
  BY <1>1, <1>2, TypeCorrect, PTL DEF Spec

\* What a lock holder read or wrote last is what is in the bucket, unless an earlier change
\* of that record failed with its request sent: the lock makes read-modify-write safe.
THEOREM UpdatesAreKept == DisciplinedHosts => (Spec => []NoLostUpdate)
<1> SUFFICES ASSUME DisciplinedHosts PROVE Spec => []NoLostUpdate
  OBVIOUS
<1>1. Init => NoLostUpdate
  BY DEF Init, NoLostUpdate
<1>2. TypeInv /\ MutualExclusion /\ ChangesUnderLock /\ NoLostUpdate /\ [Next]_vars => NoLostUpdate'
  BY UpdateStep
<1> QED
  BY <1>1, <1>2, TypeCorrect, LockExcludes, ChangesAreLocked, PTL DEF Spec

-----------------------------------------------------------------------------
(* Calls that look at an object twice *)

Twice == {"read", "confirm"}

\* Calls between their two looks were so before, and the objects they look at stand as before.
LEMMA Undisturbed ==
    ASSUME StaysBetweenCalls, doubt \subseteq doubt',
           \A t \in Session : rpc'[t].at \in Twice => rpc'[t] = rpc[t] /\ held'[t] \subseteq held[t],
           \A t \in Session : (rpc[t].at \in Twice /\ Target(t) \in held[t] \ doubt) =>
               records'[Target(t)] = records[Target(t)]
    PROVE  StaysBetweenCalls'
BY DEF StaysBetweenCalls, Twice, Target, KeyOf

\* A step of s alone that ends between no two looks and leaves the records as they are.
LEMMA LooksElsewhere ==
    ASSUME StaysBetweenCalls, NEW s \in Session, Others(s), rpc'[s].at \notin Twice,
           \A t \in Session \ {s} : held'[t] = held[t], doubt \subseteq doubt', UNCHANGED records
    PROVE  StaysBetweenCalls'
BY Undisturbed DEF Others

\* A change made under the lock is of no record another holder looks at.
LEMMA ChangesNoOther ==
    ASSUME TypeInv, MutualExclusion, NEW s \in Session, rpc[s].at # "done",
           Target(s) \in held[s],
           \A k \in Key \ {Target(s)} : records'[k] = records[k]
    PROVE  \A t \in Session \ {s} : (rpc[t].at \in Twice /\ Target(t) \in held[t]) =>
               records'[Target(t)] = records[Target(t)]
<1>1. \A t \in Session : rpc[t].at \in Twice => Target(t) \in Key
  BY TargetIsKey DEF TypeInv, Twice
<1> QED
  BY <1>1 DEF MutualExclusion

\* Every handler step keeps StaysBetweenCalls.
LEMMA HandlerStays ==
    ASSUME TypeInv, MutualExclusion, ChangesUnderLock, StaysBetweenCalls, NEW s \in Session,
           Handler(s)
    PROVE  StaysBetweenCalls'
<1>0. /\ TypeOK /\ Others(s) /\ UNCHANGED doubt
      /\ \A t \in Session \ {s} : held'[t] = held[t]
  BY HandlerMovesOn DEF TypeInv
<1>1. CASE GetAttrs(s)
  <2>1. UNCHANGED records /\ rpc[s].at = "attrs"
    BY <1>1 DEF GetAttrs, bucket
  <2>2. CASE records[Target(s)] = NoObject
    <3>1. rpc'[s].at = "done"
      BY <1>0, <1>1, <2>2, AnswerFacts DEF GetAttrs
    <3> QED
      BY <1>0, <2>1, <3>1, LooksElsewhere DEF Twice
  <2>3. CASE records[Target(s)] # NoObject
    <3>1. Target(s)' = Target(s)
      BY <1>0, <1>1, <2>1, <2>3, GoToFacts DEF GetAttrs
    <3>2. \A t \in Session \ {s} : rpc'[t] = rpc[t] /\ Target(t)' = Target(t)
      BY <1>0 DEF Others, Target, KeyOf
    <3> QED
      BY <1>0, <2>1, <2>3, <3>1, <3>2 DEF StaysBetweenCalls
  <2> QED
    BY <2>2, <2>3
<1>2. CASE SaveWrite(s)
  <2>1. rpc[s].at = "write" /\ Target(s) \in held[s] /\ Target(s) \in Key
    BY <1>0, <1>2, TargetIsKey DEF SaveWrite, ChangesUnderLock
  <2>2. /\ records'[Target(s)] # NoObject
        /\ \A k \in Key \ {Target(s)} : records'[k] = records[k]
    <3>1. records' = [records EXCEPT ![Target(s)] =
                         [gen |-> gen + 1, resource_id |-> rpc[s].id, status |-> rpc[s].arg]]
      BY <1>2 DEF SaveWrite, PutRecord
    <3>2. records'[Target(s)].gen = gen + 1 /\ gen \in Nat
          /\ \A k \in Key \ {Target(s)} : records'[k] = records[k]
      BY <1>0, <2>1, <3>1 DEF TypeOK
    <3> QED
      BY <3>2 DEF NoObject
  <2>3. \A t \in Session \ {s} : (rpc[t].at \in Twice /\ Target(t) \in held[t]) =>
            records'[Target(t)] = records[Target(t)]
    BY <2>1, <2>2, ChangesNoOther
  <2>4. Target(s)' = Target(s)
    BY <1>0, <1>2, <2>1, GoToFacts DEF SaveWrite
  <2>5. \A t \in Session \ {s} : rpc'[t] = rpc[t] /\ Target(t)' = Target(t)
    BY <1>0 DEF Others, Target, KeyOf
  <2> QED
    BY <1>0, <2>2, <2>3, <2>4, <2>5 DEF StaysBetweenCalls, Twice
<1>3. CASE DeleteRecord(s)
  <2>1. rpc[s].at = "delete" /\ Target(s) \in held[s] /\ Target(s) \in Key
    BY <1>0, <1>3, TargetIsKey DEF DeleteRecord, ChangesUnderLock
  <2>2. \A k \in Key \ {Target(s)} : records'[k] = records[k]
    BY <1>0, <1>3, <2>1 DEF DeleteRecord, DropRecord, TypeOK
  <2>3. \A t \in Session \ {s} : (rpc[t].at \in Twice /\ Target(t) \in held[t]) =>
            records'[Target(t)] = records[Target(t)]
    BY <2>1, <2>2, ChangesNoOther
  <2>4. rpc'[s].at = "done"
    BY <1>0, <1>3, AnswerFacts DEF DeleteRecord
  <2> QED
    BY <1>0, <2>1, <2>3, <2>4, Undisturbed DEF Others, Twice
<1>4. CASE ~(GetAttrs(s) \/ SaveWrite(s) \/ DeleteRecord(s))
  <2>1. UNCHANGED records /\ rpc[s].at # "done"
    BY <1>4 DEF Handler, GetRead, SaveConfirm, ListKeys, ListRead, ListAnswer, LockCreate,
                LockCreated, LockGranted, UnlockRemove, UnlockDone, bucket
  <2>2. rpc[s] \in Call
    BY <1>0, <2>1, BusyIsCall
  <2>3. CASE \E out : Answer(s, out)
    BY <1>0, <2>1, <2>3, AnswerFacts, LooksElsewhere DEF Twice
  <2>4. CASE \E step \in {"created", "map"} : GoTo(s, step)
    BY <1>0, <2>1, <2>4, GoToFacts, LooksElsewhere DEF Twice
  <2>5. CASE \E objs : AnswerWith(s, objs)
    <3>1. rpc'[s].at = "done"
      BY <1>0, <2>2, <2>5 DEF AnswerWith, TypeOK, Call
    <3> QED
      BY <1>0, <2>1, <3>1, LooksElsewhere DEF Twice
  <2>6. CASE ListKeys(s) \/ ListRead(s)
    <3>1. \/ \E gn, keys : rpc' = [rpc EXCEPT ![s].at = "each", ![s].since = gn, ![s].todo = keys]
          \/ rpc[s].at = "each" /\ \E keys, objs : rpc' = [rpc EXCEPT ![s].todo = keys, ![s].got = objs]
      BY <2>6, Zenon DEF ListKeys, ListRead
    <3>2. rpc'[s].at = "each"
      BY ZenonT(30), <1>0, <2>2, <3>1 DEF TypeOK, Call
    <3> QED
      BY <1>0, <2>1, <3>2, LooksElsewhere DEF Twice
  <2> QED
    BY <1>4, <2>3, <2>4, <2>5, <2>6
    DEF Handler, GetRead, SaveConfirm, ListAnswer, LockCreate, LockCreated, LockGranted,
        UnlockRemove, UnlockDone
<1> QED
  BY <1>1, <1>2, <1>3, <1>4

\* Every step keeps StaysBetweenCalls.
LEMMA StaysStep ==
    ASSUME TypeInv, MutualExclusion, ChangesUnderLock, StaysBetweenCalls, [Next]_vars
    PROVE  StaysBetweenCalls'
<1>0. TypeOK
  BY DEF TypeInv
<1>1. CASE UNCHANGED vars
  BY <1>1 DEF vars, StaysBetweenCalls, Target, KeyOf
<1>2. ASSUME NEW s \in Session, Calls(s) PROVE StaysBetweenCalls'
  <2>1. UNCHANGED <<records, doubt>> /\ \A t \in Session \ {s} : held'[t] = held[t]
    BY <1>0, <1>2 DEF Calls, Invoke, Unconfigured, Rejected, bucket, fate, host, TypeOK
  <2>2. Others(s) /\ rpc'[s].at \notin Twice
    <3>1. CASE \E op \in Ops, id \in Id : \E arg : Invoke(s, op, id, arg)
      <4>1. PICK op \in Ops, id \in Id : \E arg : Invoke(s, op, id, arg)
        BY <3>1
      <4>2. op \in AllOps
        BY GcsStateStoreAssumption DEF ConstantsOK
      <4>3. Others(s) /\ rpc'[s].at = FirstStep[op]
        BY <1>0, <4>1 DEF Invoke, TypeOK, Others
      <4> QED
        BY <4>2, <4>3 DEF FirstStep, AllOps, Twice
    <3>2. CASE (\E op \in Ops : Unconfigured(s, op)) \/ (\E id, st : Rejected(s, id, st))
      <4>1. \E op, out : rpc' = [rpc EXCEPT ![s] = [Idle EXCEPT !.op = op, !.out = out]]
        BY <3>2, Zenon DEF Unconfigured, Rejected
      <4> QED
        BY <1>0, <4>1 DEF TypeOK, Others, Idle, Twice
    <3> QED
      BY <1>2, <3>1, <3>2 DEF Calls
  <2> QED
    BY <2>1, <2>2, LooksElsewhere
<1>3. ASSUME NEW s \in Session, Handler(s) PROVE StaysBetweenCalls'
  BY <1>3, HandlerStays
<1>4. ASSUME NEW s \in Session, SessionDies(s) PROVE StaysBetweenCalls'
  <2>1. UNCHANGED records /\ doubt \subseteq doubt'
    BY <1>4 DEF SessionDies, Abandon, bucket
  <2>2. Others(s) /\ rpc'[s].at = "done" /\ \A t \in Session \ {s} : held'[t] = held[t]
    BY <1>0, <1>4 DEF SessionDies, TypeOK, Others, Idle
  <2> QED
    BY <2>1, <2>2, LooksElsewhere DEF Twice
<1>5. ASSUME NEW s \in Session, NEW kind \in Faults, Fail(s, kind) PROVE StaysBetweenCalls'
  <2>1. UNCHANGED <<records, held>> /\ doubt \subseteq doubt'
    BY <1>5 DEF Fail, Abandon, bucket, host
  <2>2. rpc[s] \in Call
    BY <1>0, <1>5, BusyIsCall DEF Fail, Busy
  <2>3. Others(s) /\ rpc'[s].at \in {"done", "each"}
    <3>1. CASE rpc[s].at = "each" /\ \E keys : rpc' = [rpc EXCEPT ![s].todo = keys]
      BY <1>0, <2>2, <3>1 DEF TypeOK, Others, Call
    <3>2. CASE \E out : rpc' = [rpc EXCEPT ![s] = Failed(@, out)]
      BY <1>0, <2>2, <3>2 DEF Failed, TypeOK, Others, Call
    <3> QED
      BY <1>5, <3>1, <3>2, Zenon DEF Fail
  <2> QED
    BY <2>1, <2>3, LooksElsewhere DEF Twice
<1>6. ASSUME NEW r \in late, Land(r) PROVE StaysBetweenCalls'
  <2>1. UNCHANGED <<rpc, held, doubt>>
    BY <1>6 DEF Land, host
  <2>2. r.at \in {"write", "delete"} => r.key \in doubt
    BY DEF ChangesUnderLock
  <2>3. r.key \in Key /\ r.at \in Changing
    BY <1>0 DEF TypeOK, Request
  <2>4. \A k \in Key \ doubt : records'[k] = records[k]
    BY <1>0, <1>6, <2>2, <2>3 DEF Land, PutRecord, DropRecord, TypeOK
  <2>5. \A t \in Session : rpc[t].at \in Twice => Target(t) \in Key
    BY <1>0, TargetIsKey DEF Twice
  <2> QED
    BY <2>1, <2>4, <2>5, Undisturbed
<1>7. ASSUME NEW p \in Process, Die(p) PROVE StaysBetweenCalls'
  <2>1. UNCHANGED <<records, held>> /\ doubt \subseteq doubt'
    BY <1>7 DEF Die, Abandon, bucket, host
  <2>2. ASSUME NEW t \in Session, rpc'[t].at \in Twice
        PROVE  rpc'[t] = rpc[t]
    <3>1. CASE Busy(t) /\ ProcessOf[t] = p
      <4>1. rpc[t] \in Call
        BY <1>0, <3>1, BusyIsCall DEF Busy
      <4>2. rpc'[t].at = "done"
        BY <1>7, <3>1, <4>1 DEF Die, Failed, Call
      <4> QED
        BY <2>2, <4>2 DEF Twice
    <3>2. CASE ~(Busy(t) /\ ProcessOf[t] = p)
      BY <1>7, <3>2 DEF Die
    <3> QED
      BY <3>1, <3>2
  <2> QED
    BY <2>1, <2>2, Undisturbed
<1>8. ASSUME NEW p \in Process, NEW c \in Delivers[p], Configure(p, c) PROVE StaysBetweenCalls'
  BY <1>8 DEF Configure, bucket, host, fate, StaysBetweenCalls, Target, KeyOf
<1> QED
  BY <1>1, <1>2, <1>3, <1>4, <1>5, <1>6, <1>7, <1>8 DEF Next, ProcessDies, MapRace

\* For a caller with the lock the object stands from GetState's or SaveState's first look at it
\* to the second, whoever else calls, fails or dies, unless a change of it is in doubt.
THEOREM ObjectsStay == DisciplinedHosts => (Spec => []StaysBetweenCalls)
<1> SUFFICES ASSUME DisciplinedHosts PROVE Spec => []StaysBetweenCalls
  OBVIOUS
<1>1. Init => StaysBetweenCalls
  BY DEF Init, StaysBetweenCalls, Idle
<1>2. TypeInv /\ MutualExclusion /\ ChangesUnderLock /\ StaysBetweenCalls /\ [Next]_vars
      => StaysBetweenCalls'
  BY StaysStep
<1> QED
  BY <1>1, <1>2, TypeCorrect, LockExcludes, ChangesAreLocked, PTL DEF Spec

-----------------------------------------------------------------------------
(* What ListStates and GetState answer *)

\* No listing passes over an object it could not read; IDs have names of their own.
SureReads   == "transient" \notin Faults
NamesDiffer == \A i, j \in Id : SanitizeID[i] = SanitizeID[j] => i = j

\* The step of an RPC under way is one of its operation's.
StepsOf == [GetState |-> {"attrs", "read"}, SaveState |-> {"write", "confirm"},
            DeleteState |-> {"delete"}, ListStates |-> {"list", "each"},
            Lock |-> {"create", "created", "map"}, Unlock |-> {"remove", "map"}]
StepFits(s) == rpc[s].at # "done" => rpc[s].op \in AllOps /\ rpc[s].at \in StepsOf[rpc[s].op]

\* A matching record as old as the listing is in the answer, or still to be read.
Matching(s, k) ==
    /\ k[1] = rpc[s].cfg /\ records[k] # NoObject /\ records[k].gen <= rpc[s].since
    /\ Decodes(records[k]) /\ MatchesFilter(records[k], rpc[s].arg)
Listing(s) == rpc[s].op = "ListStates"
              /\ (rpc[s].at = "each" \/ (rpc[s].at = "done" /\ rpc[s].out = "ok"))
ListFits(s) == SureReads /\ Listing(s) =>
    /\ rpc[s] \in Call /\ rpc[s].since <= gen
    /\ \A k \in Key : Matching(s, k) =>
          records[k] \in rpc[s].got \/ (rpc[s].at = "each" /\ k \in rpc[s].todo)

\* GetState answers a record of its ID.
GetFits(s) == NamesDiffer /\ rpc[s].op = "GetState" /\ rpc[s].at = "done" /\ rpc[s].out = "ok" =>
    \A o \in rpc[s].got : o.resource_id = rpc[s].id

\* A record lies under its own ID's name, as does one that is on its way.
RecordsFit ==
    /\ \A k \in Key : records[k] # NoObject =>
          records[k].gen <= gen
          /\ (Decodes(records[k]) => records[k].resource_id \in Id /\ SanitizeID[records[k].resource_id] = k[2])
    /\ \A r \in late : r.at = "write" => r.key[2] = SanitizeID[r.id]

ReadInv == RecordsFit /\ \A s \in Session : StepFits(s) /\ ListFits(s) /\ GetFits(s)

\* Records stay, go, or are replaced by newer ones.
BucketMoves == gen \in Nat /\ gen' \in Nat /\ gen <= gen'
               /\ \A k \in Key : records'[k] = records[k] \/ records'[k] = NoObject
                                 \/ records'[k].gen > gen

\* What a session knows stays true while others change the bucket.
LEMMA KnownStays ==
    ASSUME TypeOK, TypeOK', NEW s \in Session, rpc'[s] = rpc[s], BucketMoves,
           StepFits(s), ListFits(s), GetFits(s)
    PROVE  StepFits(s)' /\ ListFits(s)' /\ GetFits(s)'
<1>1. StepFits(s)' /\ GetFits(s)'
  BY DEF StepFits, GetFits
<1>2. ListFits(s)'
  <2> SUFFICES ASSUME SureReads, Listing(s)
               PROVE  /\ rpc[s] \in Call /\ rpc[s].since <= gen'
                      /\ \A k \in Key : Matching(s, k)' =>
                            records'[k] \in rpc[s].got \/ (rpc[s].at = "each" /\ k \in rpc[s].todo)
    BY DEF ListFits, Listing
  <2>1. rpc[s] \in Call
    BY DEF ListFits
  <2>2. rpc[s].since <= gen /\ rpc[s].since \in Nat
    BY <2>1 DEF ListFits, Call
  <2>3. ASSUME NEW k \in Key, Matching(s, k)'
        PROVE  records'[k] \in rpc[s].got \/ (rpc[s].at = "each" /\ k \in rpc[s].todo)
    <3>1. records'[k] # NoObject /\ records'[k].gen <= rpc[s].since
      BY <2>3 DEF Matching
    <3>2. records'[k].gen \in Nat
      BY <3>1 DEF TypeOK, Object
    <3>3. records'[k] = records[k]
      BY <2>2, <3>1, <3>2 DEF BucketMoves
    <3>4. Matching(s, k)
      BY <2>3, <3>3 DEF Matching
    <3> QED
      BY <3>3, <3>4 DEF ListFits
  <2> QED
    BY <2>1, <2>2, <2>3 DEF BucketMoves
<1> QED
  BY <1>1, <1>2

\* A session that is not listing and has not just been answered a record has nothing to show.
LEMMA NothingShown ==
    ASSUME NEW s \in Session,
           \/ rpc'[s].at \notin {"each", "done"}
           \/ rpc'[s].at = "done" /\ rpc'[s].out # "ok"
           \/ rpc'[s].op \notin {"ListStates", "GetState"}
    PROVE  ListFits(s)' /\ GetFits(s)'
BY DEF ListFits, Listing, GetFits

\* Other sessions' part of a step.
LEMMA OthersKnow ==
    ASSUME TypeOK, TypeOK', ReadInv, NEW s \in Session, Others(s), BucketMoves, RecordsFit',
           StepFits(s)', ListFits(s)', GetFits(s)'
    PROVE  ReadInv'
<1>1. \A t \in Session \ {s} : StepFits(t)' /\ ListFits(t)' /\ GetFits(t)'
  BY KnownStays DEF Others, ReadInv
<1> QED
  BY <1>1 DEF ReadInv

LEMMA StillBucket ==
    ASSUME TypeOK, UNCHANGED <<records, gen>>
    PROVE  BucketMoves /\ (RecordsFit /\ late' \subseteq late => RecordsFit')
BY DEF BucketMoves, RecordsFit, TypeOK

\* A record that is written lies under its ID's name and is newer than all.
LEMMA WriteMoves ==
    ASSUME TypeOK, RecordsFit, NEW k \in Key, NEW id \in Id, NEW status \in Status,
           k[2] = SanitizeID[id], PutRecord(k, id, status), late' \subseteq late
    PROVE  BucketMoves /\ RecordsFit'
<1>1. /\ gen \in Nat /\ gen' = gen + 1
      /\ \A q \in Key \ {k} : records'[q] = records[q]
      /\ records'[k].gen = gen + 1 /\ records'[k].resource_id = id
  BY DEF PutRecord, TypeOK
<1>2. \A q \in Key : records[q] # NoObject => records[q].gen \in Nat
  BY DEF TypeOK, Object
<1>3. BucketMoves
  BY <1>1 DEF BucketMoves
<1> QED
  BY <1>1, <1>2, <1>3 DEF RecordsFit

LEMMA DropMoves ==
    ASSUME TypeOK, RecordsFit, NEW k \in Key, DropRecord(k), late' \subseteq late
    PROVE  BucketMoves /\ RecordsFit'
<1>1. /\ gen \in Nat /\ gen' = gen /\ records'[k] = NoObject
      /\ \A q \in Key \ {k} : records'[q] = records[q]
  BY DEF DropRecord, TypeOK
<1> QED
  BY <1>1 DEF BucketMoves, RecordsFit

\* Answers and moves of a handler.
LEMMA AnswerShows ==
    ASSUME TypeOK, NEW s \in Session, NEW out, Answer(s, out), StepFits(s), rpc[s].at # "done",
           out # "ok" \/ rpc[s].op \notin {"ListStates", "GetState"}
    PROVE  Others(s) /\ StepFits(s)' /\ ListFits(s)' /\ GetFits(s)'
<1>1. Others(s) /\ rpc'[s] = [op |-> rpc[s].op, at |-> "done", out |-> out]
  BY DEF TypeOK, Answer, Others, Idle
<1> QED
  BY <1>1, NothingShown DEF StepFits

LEMMA GoToShows ==
    ASSUME TypeOK, NEW s \in Session, NEW step, GoTo(s, step), StepFits(s), rpc[s].at # "done",
           step \notin {"each", "done"}, step \in StepsOf[rpc[s].op]
    PROVE  Others(s) /\ StepFits(s)' /\ ListFits(s)' /\ GetFits(s)'
BY GoToFacts, NothingShown DEF StepFits

\* The steps of GetState, SaveState and DeleteState.
LEMMA RecordReads ==
    ASSUME TypeOK, TypeInv, TypeOK', ReadInv, NEW s \in Session,
           GetAttrs(s) \/ GetRead(s) \/ SaveWrite(s) \/ SaveConfirm(s) \/ DeleteRecord(s)
    PROVE  ReadInv'
<1>0. /\ StepFits(s) /\ ListFits(s) /\ GetFits(s) /\ RecordsFit /\ late' = late
      /\ rpc[s].at # "done" /\ rpc[s] \in Call /\ Target(s) \in Key
      /\ Target(s)[2] = SanitizeID[rpc[s].id] /\ rpc[s].id \in Id
  <2>1. rpc[s].at # "done" /\ late' = late
    BY DEF GetAttrs, GetRead, SaveWrite, SaveConfirm, DeleteRecord, fate
  <2> QED
    BY <2>1, BusyIsCall, TargetIsKey DEF ReadInv, Target, KeyOf, Call
<1>1. CASE GetAttrs(s)
  <2>1. UNCHANGED <<records, gen>> /\ rpc[s].op = "GetState"
    BY <1>0, <1>1 DEF GetAttrs, bucket, StepFits, StepsOf, AllOps
  <2>2. BucketMoves /\ RecordsFit'
    BY <1>0, <2>1, StillBucket
  <2>3. CASE Answer(s, "not_found")
    BY <1>0, <2>2, <2>3, AnswerShows, OthersKnow
  <2>4. CASE GoTo(s, "read")
    <3>1. "read" \in StepsOf[rpc[s].op]
      BY <2>1 DEF StepsOf
    <3> QED
      BY <1>0, <2>2, <2>4, <3>1, GoToShows, OthersKnow
  <2> QED
    BY <1>1, <2>3, <2>4 DEF GetAttrs
<1>2. CASE GetRead(s)
  <2>1. UNCHANGED <<records, gen>>
    BY <1>2 DEF GetRead, bucket
  <2>2. BucketMoves /\ RecordsFit'
    BY <1>0, <2>1, StillBucket
  <2>3. CASE Answer(s, "error")
    BY <1>0, <2>2, <2>3, AnswerShows, OthersKnow
  <2>4. CASE /\ records[Target(s)] # NoObject /\ Decodes(records[Target(s)])
             /\ AnswerWith(s, {records[Target(s)]})
    <3>1. NamesDiffer => records[Target(s)].resource_id = rpc[s].id
      BY <1>0, <2>4 DEF RecordsFit, NamesDiffer
    <3>2. /\ Others(s) /\ rpc'[s].at = "done" /\ rpc'[s].got = {records[Target(s)]}
          /\ rpc'[s].id = rpc[s].id /\ rpc'[s].op = rpc[s].op
      BY <1>0, <2>4 DEF AnswerWith, TypeOK, Others, Call
    <3>3. rpc[s].op = "GetState"
      BY <1>0, <1>2 DEF GetRead, StepFits, StepsOf, AllOps
    <3>4. StepFits(s)' /\ ListFits(s)' /\ GetFits(s)'
      BY <3>1, <3>2, <3>3 DEF StepFits, ListFits, Listing, GetFits
    <3> QED
      BY <2>2, <3>2, <3>4, OthersKnow
  <2> QED
    BY <1>2, <2>3, <2>4 DEF GetRead
<1>3. CASE SaveWrite(s)
  <2>1. rpc[s].op = "SaveState" /\ rpc[s].arg \in Status
    BY <1>0, <1>3 DEF SaveWrite, StepFits, StepsOf, AllOps, TypeInv, SaveArgs
  <2>2. BucketMoves /\ RecordsFit'
    BY <1>0, <1>3, <2>1, WriteMoves DEF SaveWrite
  <2>3. "confirm" \in StepsOf[rpc[s].op]
    BY <2>1 DEF StepsOf
  <2> QED
    BY <1>0, <1>3, <2>2, <2>3, GoToShows, OthersKnow DEF SaveWrite
<1>4. CASE SaveConfirm(s)
  <2>1. UNCHANGED <<records, gen>> /\ rpc[s].op = "SaveState"
    BY <1>0, <1>4 DEF SaveConfirm, bucket, StepFits, StepsOf, AllOps
  <2>2. BucketMoves /\ RecordsFit'
    BY <1>0, <2>1, StillBucket
  <2>3. PICK out : Answer(s, out)
    BY <1>4 DEF SaveConfirm
  <2> QED
    BY <1>0, <2>1, <2>2, <2>3, AnswerShows, OthersKnow
<1>5. CASE DeleteRecord(s)
  <2>1. rpc[s].op = "DeleteState"
    BY <1>0, <1>5 DEF DeleteRecord, StepFits, StepsOf, AllOps
  <2>2. BucketMoves /\ RecordsFit'
    BY <1>0, <1>5, DropMoves DEF DeleteRecord
  <2>3. PICK out : Answer(s, out)
    BY <1>5 DEF DeleteRecord
  <2> QED
    BY <1>0, <2>1, <2>2, <2>3, AnswerShows, OthersKnow
<1> QED
  BY <1>1, <1>2, <1>3, <1>4, <1>5

\* The steps of ListStates.
LEMMA ListReads ==
    ASSUME TypeOK, TypeOK', ReadInv, NEW s \in Session, ListKeys(s) \/ ListRead(s) \/ ListAnswer(s)
    PROVE  ReadInv'
<1>0. /\ StepFits(s) /\ ListFits(s) /\ late' = late /\ UNCHANGED <<records, gen>>
      /\ rpc[s].at \in {"list", "each"} /\ rpc[s] \in Call /\ rpc[s].op = "ListStates"
  <2>1. rpc[s].at \in {"list", "each"} /\ late' = late /\ UNCHANGED <<records, gen>>
    BY DEF ListKeys, ListRead, ListAnswer, bucket, fate
  <2> QED
    BY <2>1, BusyIsCall DEF ReadInv, StepFits, StepsOf, AllOps
<1>1. BucketMoves /\ RecordsFit'
  BY <1>0, StillBucket DEF ReadInv
<1>2. CASE ListKeys(s)
  <2>1. /\ Others(s) /\ rpc'[s].at = "each" /\ rpc'[s].since = gen /\ rpc'[s].op = "ListStates"
        /\ rpc'[s].todo = {k \in Key : k[1] = rpc[s].cfg /\ records[k] # NoObject}
        /\ rpc'[s].cfg = rpc[s].cfg /\ rpc'[s].arg = rpc[s].arg /\ rpc'[s] \in Call
    <3>1. rpc'[s] = [rpc[s] EXCEPT !.at = "each", !.since = gen,
                          !.todo = {k \in Key : k[1] = rpc[s].cfg /\ records[k] # NoObject}]
      BY <1>2 DEF ListKeys, TypeOK
    <3>2. Others(s)
      BY <1>2 DEF ListKeys, TypeOK, Others
    <3>3. rpc'[s] \in Call
      BY ZenonT(30), <1>0, <3>1 DEF TypeOK, Call, Steps
    <3> QED
      BY <1>0, <3>1, <3>2, <3>3 DEF Call
  <2>2. ListFits(s)'
    BY <1>0, <2>1 DEF ListFits, Matching, TypeOK
  <2> QED
    BY <1>1, <2>1, <2>2, OthersKnow DEF StepFits, StepsOf, AllOps, GetFits
<1>3. CASE ListRead(s)
  <2>0. rpc[s].at = "each"
    BY <1>3 DEF ListRead
  <2>1. PICK k \in rpc[s].todo :
           rpc' = [rpc EXCEPT ![s].todo = @ \ {k},
                      ![s].got = IF records[k] # NoObject /\ Decodes(records[k])
                                    /\ MatchesFilter(records[k], rpc[s].arg)
                                 THEN @ \cup {records[k]} ELSE @]
    BY <1>3, Zenon DEF ListRead
  <2>2. /\ Others(s) /\ rpc'[s].at = "each" /\ rpc'[s].since = rpc[s].since
        /\ rpc'[s].op = "ListStates" /\ rpc'[s].todo = rpc[s].todo \ {k}
        /\ rpc'[s].cfg = rpc[s].cfg /\ rpc'[s].arg = rpc[s].arg
        /\ rpc[s].got \subseteq rpc'[s].got
        /\ (records[k] # NoObject /\ Decodes(records[k]) /\ MatchesFilter(records[k], rpc[s].arg))
              => records[k] \in rpc'[s].got
    BY <1>0, <2>0, <2>1 DEF TypeOK, Others, Call
  <2>3. rpc'[s] \in Call
    BY <2>2 DEF TypeOK, Reply
  <2>4. ListFits(s)'
    <3> SUFFICES ASSUME SureReads PROVE ListFits(s)'
      BY DEF ListFits
    <3>1. rpc[s].since <= gen
      BY <1>0, <2>0 DEF ListFits, Listing
    <3>2. ASSUME NEW q \in Key, Matching(s, q)'
          PROVE  records'[q] \in rpc'[s].got \/ q \in rpc'[s].todo
      <4>1. Matching(s, q) /\ records'[q] = records[q]
        BY <1>0, <2>2, <3>2 DEF Matching
      <4>2. records[q] \in rpc[s].got \/ q \in rpc[s].todo
        BY <1>0, <2>0, <4>1 DEF ListFits, Listing
      <4> QED
        BY <2>2, <4>1, <4>2 DEF Matching
    <3> QED
      BY <1>0, <2>2, <2>3, <3>1, <3>2 DEF ListFits
  <2> QED
    BY <1>1, <2>2, <2>4, OthersKnow DEF StepFits, StepsOf, AllOps, GetFits
<1>4. CASE ListAnswer(s)
  <2>1. /\ Others(s) /\ rpc'[s].at = "done" /\ rpc'[s].since = rpc[s].since
        /\ rpc'[s].op = "ListStates" /\ rpc'[s].got = rpc[s].got /\ rpc'[s] \in Call
        /\ rpc'[s].cfg = rpc[s].cfg /\ rpc'[s].arg = rpc[s].arg
        /\ rpc[s].at = "each" /\ rpc[s].todo = {}
    <3>1. rpc'[s] = [rpc[s] EXCEPT !.at = "done", !.out = "ok", !.got = rpc[s].got]
      BY <1>4 DEF ListAnswer, AnswerWith, TypeOK
    <3>2. Others(s) /\ rpc[s].at = "each" /\ rpc[s].todo = {}
      BY <1>4 DEF ListAnswer, AnswerWith, TypeOK, Others
    <3>3. rpc'[s] \in Call
      BY <1>0, <3>1 DEF Call, Steps, Outcome
    <3> QED
      BY <1>0, <3>1, <3>2, <3>3 DEF Call
  <2>2. ListFits(s)'
    BY <1>0, <2>1 DEF ListFits, Listing, Matching
  <2> QED
    BY <1>1, <2>1, <2>2, OthersKnow DEF StepFits, GetFits
<1> QED
  BY <1>2, <1>3, <1>4

\* The steps of Lock and Unlock leave records and answers alone.
LEMMA LockReads ==
    ASSUME TypeOK, TypeInv, TypeOK', ReadInv, NEW s \in Session,
           LockCreate(s) \/ LockCreated(s) \/ LockGranted(s) \/ UnlockRemove(s) \/ UnlockDone(s)
    PROVE  ReadInv'
<1>1. /\ UNCHANGED <<records, gen, late>> /\ StepFits(s) /\ rpc[s].at # "done"
      /\ rpc[s].op \in {"Lock", "Unlock"}
  <2>1. /\ UNCHANGED <<records, gen, late>>
        /\ rpc[s].at \in {"create", "created", "map", "remove"}
    BY DEF LockCreate, LockCreated, LockGranted, UnlockRemove, UnlockDone, bucket, fate
  <2> QED
    BY <2>1 DEF ReadInv, StepFits, StepsOf, AllOps
<1>2. BucketMoves /\ RecordsFit'
  BY <1>1, StillBucket DEF ReadInv
<1>3. CASE \E out : Answer(s, out)
  BY <1>1, <1>2, <1>3, AnswerShows, OthersKnow
<1>4. CASE LockCreate(s) /\ GoTo(s, "created")
  <2>1. "created" \in StepsOf[rpc[s].op]
    BY <1>1, <1>4 DEF LockCreate, StepFits, StepsOf, AllOps
  <2> QED
    BY <1>1, <1>2, <1>4, <2>1, GoToShows, OthersKnow
<1>5. CASE GoTo(s, "map")
  <2>1. "map" \in StepsOf[rpc[s].op]
    BY <1>1 DEF StepsOf
  <2> QED
    BY <1>1, <1>2, <1>5, <2>1, GoToShows, OthersKnow
<1> QED
  BY <1>3, <1>4, <1>5 DEF LockCreate, LockCreated, LockGranted, UnlockRemove, UnlockDone

\* A call begins with its operation's first step, or is answered at once.
LEMMA CallReads ==
    ASSUME TypeOK, TypeOK', ReadInv, NEW s \in Session, Calls(s)
    PROVE  ReadInv'
<1>1. UNCHANGED <<records, gen, late>>
  BY DEF Calls, Invoke, Unconfigured, Rejected, bucket, fate
<1>2. BucketMoves /\ RecordsFit'
  BY <1>1, StillBucket DEF ReadInv
<1>3. ASSUME NEW op \in Ops, NEW id \in Id, NEW arg, Invoke(s, op, id, arg)  PROVE ReadInv'
  <2>1. op \in AllOps
    BY GcsStateStoreAssumption DEF ConstantsOK
  <2>2. Others(s) /\ rpc'[s].op = op /\ rpc'[s].at = FirstStep[op]
    BY <1>3 DEF Invoke, TypeOK, Others
  <2>3. FirstStep[op] \in StepsOf[op] /\ FirstStep[op] \notin {"each", "done"}
    BY <2>1 DEF AllOps, FirstStep, StepsOf
  <2> QED
    BY <1>2, <2>1, <2>2, <2>3, NothingShown, OthersKnow DEF StepFits
<1>4. ASSUME NEW op, NEW out \in {"error", "unconfigured"},
             rpc' = [rpc EXCEPT ![s] = [Idle EXCEPT !.op = op, !.out = out]]
      PROVE  ReadInv'
  <2>1. Others(s) /\ rpc'[s].at = "done" /\ rpc'[s].out # "ok"
    BY <1>4 DEF TypeOK, Others, Idle
  <2> QED
    BY <1>2, <2>1, NothingShown, OthersKnow DEF StepFits
<1> QED
  BY <1>3, <1>4 DEF Calls, Unconfigured, Rejected

\* What is given up on its way lies under its ID's name too.
LEMMA AbandonReads ==
    ASSUME TypeOK, RecordsFit, NEW S \in SUBSET Session, Abandon(S), UNCHANGED <<records, gen>>
    PROVE  BucketMoves /\ RecordsFit'
<1>1. BucketMoves
  BY StillBucket
<1>2. \A s \in Session : RequestOf(s).key[2] = SanitizeID[RequestOf(s).id]
  BY DEF RequestOf, Target, KeyOf
<1>3. \A r \in late' : r \in late \/ \E s \in Session : r = RequestOf(s)
  BY DEF Abandon
<1> QED
  BY <1>1, <1>2, <1>3 DEF RecordsFit

\* A failed call, and the death of a process or of a session.
LEMMA FailReads ==
    ASSUME TypeOK, TypeOK', ReadInv, NEW s \in Session, NEW kind \in Faults, Fail(s, kind)
    PROVE  ReadInv'
<1>1. UNCHANGED <<records, gen>> /\ rpc[s] \in Call
  BY BusyIsCall DEF Fail, bucket, Busy
<1>2. BucketMoves /\ RecordsFit'
  BY <1>1, AbandonReads DEF Fail, ReadInv
<1>3. CASE rpc[s].at = "each" /\ kind = "transient" /\ \E keys : rpc' = [rpc EXCEPT ![s].todo = keys]
  <2>1. Others(s) /\ rpc'[s].at = rpc[s].at /\ rpc'[s].op = rpc[s].op
    BY <1>1, <1>3 DEF TypeOK, Others, Call
  <2>2. ~SureReads
    BY <1>3 DEF SureReads
  <2> QED
    BY <1>2, <1>3, <2>1, <2>2, OthersKnow DEF ReadInv, StepFits, ListFits, GetFits
<1>4. CASE \E out \in {"already_locked", "error"} : rpc' = [rpc EXCEPT ![s] = Failed(@, out)]
  <2>1. Others(s) /\ rpc'[s].at = "done" /\ rpc'[s].out # "ok"
    BY <1>1, <1>4 DEF TypeOK, Others, Call, Failed
  <2> QED
    BY <1>2, <2>1, NothingShown, OthersKnow DEF StepFits
<1> QED
  BY <1>3, <1>4 DEF Fail

LEMMA DeathReads ==
    ASSUME TypeOK, TypeOK', ReadInv,
           (\E p \in Process : Die(p)) \/ \E s \in Session : SessionDies(s)
    PROVE  ReadInv'
<1>1. ASSUME NEW p \in Process, Die(p)  PROVE ReadInv'
  <2>1. BucketMoves /\ RecordsFit'
    BY <1>1, AbandonReads DEF Die, bucket, ReadInv
  <2>2. ASSUME NEW s \in Session  PROVE StepFits(s)' /\ ListFits(s)' /\ GetFits(s)'
    <3>1. CASE rpc'[s] = rpc[s]
      BY <2>1, <3>1, KnownStays DEF ReadInv
    <3>2. CASE rpc[s].at # "done" /\ rpc'[s] = Failed(rpc[s], "error")
      <4>1. rpc[s] \in Call
        BY <3>2, BusyIsCall
      <4>2. rpc'[s].at = "done" /\ rpc'[s].out # "ok"
        BY <3>2, <4>1 DEF Failed, Call
      <4> QED
        BY <4>2, NothingShown DEF StepFits
    <3> QED
      BY <1>1, <3>1, <3>2 DEF Die, Busy
  <2> QED
    BY <2>1, <2>2 DEF ReadInv
<1>2. ASSUME NEW s \in Session, SessionDies(s)  PROVE ReadInv'
  <2>1. BucketMoves /\ RecordsFit'
    BY <1>2, AbandonReads DEF SessionDies, bucket, ReadInv
  <2>2. Others(s) /\ rpc'[s].at = "done" /\ rpc'[s].op = "none"
    BY <1>2 DEF SessionDies, TypeOK, Others, Idle
  <2> QED
    BY <2>1, <2>2, NothingShown, OthersKnow DEF StepFits
<1> QED
  BY <1>1, <1>2

\* A request that lands late brings a newer record, or takes one away.
LEMMA LandReads ==
    ASSUME TypeInv, TypeOK', ReadInv, NEW r \in late, Land(r)
    PROVE  ReadInv'
<1>0. /\ TypeOK /\ RecordsFit /\ UNCHANGED rpc /\ late' \subseteq late
      /\ r.key \in Key /\ r.id \in Id
  BY DEF TypeInv, TypeOK, Request, Land, ReadInv
<1>1. BucketMoves /\ RecordsFit'
  <2>1. CASE r.at = "write"
    <3>1. r.arg \in Status /\ r.key[2] = SanitizeID[r.id]
      BY <1>0, <2>1 DEF TypeInv, SaveArgs, RecordsFit
    <3>2. PutRecord(r.key, r.id, r.arg)
      BY <2>1 DEF Land
    <3> QED
      BY <1>0, <3>1, <3>2, WriteMoves
  <2>2. CASE r.at = "delete"
    BY <1>0, <2>2, DropMoves DEF Land
  <2>3. CASE r.at \notin {"write", "delete"}
    BY <1>0, <2>3, StillBucket DEF Land
  <2> QED
    BY <2>1, <2>2, <2>3
<1> QED
  BY <1>0, <1>1, KnownStays DEF ReadInv

\* Every step keeps ReadInv.
LEMMA ReadStep ==
    ASSUME TypeInv, TypeInv', ReadInv, [Next]_vars
    PROVE  ReadInv'
<1>0. TypeOK /\ TypeOK'
  BY DEF TypeInv
<1>1. CASE UNCHANGED vars
  BY <1>0, <1>1, StillBucket, KnownStays DEF vars, ReadInv
<1>2. ASSUME NEW s \in Session, Calls(s)  PROVE ReadInv'
  BY <1>0, <1>2, CallReads
<1>3. ASSUME NEW s \in Session, Handler(s)  PROVE ReadInv'
  BY <1>0, <1>3, RecordReads, ListReads, LockReads DEF Handler
<1>4. ASSUME NEW s \in Session, NEW kind \in Faults, Fail(s, kind)  PROVE ReadInv'
  BY <1>0, <1>4, FailReads
<1>5. CASE (\E p \in Process : Die(p)) \/ \E s \in Session : SessionDies(s)
  BY <1>0, <1>5, DeathReads
<1>6. ASSUME NEW r \in late, Land(r)  PROVE ReadInv'
  BY <1>0, <1>6, LandReads
<1>7. ASSUME NEW p \in Process, NEW c \in Delivers[p], Configure(p, c)  PROVE ReadInv'
  <2>1. UNCHANGED <<rpc, records, gen, late>>
    BY <1>7 DEF Configure, bucket, fate
  <2> QED
    BY <1>0, <2>1, StillBucket, KnownStays DEF ReadInv
<1> QED
  BY <1>1, <1>2, <1>3, <1>4, <1>5, <1>6, <1>7 DEF Next, ProcessDies, MapRace

LEMMA ReadInvInit == Init => ReadInv
BY DEF Init, ReadInv, RecordsFit, StepFits, ListFits, Listing, GetFits, Idle, NoObject, Decodes

LEMMA ReadInvHolds == Spec => []ReadInv
BY ReadInvInit, ReadStep, TypeCorrect, PTL DEF Spec

\* Where no read fails in the middle of a listing, ListStates answers every matching record
\* that was there when it listed the keys and still is, whoever writes and deletes meanwhile.
THEOREM ListingsAreComplete == SureReads => (Spec => []ListIsComplete)
<1> SUFFICES ASSUME SureReads PROVE Spec => []ListIsComplete
  OBVIOUS
<1>1. ReadInv => ListIsComplete
  BY DEF ReadInv, ListFits, Listing, Matching, ListIsComplete
<1> QED
  BY <1>1, ReadInvHolds, PTL

\* Where no two IDs have one sanitized name, GetState answers a record of the ID asked for.
THEOREM AnswersAreOfTheId == NamesDiffer => (Spec => []AnswersTheIdAsked)
<1> SUFFICES ASSUME NamesDiffer PROVE Spec => []AnswersTheIdAsked
  OBVIOUS
<1>1. ReadInv => AnswersTheIdAsked
  BY DEF ReadInv, GetFits, AnswersTheIdAsked
<1> QED
  BY <1>1, ReadInvHolds, PTL

-----------------------------------------------------------------------------
(* The store implements LockedState *)

\* What the refinement of a step rests on: the invariants proved of the store.
PromiseInv == TypeInv /\ LockInv /\ ChangesUnderLock

\* A step of the store is a step of the abstract lock or leaves its variables alone.
PromiseStep == [Promise!ANext]_(Promise!avars)

\* A step that touches neither records, locks, grants nor doubts is a stutter.
LEMMA StutterPromise ==
    ASSUME UNCHANGED <<records, locks, held, doubt>>
    PROVE  PromiseStep
BY DEF PromiseStep, Promise!avars

\* Nobody holds a lock whose object belongs to a session that does not hold it.
LEMMA NobodyHolds ==
    ASSUME LockInv, NEW s \in Session, NEW k \in Key, locks[k] = s, k \notin held[s]
    PROVE  \A t \in Session : k \notin held[t]
BY DEF LockInv, HeldLockStands

\* A record changed at the hands of its lock's holder, or one in doubt, is a Change.
LEMMA ChangePromise ==
    ASSUME TypeOK, NEW k \in Key, NEW o, records' = [records EXCEPT ![k] = o],
           k \in doubt \/ \E s \in Session : k \in held[s],
           UNCHANGED <<locks, held, doubt>>
    PROVE  PromiseStep
<1>1. records' = [records EXCEPT ![k] = records'[k]]
  BY DEF TypeOK
<1>2. Promise!Change(k)
  BY <1>1 DEF Promise!Change
<1> QED
  BY <1>2 DEF PromiseStep, Promise!ANext

\* A lock object that goes while nobody holds its lock is a Release.
LEMMA ReleasePromise ==
    ASSUME NEW k \in Key, \A t \in Session : k \notin held[t],
           locks' = [locks EXCEPT ![k] = None],
           UNCHANGED <<records, held, doubt>>
    PROVE  PromiseStep
<1>1. Promise!Release(k)
  BY DEF Promise!Release
<1> QED
  BY <1>1 DEF PromiseStep, Promise!ANext

\* A lock object created where there is none is an Acquire.
LEMMA AcquirePromise ==
    ASSUME NEW s \in Session, NEW k \in Key, locks[k] = None,
           locks' = [locks EXCEPT ![k] = s],
           UNCHANGED <<records, held, doubt>>
    PROVE  PromiseStep
<1>1. Promise!Acquire(s, k)
  BY DEF Promise!Acquire
<1> QED
  BY <1>1 DEF PromiseStep, Promise!ANext

\* A session that loses some of its locks while calls are given up is an Abandon.
LEMMA AbandonPromise ==
    ASSUME TypeOK, NEW s \in Session, NEW kept \in SUBSET Key, NEW S \in SUBSET Session,
           held' = [held EXCEPT ![s] = @ \cap kept],
           doubt' = doubt \/ Abandon(S),
           doubt' \subseteq Key,
           UNCHANGED <<records, locks>>
    PROVE  PromiseStep
<1>1. doubt \subseteq doubt'
  BY DEF Abandon
<1>2. doubt' = doubt \cup doubt'
  BY <1>1
<1>3. Promise!Abandon(s, kept, doubt')
  BY <1>2 DEF Promise!Abandon
<1> QED
  BY <1>3 DEF PromiseStep, Promise!ANext

-----------------------------------------------------------------------------
(* One step *)

\* The steps of a handler.
LEMMA HandlerPromise ==
    ASSUME PromiseInv, NEW s \in Session, Handler(s)
    PROVE  PromiseStep
<1> USE DEF PromiseInv
<1> DEFINE k == Target(s)
<1>0. TypeOK
  BY DEF TypeInv
<1>1. rpc[s].at # "done"
  BY DEF Handler, GetAttrs, GetRead, SaveWrite, SaveConfirm, DeleteRecord, ListKeys, ListRead,
         ListAnswer, LockCreate, LockCreated, LockGranted, UnlockRemove, UnlockDone
<1>2. k \in Key
  BY <1>0, <1>1, BusyIsCall, TargetIsKey
<1>3. CASE SaveWrite(s)
  BY <1>0, <1>2, <1>3, ChangePromise DEF SaveWrite, PutRecord, ChangesUnderLock, fate
<1>4. CASE DeleteRecord(s)
  BY <1>0, <1>2, <1>4, ChangePromise DEF DeleteRecord, DropRecord, ChangesUnderLock, fate
<1>5. CASE LockCreate(s)
  <2>1. CASE locks[k] = None
    BY <1>2, <1>5, <2>1, AcquirePromise DEF LockCreate, host, fate
  <2>2. CASE locks[k] # None
    BY <1>5, <2>2, StutterPromise DEF LockCreate, host, fate
  <2> QED
    BY <2>1, <2>2
<1>6. CASE LockGranted(s)
  <2>1. locks[k] = s
    BY <1>6 DEF LockGranted, LockInv, ClaimsStand, Claiming, Acquiring
  <2>2. Promise!Grant(s, k)
    BY <1>6, <2>1 DEF LockGranted, Promise!Grant, bucket, fate
  <2> QED
    BY <1>2, <2>2 DEF PromiseStep, Promise!ANext
<1>7. CASE UnlockRemove(s)
  <2>1. locks[k] = s /\ k \notin held[s]
    BY <1>7 DEF UnlockRemove, LockInv, ClaimsStand, Claiming, Releasing
  <2>2. \A t \in Session : k \notin held[t]
    BY <1>2, <2>1, NobodyHolds
  <2> QED
    BY <1>2, <1>7, <2>2, ReleasePromise DEF UnlockRemove, host, fate
<1>8. CASE \/ GetAttrs(s) \/ GetRead(s) \/ SaveConfirm(s) \/ ListKeys(s) \/ ListRead(s)
           \/ ListAnswer(s) \/ LockCreated(s) \/ UnlockDone(s)
  <2>1. UNCHANGED <<records, locks, held, doubt>>
    BY <1>8 DEF GetAttrs, GetRead, SaveConfirm, ListKeys, ListRead, ListAnswer, LockCreated,
                UnlockDone, bucket, host, fate
  <2> QED
    BY <2>1, StutterPromise
<1> QED
  BY <1>3, <1>4, <1>5, <1>6, <1>7, <1>8 DEF Handler

\* The calls of a session.
LEMMA CallsPromise ==
    ASSUME PromiseInv, TypeOK', NEW s \in Session, Calls(s)
    PROVE  PromiseStep
<1>0. TypeOK
  BY DEF PromiseInv, TypeInv
<1>1. ASSUME NEW op \in Ops, NEW id \in Id, NEW arg, Invoke(s, op, id, arg)
      PROVE  PromiseStep
  <2> DEFINE k == KeyOf(store[ProcessOf[s]].cfg, id)
  <2>1. CASE op = "Unlock"
    <3>1. held' = [held EXCEPT ![s] = @ \ {k}] /\ UNCHANGED <<records, locks, doubt>>
      BY <1>1, <2>1 DEF Invoke, bucket, fate
    <3>2. held[s] \subseteq Key
      BY <1>0 DEF TypeOK
    <3>3. held' = [held EXCEPT ![s] = @ \cap (Key \ {k})]
      BY <3>1, <3>2
    <3>4. doubt' \subseteq Key
      BY DEF TypeOK
    <3> QED
      BY <1>0, <3>1, <3>3, <3>4, AbandonPromise
  <2>2. CASE op # "Unlock"
    <3>1. UNCHANGED <<records, locks, held, doubt>>
      BY <1>1, <2>2 DEF Invoke, bucket, host, fate
    <3> QED
      BY <3>1, StutterPromise
  <2> QED
    BY <2>1, <2>2
<1>2. ASSUME NEW op \in Ops, NEW id \in Id, NEW arg, Rejected(s, id, arg) \/ Unconfigured(s, op)
      PROVE  PromiseStep
  <2>1. UNCHANGED <<records, locks, held, doubt>>
    BY <1>2 DEF Rejected, Unconfigured, bucket, host, fate
  <2> QED
    BY <2>1, StutterPromise
<1> QED
  BY <1>1, <1>2 DEF Calls

\* Calls that end early: failed ones and those of a process or a session that dies.
LEMMA FailurePromise ==
    ASSUME PromiseInv, TypeOK',
           \/ \E s \in Session, kind \in Faults : Fail(s, kind)
           \/ \E p \in Process : ProcessDies(p) \/ MapRace(p)
           \/ \E s \in Session : SessionDies(s)
    PROVE  PromiseStep
<1>0. TypeOK /\ doubt' \subseteq Key
  BY DEF PromiseInv, TypeInv, TypeOK
<1>1. ASSUME NEW S \in SUBSET Session, Abandon(S), UNCHANGED <<records, locks, held>>
      PROVE  PromiseStep
  <2>1. CASE Session = {}
    <3>1. doubt' = doubt
      BY <1>1, <2>1 DEF Abandon
    <3> QED
      BY <1>1, <3>1, StutterPromise
  <2>2. ASSUME NEW t \in Session PROVE PromiseStep
    <3>1. held' = [held EXCEPT ![t] = @ \cap Key]
      BY <1>0, <1>1 DEF TypeOK
    <3> QED
      BY <1>0, <1>1, <3>1, AbandonPromise
  <2> QED
    BY <2>1, <2>2
<1>2. ASSUME NEW s \in Session, NEW kind \in Faults, Fail(s, kind) PROVE PromiseStep
  BY <1>1, <1>2 DEF Fail, bucket, host
<1>3. ASSUME NEW p \in Process, ProcessDies(p) \/ MapRace(p) PROVE PromiseStep
  BY <1>1, <1>3 DEF ProcessDies, MapRace, Die, bucket, host
<1>4. ASSUME NEW s \in Session, SessionDies(s) PROVE PromiseStep
  <2> DEFINE kept == {}
             S == {s}
  <2>1. held' = [held EXCEPT ![s] = @ \cap kept] /\ UNCHANGED <<records, locks>>
    BY <1>4 DEF SessionDies, bucket
  <2>2. Abandon(S) /\ kept \in SUBSET Key /\ S \in SUBSET Session
    BY <1>4 DEF SessionDies
  <2> HIDE DEF kept, S
  <2> QED
    BY <1>0, <2>1, <2>2, AbandonPromise
<1> QED
  BY <1>2, <1>3, <1>4

\* A request that takes effect after its sender gave it up.
LEMMA LandPromise ==
    ASSUME PromiseInv, NEW r \in late, Land(r)
    PROVE  PromiseStep
<1>0. TypeOK /\ r \in Request /\ r.key \in Key /\ r.by \in Session
  BY DEF PromiseInv, TypeInv, TypeOK, Request
<1>1. CASE r.at \in {"write", "delete"}
  <2>1. r.key \in doubt
    BY <1>1 DEF PromiseInv, ChangesUnderLock
  <2> QED
    BY <1>0, <1>1, <2>1, ChangePromise DEF Land, PutRecord, DropRecord, host
<1>2. CASE r.at = "create"
  <2>1. CASE locks[r.key] = None
    BY <1>0, <1>2, <2>1, AcquirePromise DEF Land, host
  <2>2. CASE locks[r.key] # None
    BY <1>2, <2>2, StutterPromise DEF Land, host
  <2> QED
    BY <2>1, <2>2
<1>3. CASE r.at = "remove"
  <2>1. \A t \in Session : r.key \notin held[t]
    BY <1>0, <1>3, NobodyHolds DEF PromiseInv, LockInv, LateRemovals
  <2> QED
    BY <1>0, <1>3, <2>1, ReleasePromise DEF Land, host
<1> QED
  BY <1>0, <1>1, <1>2, <1>3 DEF Request, Changing

-----------------------------------------------------------------------------

\* Every step of the store is a step of the abstract lock, or a stutter.
LEMMA NextPromise ==
    ASSUME PromiseInv, TypeOK', [Next]_vars
    PROVE  PromiseStep
<1>1. CASE UNCHANGED vars
  BY <1>1, StutterPromise DEF vars
<1>2. ASSUME NEW s \in Session, Calls(s) \/ Handler(s) PROVE PromiseStep
  BY <1>2, CallsPromise, HandlerPromise
<1>3. ASSUME NEW r \in late, Land(r) PROVE PromiseStep
  BY <1>3, LandPromise
<1>4. ASSUME NEW p \in Process, NEW c \in Delivers[p], Configure(p, c) PROVE PromiseStep
  <2>1. UNCHANGED <<records, locks, held, doubt>>
    BY <1>4 DEF Configure, bucket, host, fate
  <2> QED
    BY <2>1, StutterPromise
<1> QED
  BY <1>1, <1>2, <1>3, <1>4, FailurePromise DEF Next

\* Callers that lock before they write see the locked key-value store of LockedState: the
\* bucket's lock object changes hands only when nobody holds it, and a record changes only
\* under its lock or by a request in doubt.
THEOREM StoreKeepsPromise == DisciplinedHosts => (Spec => KeepsPromise)
<1> SUFFICES ASSUME DisciplinedHosts PROVE Spec => KeepsPromise
  OBVIOUS
<1>1. Init => Promise!AInit
  BY DEF Init, Promise!AInit
<1>2. TypeInv /\ LockInv /\ ChangesUnderLock /\ TypeInv' /\ [Next]_vars
      => [Promise!ANext]_(Promise!avars)
  BY NextPromise DEF PromiseInv, TypeInv, PromiseStep
<1> QED
  BY <1>1, <1>2, TypeCorrect, LockCorrect, ChangesAreLocked, PTL DEF Spec, KeepsPromise, Promise!ASpec
=============================================================================
