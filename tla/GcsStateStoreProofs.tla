------------------------- MODULE GcsStateStoreProofs -------------------------
(***************************************************************************)
(* The types of GcsStateStore and, under disciplined callers, that its     *)
(* lock excludes: theorems for any number of processes, sessions and keys, *)
(* any failed calls, late requests and deaths, any sanitizeID and any      *)
(* Configure.                                                              *)
(***************************************************************************)
EXTENDS GcsStateStore, TLAPS

-----------------------------------------------------------------------------
(* Type correctness *)

\* An RPC under way is a full call record.
LEMMA BusyIsCall ==
    ASSUME TypeOK, NEW s \in Session, rpc[s].at # "done"
    PROVE  rpc[s] \in Call
BY DEF TypeOK, Reply

\* The target of a call is a key.
LEMMA TargetIsKey ==
    ASSUME TypeOK, NEW s \in Session, rpc[s].at # "done"
    PROVE  Target(s) \in Key
<1>1. rpc[s] \in Call
  BY BusyIsCall
<1> QED
  BY <1>1, GcsStateStoreAssumption DEF Target, KeyOf, Key, Call, ConstantsOK

\* An answered call is a reply or a call record.
LEMMA AnswerType ==
    ASSUME TypeOK, NEW s \in Session, NEW out \in Outcome, Answer(s, out)
    PROVE  rpc' \in [Session -> Call \cup Reply]
<1>1. rpc[s].op \in AllOps \cup {"none"}
  BY DEF TypeOK, Call, Reply
<1>2. [Idle EXCEPT !.op = rpc[s].op, !.out = out] \in Reply
  BY <1>1 DEF Idle, Reply
<1> QED
  BY <1>2 DEF Answer, TypeOK

\* A call that moves to another step is a call record.
LEMMA GoToType ==
    ASSUME TypeOK, NEW s \in Session, rpc[s].at # "done", NEW step \in Steps, GoTo(s, step)
    PROVE  rpc' \in [Session -> Call \cup Reply]
<1>1. rpc[s] \in Call
  BY BusyIsCall
<1>2. [rpc[s] EXCEPT !.at = step] \in Call
  BY <1>1 DEF Call
<1> QED
  BY <1>2 DEF GoTo, TypeOK

\* A call answered with records is a call record.
LEMMA AnswerWithType ==
    ASSUME TypeOK, NEW s \in Session, rpc[s].at # "done", NEW objs \in SUBSET Object,
           AnswerWith(s, objs)
    PROVE  rpc' \in [Session -> Call \cup Reply]
<1>1. rpc[s] \in Call
  BY BusyIsCall
<1>2. [rpc[s] EXCEPT !.at = "done", !.out = "ok", !.got = objs] \in Call
  BY <1>1 DEF Call, Steps, Outcome
<1>3. rpc' = [rpc EXCEPT ![s] = [rpc[s] EXCEPT !.at = "done", !.out = "ok", !.got = objs]]
  BY DEF AnswerWith, TypeOK
<1> QED
  BY <1>2, <1>3 DEF TypeOK

\* A failed call is a call record.
LEMMA FailedType ==
    ASSUME TypeOK, NEW s \in Session, NEW out \in Outcome
    PROVE  Failed(rpc[s], out) \in Call \cup Reply
<1>1. CASE rpc[s] \in Call
  BY <1>1 DEF Failed, Call, Steps
<1>2. CASE rpc[s] \in Reply
  BY <1>2 DEF Failed, Reply
<1> QED
  BY <1>1, <1>2 DEF TypeOK

\* What a lock holder learns is a set of generations.
LEMMA LearnType ==
    ASSUME TypeOK, NEW s \in Session, rpc[s].at # "done", NEW g \in Nat, Learn(s, g)
    PROVE  view' \in [Session -> [Key -> SUBSET Nat]]
<1>1. Target(s) \in Key
  BY TargetIsKey
<1> QED
  BY <1>1 DEF Learn, TypeOK

\* Abandoned requests are requests.
LEMMA AbandonType ==
    ASSUME TypeOK, NEW S \in SUBSET Session, Abandon(S)
    PROVE  late' \subseteq Request /\ doubt' \subseteq Key
<1>1. ASSUME NEW s \in S, rpc[s].at \in Changing
      PROVE  RequestOf(s) \in Request
  <2>1. rpc[s] \in Call /\ Target(s) \in Key
    BY <1>1, BusyIsCall, TargetIsKey DEF Changing
  <2> QED
    BY <1>1, <2>1 DEF RequestOf, Request, Call
<1>2. PICK R \in SUBSET {RequestOf(s) : s \in {t \in S : rpc[t].at \in Changing}} :
          /\ late' = late \cup R
          /\ doubt' = doubt \cup {r.key : r \in {q \in R : q.at \in {"write", "delete"}}}
  BY DEF Abandon
<1>3. R \subseteq Request
  BY <1>1, <1>2
<1>4. \A r \in R : r.key \in Key
  BY <1>3 DEF Request
<1> QED
  BY <1>2, <1>3, <1>4 DEF TypeOK

\* Writing or dropping a record keeps the bucket's types.
LEMMA RecordType ==
    ASSUME TypeOK, NEW k \in Key, NEW id \in Id \cup {None}, NEW st \in Status \cup {Garbage},
           PutRecord(k, id, st) \/ DropRecord(k)
    PROVE  records' \in [Key -> Object \cup {NoObject}] /\ gen' \in Nat
<1>1. [gen |-> gen + 1, resource_id |-> id, status |-> st] \in Object
  BY DEF TypeOK, Object
<1> QED
  BY <1>1 DEF TypeOK, PutRecord, DropRecord

\* What a save carries is a status: requests in flight are well formed.
SaveArgs ==
    /\ \A s \in Session : rpc[s].at = "write" => rpc[s].arg \in Status
    /\ \A r \in late : r.at = "write" => r.arg \in Status

\* The step an RPC is at belongs to its operation.
StepOfOp == \A s \in Session : rpc[s].at = "remove" => rpc[s].op = "Unlock"

TypeInv == TypeOK /\ SaveArgs /\ StepOfOp

\* TypeInv holds of the initial states.
LEMMA InitType == Init => TypeInv
<1> SUFFICES ASSUME Init PROVE TypeInv
  OBVIOUS
<1>1. Idle \in Reply
  BY DEF Idle, Reply, Outcome
<1>2. [gen |-> 1, resource_id |-> None, status |-> Garbage] \in Object
  BY DEF Object
<1>3. TypeOK
  BY <1>1, <1>2 DEF Init, TypeOK
<1> QED
  BY <1>3 DEF Init, TypeInv, SaveArgs, StepOfOp, Idle

\* A new call keeps TypeInv.
LEMMA InvokeType ==
    ASSUME TypeInv, NEW s \in Session, NEW op \in Ops, NEW id \in Id, NEW arg \in Args(op),
           Invoke(s, op, id, arg)
    PROVE  TypeInv'
<1> DEFINE call == [op |-> op, at |-> FirstStep[op], id |-> id, arg |-> arg,
                    cfg |-> store[ProcessOf[s]].cfg, epoch |-> store[ProcessOf[s]].epoch,
                    since |-> 0, todo |-> {}, got |-> {}, out |-> "pending"]
<1>1. op \in AllOps
  BY GcsStateStoreAssumption DEF ConstantsOK
<1>2. FirstStep[op] \in Steps
  BY <1>1 DEF FirstStep, AllOps, Steps
<1>3. arg \in Status \cup Filter \cup {Garbage, None} /\ (op = "SaveState" => arg \in Status)
  BY <1>1 DEF Args, AllOps
<1>4. store[ProcessOf[s]] \in Stores
  BY GcsStateStoreAssumption DEF Invoke, TypeInv, TypeOK, ConstantsOK
<1>5. call \in Call
  BY <1>1, <1>2, <1>3, <1>4 DEF Call, Stores, Outcome
<1>6. rpc' = [rpc EXCEPT ![s] = call]
  BY DEF Invoke
<1>7. PICK k \in Key : k = KeyOf(store[ProcessOf[s]].cfg, id)
  BY <1>4, GcsStateStoreAssumption DEF KeyOf, Key, Stores, ConstantsOK
<1>8. held' \in [Session -> SUBSET Key] /\ view' \in [Session -> [Key -> SUBSET Nat]]
  <2>1. \/ held' = [held EXCEPT ![s] = @ \ {k}] /\ view' = [view EXCEPT ![s][k] = {}]
        \/ held' = held /\ view' = view
    BY <1>7, Zenon DEF Invoke, host
  <2>2. held \in [Session -> SUBSET Key] /\ view \in [Session -> [Key -> SUBSET Nat]]
    BY DEF TypeInv, TypeOK
  <2>3. CASE held' = [held EXCEPT ![s] = @ \ {k}] /\ view' = [view EXCEPT ![s][k] = {}]
    BY <2>2, <2>3
  <2> QED
    BY <2>1, <2>2, <2>3
<1>9. TypeOK'
  BY ZenonT(30), <1>5, <1>6, <1>8 DEF Invoke, TypeInv, TypeOK, plugin, bucket, fate
<1>10. call.at = "write" => op = "SaveState"
  BY <1>1 DEF FirstStep, AllOps
<1>11. call.at = "remove" => op = "Unlock"
  BY <1>1 DEF FirstStep, AllOps
<1>12. SaveArgs'
  <2>1. rpc'[s].at = "write" => rpc'[s].arg \in Status
    BY <1>3, <1>6, <1>10 DEF TypeInv, TypeOK
  <2>2. \A t \in Session \ {s} : rpc'[t] = rpc[t]
    BY <1>6 DEF TypeInv, TypeOK
  <2> QED
    BY <2>1, <2>2 DEF TypeInv, SaveArgs, Invoke, fate
<1>13. StepOfOp'
  <2>1. rpc'[s].at = "remove" => rpc'[s].op = "Unlock"
    BY <1>6, <1>11 DEF TypeInv, TypeOK
  <2>2. \A t \in Session \ {s} : rpc'[t] = rpc[t]
    BY <1>6 DEF TypeInv, TypeOK
  <2> QED
    BY <2>1, <2>2 DEF TypeInv, StepOfOp
<1> QED
  BY <1>9, <1>12, <1>13 DEF TypeInv

\* A step of session s leaves the other sessions' RPCs alone.
Others(s) == \A t \in Session \ {s} : rpc'[t] = rpc[t]

\* What Answer does to the sessions' calls.
LEMMA AnswerFacts ==
    ASSUME TypeOK, NEW s \in Session, NEW out, Answer(s, out)
    PROVE  Others(s) /\ rpc'[s].at = "done"
BY DEF TypeOK, Answer, Others, Idle

\* What GoTo does to the sessions' calls.
LEMMA GoToFacts ==
    ASSUME TypeOK, NEW s \in Session, rpc[s].at # "done", NEW step, GoTo(s, step)
    PROVE  /\ Others(s) /\ rpc'[s].at = step /\ Target(s)' = Target(s)
           /\ rpc'[s].op = rpc[s].op /\ rpc'[s].arg = rpc[s].arg
<1>1. rpc[s] \in Call
  BY BusyIsCall
<1>2. rpc'[s] = [rpc[s] EXCEPT !.at = step]
  BY DEF GoTo, TypeOK
<1>3. /\ rpc'[s].at = step /\ rpc'[s].op = rpc[s].op /\ rpc'[s].arg = rpc[s].arg
      /\ rpc'[s].cfg = rpc[s].cfg /\ rpc'[s].id = rpc[s].id
  BY <1>1, <1>2 DEF Call
<1>4. Others(s)
  BY DEF GoTo, TypeOK, Others
<1> QED
  BY <1>3, <1>4 DEF Target, KeyOf

\* An RPC that moves on from its first call keeps what is said of first calls.
LEMMA MoveOn ==
    ASSUME TypeInv, NEW s \in Session, Others(s), rpc'[s].at \notin {"write", "remove"},
           late' \subseteq late
    PROVE  SaveArgs' /\ StepOfOp'
BY DEF TypeInv, Others, SaveArgs, StepOfOp

\* Every handler step keeps TypeInv.
LEMMA HandlerType ==
    ASSUME TypeInv, NEW s \in Session, Handler(s)
    PROVE  TypeInv'
<1> USE DEF Outcome, Steps
<1>0. TypeOK
  BY DEF TypeInv
<1>1. CASE GetAttrs(s)
  <2>1. rpc' \in [Session -> Call \cup Reply] /\ Others(s) /\ rpc'[s].at \notin {"write", "remove"}
    BY <1>0, <1>1, AnswerType, GoToType, AnswerFacts, GoToFacts DEF GetAttrs
  <2>2. view' \in [Session -> [Key -> SUBSET Nat]]
    BY <1>0, <1>1, LearnType DEF GetAttrs, TypeOK
  <2>3. TypeOK'
    BY <1>0, <1>1, <2>1, <2>2 DEF GetAttrs, TypeOK, plugin, bucket, fate
  <2> QED
    BY <1>1, <2>1, <2>3, MoveOn DEF TypeInv, GetAttrs, fate
<1>2. CASE GetRead(s)
  <2> DEFINE o == records[Target(s)]
  <2>1. o \in Object \cup {NoObject}
    BY <1>0, <1>2, TargetIsKey DEF GetRead, TypeOK
  <2>2. CASE o # NoObject /\ Decodes(o)
    <3>1. o \in Object /\ o.gen \in Nat
      BY <2>1, <2>2 DEF Object
    <3>2. AnswerWith(s, {o}) /\ Learn(s, o.gen)
      BY <1>2, <2>2 DEF GetRead
    <3>3. rpc' \in [Session -> Call \cup Reply] /\ view' \in [Session -> [Key -> SUBSET Nat]]
      BY <1>0, <1>2, <3>1, <3>2, AnswerWithType, LearnType DEF GetRead
    <3>4. Others(s) /\ rpc'[s].at = "done"
      BY <1>0, <1>2, <3>2, <3>3, BusyIsCall DEF GetRead, AnswerWith, TypeOK, Others, Call
    <3>5. TypeOK'
      BY <1>0, <1>2, <3>3 DEF GetRead, TypeOK, plugin, bucket, fate
    <3> QED
      BY <1>2, <3>4, <3>5, MoveOn DEF TypeInv, GetRead, fate
  <2>3. CASE ~(o # NoObject /\ Decodes(o))
    <3>1. Answer(s, "error") /\ UNCHANGED view
      BY <1>2, <2>3 DEF GetRead
    <3>2. rpc' \in [Session -> Call \cup Reply] /\ Others(s) /\ rpc'[s].at = "done"
      BY <1>0, <3>1, AnswerType, AnswerFacts
    <3>3. TypeOK'
      BY <1>0, <1>2, <3>1, <3>2 DEF GetRead, TypeOK, plugin, bucket, fate
    <3> QED
      BY <1>2, <3>2, <3>3, MoveOn DEF TypeInv, GetRead, fate
  <2> QED
    BY <2>2, <2>3
<1>3. CASE SaveWrite(s)
  <2>1. rpc[s] \in Call /\ Target(s) \in Key /\ rpc[s].arg \in Status
    BY <1>0, <1>3, BusyIsCall, TargetIsKey DEF SaveWrite, TypeInv, SaveArgs
  <2>2. rpc' \in [Session -> Call \cup Reply] /\ Others(s) /\ rpc'[s].at = "confirm"
    BY <1>0, <1>3, GoToType, GoToFacts DEF SaveWrite
  <2>3. records' \in [Key -> Object \cup {NoObject}] /\ gen' \in Nat
    BY <1>0, <1>3, <2>1, RecordType DEF SaveWrite, Call
  <2>4. gen + 1 \in Nat
    BY <1>0 DEF TypeOK
  <2>5. view' \in [Session -> [Key -> SUBSET Nat]]
    BY <1>0, <1>3, <2>4, LearnType DEF SaveWrite
  <2>6. TypeOK'
    BY <1>0, <1>3, <2>2, <2>3, <2>5 DEF SaveWrite, TypeOK, plugin, fate
  <2> QED
    BY <1>3, <2>2, <2>6, MoveOn DEF TypeInv, SaveWrite, fate
<1>4. CASE SaveConfirm(s)
  <2>1. rpc' \in [Session -> Call \cup Reply] /\ Others(s) /\ rpc'[s].at = "done"
    BY <1>0, <1>4, AnswerType, AnswerFacts DEF SaveConfirm
  <2>2. TypeOK'
    BY <1>0, <1>4, <2>1 DEF SaveConfirm, TypeOK, plugin, bucket, host, fate
  <2> QED
    BY <1>4, <2>1, <2>2, MoveOn DEF TypeInv, SaveConfirm, fate
<1>5. CASE DeleteRecord(s)
  <2>1. rpc' \in [Session -> Call \cup Reply] /\ Others(s) /\ rpc'[s].at = "done"
    BY <1>0, <1>5, AnswerType, AnswerFacts DEF DeleteRecord
  <2>2. records' \in [Key -> Object \cup {NoObject}] /\ gen' \in Nat
    BY <1>0, <1>5 DEF DeleteRecord, DropRecord, TypeOK
  <2>3. view' \in [Session -> [Key -> SUBSET Nat]]
    BY <1>0, <1>5, LearnType DEF DeleteRecord
  <2>4. TypeOK'
    BY <1>0, <1>5, <2>1, <2>2, <2>3 DEF DeleteRecord, TypeOK, plugin, fate
  <2> QED
    BY <1>5, <2>1, <2>4, MoveOn DEF TypeInv, DeleteRecord, fate
<1>6. CASE ListKeys(s)
  <2> DEFINE keys == {k \in Key : k[1] = rpc[s].cfg /\ records[k] # NoObject}
             call == [rpc[s] EXCEPT !.at = "each", !.since = gen, !.todo = keys]
  <2>1. rpc[s] \in Call
    BY <1>0, <1>6, BusyIsCall DEF ListKeys
  <2>2. call \in Call /\ call.at = "each"
    BY <1>0, <2>1 DEF Call, TypeOK
  <2>3. rpc' = [rpc EXCEPT ![s] = call]
    BY <1>0, <1>6 DEF ListKeys, TypeOK
  <2>4. rpc' \in [Session -> Call \cup Reply] /\ Others(s) /\ rpc'[s].at = "each"
    BY <1>0, <2>2, <2>3 DEF TypeOK, Others
  <2>5. TypeOK'
    BY <1>0, <1>6, <2>4 DEF ListKeys, TypeOK, plugin, bucket, host, fate
  <2> QED
    BY <1>6, <2>4, <2>5, MoveOn DEF TypeInv, ListKeys, fate
<1>7. CASE ListRead(s)
  <2>1. rpc[s] \in Call
    BY <1>0, <1>7, BusyIsCall DEF ListRead
  <2>2. PICK k \in rpc[s].todo :
          LET o == records[k] IN
          rpc' = [rpc EXCEPT ![s].todo = @ \ {k},
                             ![s].got = IF o # NoObject /\ Decodes(o) /\ MatchesFilter(o, rpc[s].arg)
                                        THEN @ \cup {o} ELSE @]
    BY <1>7 DEF ListRead
  <2>3. k \in Key /\ records[k] \in Object \cup {NoObject}
    BY <1>0, <2>1, <2>2 DEF TypeOK, Call
  <2>4. PICK got \in SUBSET Object : rpc' = [rpc EXCEPT ![s].todo = @ \ {k}, ![s].got = got]
    BY <2>1, <2>2, <2>3 DEF Call
  <2> DEFINE call == [rpc[s] EXCEPT !.todo = @ \ {k}, !.got = got]
  <2>5. call \in Call /\ call.at = "each"
    BY <1>7, <2>1 DEF Call, ListRead
  <2>6. rpc' = [rpc EXCEPT ![s] = call]
    BY <1>0, <2>4 DEF TypeOK
  <2>7. rpc' \in [Session -> Call \cup Reply] /\ Others(s) /\ rpc'[s].at = "each"
    BY <1>0, <2>5, <2>6 DEF TypeOK, Others
  <2>8. TypeOK'
    BY <1>0, <1>7, <2>7 DEF ListRead, TypeOK, plugin, bucket, host, fate
  <2> QED
    BY <1>7, <2>7, <2>8, MoveOn DEF TypeInv, ListRead, fate
<1>8. CASE ListAnswer(s)
  <2>1. rpc[s] \in Call
    BY <1>0, <1>8, BusyIsCall DEF ListAnswer
  <2>2. rpc' \in [Session -> Call \cup Reply]
    BY <1>0, <1>8, <2>1, AnswerWithType DEF ListAnswer, Call
  <2>3. Others(s) /\ rpc'[s].at = "done"
    BY <1>0, <1>8, <2>1 DEF ListAnswer, AnswerWith, TypeOK, Others, Call
  <2>4. TypeOK'
    BY <1>0, <1>8, <2>2 DEF ListAnswer, TypeOK, plugin, bucket, host, fate
  <2> QED
    BY <1>8, <2>3, <2>4, MoveOn DEF TypeInv, ListAnswer, fate
<1>9. CASE LockCreate(s)
  <2>1. Target(s) \in Key
    BY <1>0, <1>9, TargetIsKey DEF LockCreate
  <2>2. /\ rpc' \in [Session -> Call \cup Reply] /\ Others(s)
        /\ rpc'[s].at \notin {"write", "remove"}
    BY <1>0, <1>9, AnswerType, GoToType, AnswerFacts, GoToFacts DEF LockCreate
  <2>3. locks' \in [Key -> Session \cup {None}]
    BY <1>0, <1>9, <2>1 DEF LockCreate, TypeOK
  <2>4. TypeOK'
    BY <1>0, <1>9, <2>2, <2>3 DEF LockCreate, TypeOK, plugin, host, fate
  <2> QED
    BY <1>9, <2>2, <2>4, MoveOn DEF TypeInv, LockCreate, fate
<1>10. CASE LockCreated(s)
  <2>1. /\ rpc' \in [Session -> Call \cup Reply] /\ Others(s)
        /\ rpc'[s].at \notin {"write", "remove"}
    BY <1>0, <1>10, AnswerType, GoToType, AnswerFacts, GoToFacts DEF LockCreated
  <2>2. TypeOK'
    BY <1>0, <1>10, <2>1 DEF LockCreated, TypeOK, plugin, bucket, host, fate
  <2> QED
    BY <1>10, <2>1, <2>2, MoveOn DEF TypeInv, LockCreated, fate
<1>11. CASE LockGranted(s)
  <2>1. Target(s) \in Key
    BY <1>0, <1>11, TargetIsKey DEF LockGranted
  <2>2. /\ rpc' \in [Session -> Call \cup Reply] /\ Others(s) /\ rpc'[s].at = "done"
    BY <1>0, <1>11, AnswerType, AnswerFacts DEF LockGranted
  <2>3. held' \in [Session -> SUBSET Key] /\ view' \in [Session -> [Key -> SUBSET Nat]]
    BY <1>0, <1>11, <2>1 DEF LockGranted, TypeOK
  <2>4. TypeOK'
    BY <1>0, <1>11, <2>2, <2>3 DEF LockGranted, TypeOK, plugin, bucket, fate
  <2> QED
    BY <1>11, <2>2, <2>4, MoveOn DEF TypeInv, LockGranted, fate
<1>12. CASE UnlockRemove(s)
  <2>1. /\ rpc' \in [Session -> Call \cup Reply] /\ Others(s)
        /\ rpc'[s].at \notin {"write", "remove"}
    BY <1>0, <1>12, AnswerType, GoToType, AnswerFacts, GoToFacts DEF UnlockRemove
  <2>2. locks' \in [Key -> Session \cup {None}]
    BY <1>0, <1>12 DEF UnlockRemove, TypeOK
  <2>3. TypeOK'
    BY <1>0, <1>12, <2>1, <2>2 DEF UnlockRemove, TypeOK, plugin, host, fate
  <2> QED
    BY <1>12, <2>1, <2>3, MoveOn DEF TypeInv, UnlockRemove, fate
<1>13. CASE UnlockDone(s)
  <2>1. /\ rpc' \in [Session -> Call \cup Reply] /\ Others(s) /\ rpc'[s].at = "done"
    BY <1>0, <1>13, AnswerType, AnswerFacts DEF UnlockDone
  <2>2. TypeOK'
    BY <1>0, <1>13, <2>1 DEF UnlockDone, TypeOK, plugin, bucket, host, fate
  <2> QED
    BY <1>13, <2>1, <2>2, MoveOn DEF TypeInv, UnlockDone, fate
<1> QED
  BY <1>1, <1>2, <1>3, <1>4, <1>5, <1>6, <1>7, <1>8, <1>9, <1>10, <1>11, <1>12, <1>13 DEF Handler

\* The early returns keep TypeInv.
LEMMA AnswerAtOnceType ==
    ASSUME TypeInv, NEW s \in Session,
           (\E op \in Ops : Unconfigured(s, op)) \/ (\E id, st : Rejected(s, id, st))
    PROVE  TypeInv'
<1>1. PICK call \in Reply : rpc' = [rpc EXCEPT ![s] = call]
  <2>1. CASE \E op \in Ops : Unconfigured(s, op)
    <3>1. PICK op \in Ops : Unconfigured(s, op)
      BY <2>1
    <3>2. [Idle EXCEPT !.op = op, !.out = "unconfigured"] \in Reply
      BY GcsStateStoreAssumption DEF ConstantsOK, Idle, Reply, Outcome
    <3> QED
      BY <3>1, <3>2 DEF Unconfigured
  <2>2. CASE \E id, st : Rejected(s, id, st)
    <3>1. [Idle EXCEPT !.op = "SaveState", !.out = "error"] \in Reply
      BY DEF Idle, Reply, Outcome, AllOps
    <3> QED
      BY <2>2, <3>1 DEF Rejected
  <2> QED
    BY <2>1, <2>2
<1>2. UNCHANGED <<plugin, bucket, host, fate>>
  BY DEF Unconfigured, Rejected
<1>3. /\ rpc' \in [Session -> Call \cup Reply] /\ Others(s) /\ rpc'[s].at = "done"
  BY <1>1 DEF TypeInv, TypeOK, Others, Reply
<1>4. TypeOK'
  BY <1>2, <1>3 DEF TypeInv, TypeOK, plugin, bucket, host, fate
<1> QED
  BY <1>2, <1>3, <1>4, MoveOn DEF TypeInv, fate

\* Replacing the store keeps TypeInv.
LEMMA ConfigureType ==
    ASSUME TypeInv, NEW p \in Process, NEW c \in Delivers[p], Configure(p, c)
    PROVE  TypeInv'
<1>1. [epoch |-> epoch + 1, cfg |-> c] \in Stores
  BY GcsStateStoreAssumption DEF ConstantsOK, Stores, TypeInv, TypeOK
<1>2. TypeOK'
  BY <1>1 DEF Configure, TypeInv, TypeOK, bucket, host, fate
<1> QED
  BY <1>2 DEF Configure, TypeInv, SaveArgs, StepOfOp, fate

\* An abandoned request is that of an RPC that was under way.
LEMMA AbandonedRequests ==
    ASSUME TypeInv, NEW S \in SUBSET Session, Abandon(S)
    PROVE  \A r \in late' \ late :
              \E s \in S : r = RequestOf(s) /\ rpc[s].at \in Changing
BY DEF Abandon

\* A write whose request outlives its handler carries a status.
LEMMA AbandonArgs ==
    ASSUME TypeInv, NEW S \in SUBSET Session, Abandon(S)
    PROVE  \A r \in late' : r.at = "write" => r.arg \in Status
<1>1. \A r \in late' \ late : r.at = "write" => r.arg \in Status
  BY AbandonedRequests DEF RequestOf, TypeInv, SaveArgs
<1> QED
  BY <1>1 DEF TypeInv, SaveArgs

\* A failed client call keeps TypeInv.
LEMMA FailType ==
    ASSUME TypeInv, NEW s \in Session, NEW kind, Fail(s, kind)
    PROVE  TypeInv'
<1>0. TypeOK /\ rpc[s] \in Call
  BY BusyIsCall DEF Fail, Busy, TypeInv
<1>1. late' \subseteq Request /\ doubt' \subseteq Key
  BY <1>0, AbandonType DEF Fail
<1>2. PICK call \in Call : /\ rpc' = [rpc EXCEPT ![s] = call]
                           /\ call.at \in {"done", "each"}
  <2>1. CASE \E k \in rpc[s].todo : rpc' = [rpc EXCEPT ![s].todo = @ \ {k}] /\ rpc[s].at = "each"
    <3>1. PICK k : rpc' = [rpc EXCEPT ![s].todo = @ \ {k}] /\ rpc[s].at = "each"
      BY <2>1
    <3>2. [rpc[s] EXCEPT !.todo = @ \ {k}] \in Call /\ [rpc[s] EXCEPT !.todo = @ \ {k}].at = "each"
      BY <1>0, <3>1 DEF Call
    <3>3. rpc' = [rpc EXCEPT ![s] = [rpc[s] EXCEPT !.todo = @ \ {k}]]
      BY <1>0, <3>1 DEF TypeOK
    <3> QED
      BY <3>2, <3>3
  <2>2. CASE \E out \in {"already_locked", "error"} : rpc' = [rpc EXCEPT ![s] = Failed(@, out)]
    <3>1. PICK out \in {"already_locked", "error"} : rpc' = [rpc EXCEPT ![s] = Failed(@, out)]
      BY <2>2
    <3>2. Failed(rpc[s], out) \in Call /\ Failed(rpc[s], out).at = "done"
      BY <1>0 DEF Failed, Call, Steps, Outcome
    <3>3. rpc' = [rpc EXCEPT ![s] = Failed(rpc[s], out)]
      BY <1>0, <3>1 DEF TypeOK
    <3> QED
      BY <3>2, <3>3
  <2> QED
    BY <2>1, <2>2 DEF Fail
<1>3. rpc' \in [Session -> Call \cup Reply] /\ Others(s) /\ rpc'[s].at \in {"done", "each"}
  BY <1>0, <1>2 DEF TypeOK, Others
<1>4. TypeOK'
  BY <1>0, <1>1, <1>3 DEF Fail, TypeOK, plugin, bucket, host
<1>5. SaveArgs'
  BY <1>3, AbandonArgs DEF Fail, TypeInv, SaveArgs, Others
<1>6. StepOfOp'
  BY <1>3 DEF TypeInv, StepOfOp, Others
<1> QED
  BY <1>4, <1>5, <1>6 DEF TypeInv

\* A request that takes effect late keeps TypeInv.
LEMMA LandType ==
    ASSUME TypeInv, NEW r \in late, Land(r)
    PROVE  TypeInv'
<1>0. TypeOK /\ r \in Request
  BY DEF TypeInv, TypeOK
<1>1. r.key \in Key /\ r.by \in Session /\ r.id \in Id /\ r.at \in Changing
  BY <1>0 DEF Request
<1>2. records' \in [Key -> Object \cup {NoObject}] /\ gen' \in Nat
  <2>1. CASE r.at = "write"
    <3>1. r.arg \in Status /\ PutRecord(r.key, r.id, r.arg)
      BY <2>1 DEF Land, TypeInv, SaveArgs
    <3> QED
      BY <1>0, <1>1, <3>1, RecordType
  <2>2. CASE r.at # "write"
    BY <1>0, <1>1, <2>2 DEF Land, DropRecord, TypeOK
  <2> QED
    BY <2>1, <2>2
<1>3. locks' \in [Key -> Session \cup {None}]
  BY <1>0, <1>1 DEF Land, TypeOK
<1>4. TypeOK'
  BY <1>0, <1>2, <1>3 DEF Land, TypeOK, plugin, host
<1> QED
  BY <1>4 DEF Land, TypeInv, SaveArgs, StepOfOp

\* The death of a process keeps TypeInv.
LEMMA DieType ==
    ASSUME TypeInv, NEW p \in Process, Die(p)
    PROVE  TypeInv'
<1> DEFINE S == {s \in Session : ProcessOf[s] = p /\ Busy(s)}
<1>0. TypeOK /\ Abandon(S)
  BY DEF Die, TypeInv
<1>1. late' \subseteq Request /\ doubt' \subseteq Key
  BY <1>0, AbandonType
<1>2. "error" \in Outcome
  BY DEF Outcome
<1>3. rpc' \in [Session -> Call \cup Reply]
  BY <1>0, <1>2, FailedType DEF Die, TypeOK
<1>4. \A s \in Session : rpc'[s] = rpc[s] \/ rpc'[s].at = "done"
  <2> SUFFICES ASSUME NEW s \in Session, s \in S PROVE rpc'[s].at = "done"
    BY DEF Die
  <2>1. rpc[s] \in Call
    BY <1>0, BusyIsCall DEF Busy
  <2> QED
    BY <2>1 DEF Die, Failed, Call
<1>5. TypeOK'
  BY <1>0, <1>1, <1>3 DEF Die, TypeOK, bucket, host
<1>6. SaveArgs'
  BY <1>0, <1>4, AbandonArgs DEF TypeInv, SaveArgs
<1>7. StepOfOp'
  BY <1>4 DEF TypeInv, StepOfOp
<1> QED
  BY <1>5, <1>6, <1>7 DEF TypeInv

\* The death of a session keeps TypeInv.
LEMMA SessionDiesType ==
    ASSUME TypeInv, NEW s \in Session, SessionDies(s)
    PROVE  TypeInv'
<1>0. TypeOK /\ Abandon({s})
  BY DEF SessionDies, TypeInv
<1>1. late' \subseteq Request /\ doubt' \subseteq Key
  BY <1>0, AbandonType
<1>2. Idle \in Reply
  BY DEF Idle, Reply, Outcome
<1>3. rpc' \in [Session -> Call \cup Reply] /\ Others(s) /\ rpc'[s].at = "done"
  BY <1>0, <1>2 DEF SessionDies, TypeOK, Others, Idle
<1>4. TypeOK'
  BY <1>0, <1>1, <1>3 DEF SessionDies, TypeOK, plugin, bucket
<1>5. SaveArgs'
  BY <1>0, <1>3, AbandonArgs DEF TypeInv, SaveArgs, Others
<1>6. StepOfOp'
  BY <1>3 DEF TypeInv, StepOfOp, Others
<1> QED
  BY <1>4, <1>5, <1>6 DEF TypeInv

\* Every variable keeps its type under every step of the store, the hosts and the bucket.
THEOREM TypeCorrect == Spec => []TypeInv
<1>1. Init => TypeInv
  BY InitType
<1>2. TypeInv /\ [Next]_vars => TypeInv'
  <2> SUFFICES ASSUME TypeInv, [Next]_vars PROVE TypeInv'
    OBVIOUS
  <2>1. CASE UNCHANGED vars
    BY <2>1 DEF TypeInv, TypeOK, SaveArgs, StepOfOp, vars
  <2>2. ASSUME NEW s \in Session, Calls(s) PROVE TypeInv'
    BY <2>2, InvokeType, AnswerAtOnceType DEF Calls
  <2>3. ASSUME NEW s \in Session, Handler(s) PROVE TypeInv'
    BY <2>3, HandlerType
  <2>4. ASSUME NEW s \in Session, SessionDies(s) PROVE TypeInv'
    BY <2>4, SessionDiesType
  <2>5. ASSUME NEW s \in Session, NEW kind \in Faults, Fail(s, kind) PROVE TypeInv'
    BY <2>5, FailType
  <2>6. ASSUME NEW r \in late, Land(r) PROVE TypeInv'
    BY <2>6, LandType
  <2>7. ASSUME NEW p \in Process, ProcessDies(p) \/ MapRace(p) PROVE TypeInv'
    BY <2>7, DieType DEF ProcessDies, MapRace
  <2>8. ASSUME NEW p \in Process, NEW c \in Delivers[p], Configure(p, c) PROVE TypeInv'
    BY <2>8, ConfigureType
  <2> QED
    BY <2>1, <2>2, <2>3, <2>4, <2>5, <2>6, <2>7, <2>8 DEF Next
<1> QED
  BY <1>1, <1>2, PTL DEF Spec

\* The type invariant of the module, as the runs check it.
THEOREM TypesHold == Spec => []TypeOK
<1>1. TypeInv => TypeOK
  BY DEF TypeInv
<1> QED
  BY <1>1, TypeCorrect, PTL

-----------------------------------------------------------------------------
(* The lock excludes, under disciplined callers *)

\* Callers unlock what they hold, once, and write only under the lock.
DisciplinedHosts == Disciplined /\ ~RetryUnlock

\* Others(s) keeps what is said of the other sessions' claims.
LEMMA OthersClaims ==
    ASSUME NEW s \in Session, Others(s), NEW t \in Session \ {s}
    PROVE  /\ Claiming(t)' <=> Claiming(t)
           /\ Target(t)' = Target(t)
BY DEF Others, Claiming, Acquiring, Releasing, Target, KeyOf

\* A session acquires or releases only while its call is under way.
LEMMA ClaimIsBusy ==
    ASSUME TypeOK, NEW s \in Session, Claiming(s)
    PROVE  rpc[s].at # "done" /\ Target(s) \in Key
BY TargetIsKey DEF Claiming, Acquiring, Releasing

\* A step of s that claims nothing afterwards and leaves locks and requests alone.
LEMMA NoClaimStep ==
    ASSUME TypeInv, LockInv, NEW s \in Session, Others(s), ~Claiming(s)',
           UNCHANGED <<locks, held, late>>
    PROVE  LockInv'
<1>1. HeldLockStands'
  BY DEF LockInv, HeldLockStands
<1>2. ClaimsStand'
  BY OthersClaims DEF LockInv, ClaimsStand
<1>3. LateRemovals'
  <2> SUFFICES ASSUME NEW r \in late, r.at = "remove"
               PROVE  /\ locks[r.key] = r.by /\ r.key \notin held[r.by]
                      /\ ~(Claiming(r.by)' /\ Target(r.by)' = r.key)
    BY DEF LateRemovals
  <2>1. r.by \in Session
    BY DEF TypeInv, TypeOK, Request
  <2>2. CASE r.by = s
    BY <2>2 DEF LockInv, LateRemovals
  <2>3. CASE r.by # s
    BY <2>1, <2>3, OthersClaims DEF LockInv, LateRemovals
  <2> QED
    BY <2>2, <2>3
<1>4. OneLateRemoval'
  BY DEF LockInv, OneLateRemoval
<1> QED
  BY <1>1, <1>2, <1>3, <1>4 DEF LockInv

\* A new call keeps LockInv: only an Unlock of a held lock becomes a claim.
LEMMA InvokeLock ==
    ASSUME DisciplinedHosts, TypeInv, LockInv, NEW s \in Session, NEW op \in Ops, NEW id \in Id,
           NEW arg, Invoke(s, op, id, arg)
    PROVE  LockInv'
<1> DEFINE key == KeyOf(store[ProcessOf[s]].cfg, id)
<1>1. op \in AllOps /\ rpc[s].at = "done"
  BY GcsStateStoreAssumption DEF ConstantsOK, Invoke, Busy
<1>2. /\ Others(s) /\ rpc'[s].at = FirstStep[op] /\ rpc'[s].op = op /\ Target(s)' = key
  BY DEF Invoke, TypeInv, TypeOK, Others, Target, KeyOf
<1>3. UNCHANGED <<locks, late>>
  BY DEF Invoke, bucket, fate
<1>4. CASE op # "Unlock"
  <2>1. ~Claiming(s)'
    BY <1>1, <1>2, <1>4 DEF FirstStep, AllOps, Claiming, Acquiring, Releasing
  <2>2. UNCHANGED held
    BY <1>4 DEF Invoke, host
  <2> QED
    BY <1>2, <1>3, <2>1, <2>2, NoClaimStep
<1>5. CASE op = "Unlock"
  <2>1. key \in held[s] /\ locks[key] = s
    BY <1>5 DEF Invoke, MayCall, DisciplinedHosts, LockInv, HeldLockStands
  <2>2. held' = [held EXCEPT ![s] = @ \ {key}]
    BY <1>5 DEF Invoke
  <2>3. /\ held'[s] = held[s] \ {key}
        /\ \A t \in Session \ {s} : held'[t] = held[t]
    BY <2>2 DEF TypeInv, TypeOK
  <2> HIDE DEF key
  <2>4. HeldLockStands'
    BY <1>3, <2>3 DEF LockInv, HeldLockStands
  <2>5. ClaimsStand'
    BY <1>2, <1>3, <2>1, <2>3, OthersClaims DEF LockInv, ClaimsStand
  <2>6. LateRemovals'
    <3> SUFFICES ASSUME NEW r \in late, r.at = "remove"
                 PROVE  /\ locks[r.key] = r.by /\ r.key \notin held'[r.by]
                        /\ ~(Claiming(r.by)' /\ Target(r.by)' = r.key)
      BY <1>3 DEF LateRemovals
    <3>1. r.by \in Session
      BY DEF TypeInv, TypeOK, Request
    <3>2. locks[r.key] = r.by /\ r.key \notin held[r.by]
      BY DEF LockInv, LateRemovals
    <3>3. CASE r.by = s
      BY <1>2, <2>1, <2>3, <3>2, <3>3
    <3>4. CASE r.by # s
      BY <1>2, <2>3, <3>1, <3>2, <3>4, OthersClaims DEF LockInv, LateRemovals
    <3> QED
      BY <3>3, <3>4
  <2>7. OneLateRemoval'
    BY <1>3 DEF LockInv, OneLateRemoval
  <2> QED
    BY <2>4, <2>5, <2>6, <2>7 DEF LockInv
<1> QED
  BY <1>4, <1>5

\* Creating a lock object keeps LockInv: it makes one claim, of a key nobody had.
LEMMA LockCreateLock ==
    ASSUME TypeInv, LockInv, NEW s \in Session, LockCreate(s)
    PROVE  LockInv'
<1>0. TypeOK /\ Target(s) \in Key /\ rpc[s].at = "create"
  BY TargetIsKey DEF TypeInv, LockCreate
<1>1. CASE locks[Target(s)] # None
  <2>1. Others(s) /\ rpc'[s].at = "done" /\ UNCHANGED <<locks, held, late>>
    BY <1>0, <1>1, AnswerFacts DEF LockCreate, host, fate
  <2> QED
    BY <2>1, NoClaimStep DEF Claiming, Acquiring, Releasing
<1>2. CASE locks[Target(s)] = None
  <2> DEFINE k == Target(s)
  <2>1. /\ Others(s) /\ rpc'[s].at = "created" /\ Target(s)' = k
        /\ UNCHANGED <<held, late>>
    BY <1>0, <1>2, GoToFacts DEF LockCreate, host, fate
  <2>2. locks' = [locks EXCEPT ![k] = s]
    BY <1>2 DEF LockCreate
  <2>3. locks'[k] = s /\ \A q \in Key \ {k} : locks'[q] = locks[q]
    BY <1>0, <2>2 DEF TypeOK
  <2>4. \A t \in Session : k \notin held[t]
    BY <1>2, GcsStateStoreAssumption DEF ConstantsOK, LockInv, HeldLockStands
  <2>5. \A t \in Session : Claiming(t) => Target(t) # k
    BY <1>2, GcsStateStoreAssumption DEF ConstantsOK, LockInv, ClaimsStand
  <2>6. \A r \in late : r.at = "remove" => r.key # k /\ r.key \in Key /\ r.by \in Session
    BY <1>0, <1>2, GcsStateStoreAssumption DEF ConstantsOK, LockInv, LateRemovals, TypeOK, Request
  <2> HIDE DEF k
  <2>7. HeldLockStands'
    BY <1>0, <2>1, <2>3, <2>4 DEF LockInv, HeldLockStands, TypeOK
  <2>8. ClaimsStand'
    <3>1. ASSUME NEW t \in Session \ {s}, Claiming(t)'
          PROVE  locks'[Target(t)'] = t /\ Target(t)' \notin held'[t]
      <4>1. Claiming(t) /\ Target(t)' = Target(t)
        BY <2>1, <3>1, OthersClaims
      <4>2. Target(t) \in Key \ {k}
        BY <1>0, <2>5, <4>1, ClaimIsBusy
      <4> QED
        BY <2>1, <2>3, <4>1, <4>2 DEF LockInv, ClaimsStand
    <3>2. locks'[Target(s)'] = s /\ Target(s)' \notin held'[s]
      BY <2>1, <2>3, <2>4
    <3> QED
      BY <3>1, <3>2 DEF ClaimsStand
  <2>9. LateRemovals'
    <3> SUFFICES ASSUME NEW r \in late, r.at = "remove"
                 PROVE  /\ locks'[r.key] = r.by /\ r.key \notin held'[r.by]
                        /\ ~(Claiming(r.by)' /\ Target(r.by)' = r.key)
      BY <2>1 DEF LateRemovals
    <3>1. r.by \in Session /\ r.key \in Key \ {k}
      BY <2>6
    <3>2. locks'[r.key] = r.by /\ r.key \notin held'[r.by]
      BY <2>1, <2>3, <3>1 DEF LockInv, LateRemovals
    <3>3. CASE r.by = s
      BY <2>1, <3>1, <3>2, <3>3
    <3>4. CASE r.by # s
      BY <2>1, <3>1, <3>2, <3>4, OthersClaims DEF LockInv, LateRemovals
    <3> QED
      BY <3>3, <3>4
  <2>10. OneLateRemoval'
    BY <2>1 DEF LockInv, OneLateRemoval
  <2> QED
    BY <2>7, <2>8, <2>9, <2>10 DEF LockInv
<1> QED
  BY <1>1, <1>2

\* A step of s that moves on with what it claims.
LEMMA SameClaimStep ==
    ASSUME TypeInv, LockInv, NEW s \in Session, Others(s), Target(s)' = Target(s),
           Claiming(s)' => Claiming(s), UNCHANGED <<locks, held, late>>
    PROVE  LockInv'
<1>1. \A t \in Session : (Claiming(t)' => Claiming(t)) /\ Target(t)' = Target(t)
  BY OthersClaims
<1>2. \A r \in late : r.by \in Session
  BY DEF TypeInv, TypeOK, Request
<1> QED
  BY <1>1, <1>2 DEF LockInv, HeldLockStands, ClaimsStand, LateRemovals, OneLateRemoval

\* Reading the new lock object back keeps LockInv.
LEMMA LockCreatedLock ==
    ASSUME TypeInv, LockInv, NEW s \in Session, LockCreated(s)
    PROVE  LockInv'
<1>0. TypeOK /\ rpc[s].at = "created" /\ UNCHANGED <<locks, held, late>>
  BY DEF TypeInv, LockCreated, bucket, host, fate
<1>1. CASE Answer(s, "error")
  BY <1>0, <1>1, AnswerFacts, NoClaimStep DEF Claiming, Acquiring, Releasing
<1>2. CASE GoTo(s, "map")
  BY <1>0, <1>2, GoToFacts, SameClaimStep DEF Claiming, Acquiring
<1> QED
  BY <1>1, <1>2 DEF LockCreated

\* Granting a lock keeps LockInv: a claim becomes a held lock.
LEMMA LockGrantedLock ==
    ASSUME TypeInv, LockInv, NEW s \in Session, LockGranted(s)
    PROVE  LockInv'
<1> DEFINE k == Target(s)
<1>0. TypeOK /\ Claiming(s) /\ k \in Key /\ UNCHANGED <<locks, late>>
  BY TargetIsKey DEF TypeInv, LockGranted, Claiming, Acquiring, bucket, fate
<1>1. Others(s) /\ ~Claiming(s)'
  BY <1>0, AnswerFacts DEF LockGranted, Claiming, Acquiring, Releasing
<1>2. /\ held'[s] = held[s] \cup {k}
      /\ \A t \in Session \ {s} : held'[t] = held[t]
  BY <1>0 DEF LockGranted, TypeOK
<1>3. locks[k] = s
  BY <1>0 DEF LockInv, ClaimsStand
<1>4. \A r \in late : r.at = "remove" /\ r.by = s => r.key # k
  BY <1>0 DEF LockInv, LateRemovals
<1> HIDE DEF k
<1>5. HeldLockStands'
  BY <1>0, <1>2, <1>3 DEF LockInv, HeldLockStands
<1>6. ClaimsStand'
  BY <1>0, <1>1, <1>2, OthersClaims DEF LockInv, ClaimsStand
<1>7. LateRemovals'
  <2> SUFFICES ASSUME NEW r \in late, r.at = "remove"
               PROVE  /\ locks[r.key] = r.by /\ r.key \notin held'[r.by]
                      /\ ~(Claiming(r.by)' /\ Target(r.by)' = r.key)
    BY <1>0 DEF LateRemovals
  <2>1. r.by \in Session
    BY <1>0 DEF TypeOK, Request
  <2>2. CASE r.by = s
    BY <1>1, <1>2, <1>4, <2>2 DEF LockInv, LateRemovals
  <2>3. CASE r.by # s
    BY <1>2, <2>1, <2>3, <1>1, OthersClaims DEF LockInv, LateRemovals
  <2> QED
    BY <2>2, <2>3
<1>8. OneLateRemoval'
  BY <1>0 DEF LockInv, OneLateRemoval
<1> QED
  BY <1>5, <1>6, <1>7, <1>8 DEF LockInv

\* The lock object of key k goes away when nothing claims it any more.
LEMMA LockRemoved ==
    ASSUME TypeInv, LockInv, NEW k \in Key,
           locks' = [locks EXCEPT ![k] = None], UNCHANGED held, late' \subseteq late,
           \A t \in Session : (Claiming(t)' => Claiming(t)) /\ (Claiming(t)' => Target(t)' = Target(t)),
           \A t \in Session : k \notin held[t] /\ ~(Claiming(t)' /\ Target(t) = k),
           \A r \in late' : r.at = "remove" => r.key # k
    PROVE  LockInv'
<1>1. \A q \in Key \ {k} : locks'[q] = locks[q]
  BY DEF TypeInv, TypeOK
<1>2. HeldLockStands'
  BY <1>1 DEF TypeInv, TypeOK, LockInv, HeldLockStands
<1>3. ClaimsStand'
  <2> SUFFICES ASSUME NEW t \in Session, Claiming(t)'
               PROVE  locks'[Target(t)'] = t /\ Target(t)' \notin held'[t]
    BY DEF ClaimsStand
  <2>1. Claiming(t) /\ Target(t)' = Target(t) /\ Target(t) \in Key \ {k}
    BY ClaimIsBusy DEF TypeInv
  <2> QED
    BY <1>1, <2>1 DEF LockInv, ClaimsStand
<1>4. LateRemovals'
  <2> SUFFICES ASSUME NEW r \in late', r.at = "remove"
               PROVE  /\ locks'[r.key] = r.by /\ r.key \notin held'[r.by]
                      /\ ~(Claiming(r.by)' /\ Target(r.by)' = r.key)
    BY DEF LateRemovals
  <2>1. r \in late /\ r.by \in Session /\ r.key \in Key \ {k}
    BY DEF TypeInv, TypeOK, Request
  <2> QED
    BY <1>1, <2>1 DEF LockInv, LateRemovals
<1>5. OneLateRemoval'
  BY DEF LockInv, OneLateRemoval
<1> QED
  BY <1>2, <1>3, <1>4, <1>5 DEF LockInv

\* Removing a lock object keeps LockInv: it is the remover's own.
LEMMA UnlockRemoveLock ==
    ASSUME TypeInv, LockInv, NEW s \in Session, UnlockRemove(s)
    PROVE  LockInv'
<1> DEFINE k == Target(s)
<1>0. /\ TypeOK /\ Claiming(s) /\ k \in Key /\ rpc[s].op = "Unlock"
      /\ UNCHANGED <<held, late>> /\ locks' = [locks EXCEPT ![k] = None]
  BY TargetIsKey DEF TypeInv, StepOfOp, UnlockRemove, Claiming, Releasing, host, fate
<1>1. locks[k] = s /\ k \notin held[s]
  BY <1>0 DEF LockInv, ClaimsStand
<1>2. GoTo(s, "map")
  BY <1>1, GcsStateStoreAssumption DEF UnlockRemove, ConstantsOK
<1>3. Others(s) /\ ~Claiming(s)'
  BY <1>0, <1>2, GoToFacts DEF UnlockRemove, Claiming, Acquiring, Releasing
<1>4. \A t \in Session : k \notin held[t]
  BY <1>1 DEF LockInv, HeldLockStands
<1>5. \A t \in Session : Claiming(t)' => t # s /\ Claiming(t) /\ Target(t)' = Target(t)
  BY <1>3, OthersClaims
<1>6. \A t \in Session : ~(Claiming(t)' /\ Target(t) = k)
  BY <1>1, <1>5 DEF LockInv, ClaimsStand
<1>7. \A r \in late : r.at = "remove" => r.key # k
  BY <1>0, <1>1 DEF LockInv, LateRemovals
<1> HIDE DEF k
<1> QED
  BY <1>0, <1>4, <1>5, <1>6, <1>7, LockRemoved

\* The steps of the record RPCs and of listings keep LockInv.
LEMMA RecordStepLock ==
    ASSUME TypeInv, LockInv, NEW s \in Session,
           \/ GetAttrs(s) \/ GetRead(s) \/ SaveWrite(s) \/ SaveConfirm(s) \/ DeleteRecord(s)
           \/ ListKeys(s) \/ ListRead(s) \/ ListAnswer(s) \/ UnlockDone(s)
    PROVE  LockInv'
<1>0. TypeOK
  BY DEF TypeInv
<1>1. UNCHANGED <<locks, held, late>>
  BY DEF GetAttrs, GetRead, SaveWrite, SaveConfirm, DeleteRecord, ListKeys, ListRead, ListAnswer,
         UnlockDone, bucket, host, fate
<1>2. CASE \E out : Answer(s, out)
  BY <1>0, <1>1, <1>2, AnswerFacts, NoClaimStep DEF Claiming, Acquiring, Releasing
<1>3. CASE rpc[s].at # "done" /\ (GoTo(s, "read") \/ GoTo(s, "confirm"))
  BY <1>0, <1>1, <1>3, GoToFacts, NoClaimStep DEF Claiming, Acquiring, Releasing
<1>4. CASE rpc[s].at # "done" /\ \E objs : AnswerWith(s, objs)
  <2>1. rpc[s] \in Call
    BY <1>0, <1>4, BusyIsCall
  <2>2. Others(s) /\ rpc'[s].at = "done"
    BY <1>0, <1>4, <2>1 DEF AnswerWith, TypeOK, Others, Call
  <2> QED
    BY <1>1, <2>2, NoClaimStep DEF Claiming, Acquiring, Releasing
<1>5. CASE ListKeys(s) \/ ListRead(s)
  <2>1. rpc[s] \in Call
    BY <1>0, <1>5, BusyIsCall DEF ListKeys, ListRead
  <2>2. \/ \E gn, keys : rpc' = [rpc EXCEPT ![s].at = "each", ![s].since = gn, ![s].todo = keys]
        \/ rpc[s].at = "each" /\ \E keys, objs : rpc' = [rpc EXCEPT ![s].todo = keys, ![s].got = objs]
    BY <1>5, Zenon DEF ListKeys, ListRead
  <2>3. Others(s) /\ rpc'[s].at = "each"
    BY ZenonT(30), <1>0, <2>1, <2>2 DEF TypeOK, Others, Call
  <2> QED
    BY <1>1, <2>3, NoClaimStep DEF Claiming, Acquiring, Releasing
<1> QED
  BY <1>2, <1>3, <1>4, <1>5
  DEF GetAttrs, GetRead, SaveWrite, SaveConfirm, DeleteRecord, ListAnswer, UnlockDone

\* Every handler step keeps LockInv.
LEMMA HandlerLock ==
    ASSUME TypeInv, LockInv, NEW s \in Session, Handler(s)
    PROVE  LockInv'
BY LockCreateLock, LockCreatedLock, LockGrantedLock, UnlockRemoveLock, RecordStepLock DEF Handler

\* The early returns keep LockInv.
LEMMA AnswerAtOnceLock ==
    ASSUME TypeInv, LockInv, NEW s \in Session,
           (\E op \in Ops : Unconfigured(s, op)) \/ (\E id, st : Rejected(s, id, st))
    PROVE  LockInv'
<1>1. UNCHANGED <<locks, held, late>>
  BY DEF Unconfigured, Rejected, bucket, host, fate
<1>2. \E op, out : rpc' = [rpc EXCEPT ![s] = [Idle EXCEPT !.op = op, !.out = out]]
  BY Zenon DEF Unconfigured, Rejected
<1>3. Others(s) /\ rpc'[s].at = "done"
  BY <1>2 DEF TypeInv, TypeOK, Others, Idle
<1> QED
  BY <1>1, <1>3, NoClaimStep DEF Claiming, Acquiring, Releasing

\* Replacing the store keeps LockInv: calls go on with the store they resolved.
LEMMA ConfigureLock ==
    ASSUME TypeInv, LockInv, NEW p, NEW c, Configure(p, c)
    PROVE  LockInv'
BY DEF Configure, bucket, host, fate, LockInv, HeldLockStands, ClaimsStand, LateRemovals,
       OneLateRemoval, Claiming, Acquiring, Releasing, Target, KeyOf

\* The calls of the sessions in S end; removals they had sent may still land.
LEMMA AbandonLock ==
    ASSUME TypeInv, LockInv, NEW S \in SUBSET Session, Abandon(S), UNCHANGED locks,
           \A t \in Session : held'[t] \subseteq held[t],
           \A t \in S : ~Claiming(t)',
           \A t \in Session \ S : Claiming(t)' => Claiming(t) /\ Target(t)' = Target(t)
    PROVE  LockInv'
<1>1. late' = late \cup (late' \ late)
  BY DEF Abandon
<1>2. ASSUME NEW r \in late' \ late, r.at = "remove"
      PROVE  \E s \in S : Claiming(s) /\ r = RequestOf(s) /\ r.by = s /\ r.key = Target(s)
  <2>1. PICK s \in S : r = RequestOf(s) /\ rpc[s].at \in Changing
    BY AbandonedRequests
  <2> QED
    BY <1>2, <2>1 DEF RequestOf, Claiming, Releasing
<1>3. \A r \in late : r.by \in Session
  BY DEF TypeInv, TypeOK, Request
<1>4. HeldLockStands'
  BY DEF LockInv, HeldLockStands
<1>5. ClaimsStand'
  BY DEF LockInv, ClaimsStand
<1>6. LateRemovals'
  <2> SUFFICES ASSUME NEW r \in late', r.at = "remove"
               PROVE  /\ locks[r.key] = r.by /\ r.key \notin held'[r.by]
                      /\ ~(Claiming(r.by)' /\ Target(r.by)' = r.key)
    BY DEF LateRemovals
  <2>1. CASE r \in late
    BY <1>3, <2>1 DEF LockInv, LateRemovals
  <2>2. CASE r \notin late
    BY <1>2, <2>2 DEF LockInv, ClaimsStand
  <2> QED
    BY <2>1, <2>2
<1>7. OneLateRemoval'
  <2> SUFFICES ASSUME NEW r \in late', NEW q \in late', r.at = "remove", q.at = "remove",
                      r.key = q.key
               PROVE  r = q
    BY DEF OneLateRemoval
  <2>1. CASE r \in late /\ q \in late
    BY <2>1 DEF LockInv, OneLateRemoval
  <2>2. CASE r \notin late /\ q \notin late
    BY <1>2, <2>2 DEF LockInv, ClaimsStand
  <2>3. CASE r \in late /\ q \notin late
    BY <1>2, <2>3 DEF LockInv, ClaimsStand, LateRemovals
  <2>4. CASE r \notin late /\ q \in late
    BY <1>2, <2>4 DEF LockInv, ClaimsStand, LateRemovals
  <2> QED
    BY <2>1, <2>2, <2>3, <2>4
<1> QED
  BY <1>4, <1>5, <1>6, <1>7 DEF LockInv

\* A failed client call keeps LockInv.
LEMMA FailLock ==
    ASSUME TypeInv, LockInv, NEW s \in Session, NEW kind, Fail(s, kind)
    PROVE  LockInv'
<1>0. TypeOK /\ rpc[s] \in Call
  BY BusyIsCall DEF Fail, Busy, TypeInv
<1>1. Others(s) /\ rpc'[s].at \in {"done", "each"}
  <2>1. CASE rpc[s].at = "each" /\ \E keys : rpc' = [rpc EXCEPT ![s].todo = keys]
    BY <1>0, <2>1 DEF TypeOK, Others, Call
  <2>2. CASE \E out : rpc' = [rpc EXCEPT ![s] = Failed(@, out)]
    BY <1>0, <2>2 DEF Failed, TypeOK, Others, Call
  <2> QED
    BY <2>1, <2>2, Zenon DEF Fail
<1>2. ~Claiming(s)'
  BY <1>1 DEF Claiming, Acquiring, Releasing
<1>3. Abandon({s}) /\ UNCHANGED <<locks, held>>
  BY DEF Fail, bucket, host
<1> QED
  BY <1>1, <1>2, <1>3, OthersClaims, AbandonLock

\* The death of a process keeps LockInv.
LEMMA DieLock ==
    ASSUME TypeInv, LockInv, NEW p, Die(p)
    PROVE  LockInv'
<1> DEFINE S == {s \in Session : ProcessOf[s] = p /\ Busy(s)}
<1>0. TypeOK /\ Abandon(S) /\ UNCHANGED <<locks, held>>
  BY DEF Die, TypeInv, bucket, host
<1>1. ASSUME NEW s \in S PROVE ~Claiming(s)'
  <2>1. rpc[s] \in Call
    BY <1>0, BusyIsCall DEF Busy
  <2>2. rpc'[s].at = "done"
    BY <2>1 DEF Die, Failed, Call
  <2> QED
    BY <2>2 DEF Claiming, Acquiring, Releasing
<1>2. ASSUME NEW s \in Session \ S PROVE Claiming(s)' => Claiming(s) /\ Target(s)' = Target(s)
  <2>1. rpc'[s] = rpc[s]
    BY DEF Die
  <2> QED
    BY <2>1 DEF Claiming, Acquiring, Releasing, Target, KeyOf
<1> HIDE DEF S
<1>3. S \in SUBSET Session
  BY DEF S
<1> QED
  BY <1>0, <1>1, <1>2, <1>3, AbandonLock

\* The death of a session keeps LockInv.
LEMMA SessionDiesLock ==
    ASSUME TypeInv, LockInv, NEW s \in Session, SessionDies(s)
    PROVE  LockInv'
<1>1. Others(s) /\ rpc'[s].at = "done"
  BY DEF SessionDies, TypeInv, TypeOK, Others, Idle
<1>2. ~Claiming(s)'
  BY <1>1 DEF Claiming, Acquiring, Releasing
<1>3. \A t \in Session : held'[t] \subseteq held[t]
  BY DEF SessionDies, TypeInv, TypeOK
<1>4. Abandon({s}) /\ UNCHANGED locks
  BY DEF SessionDies, bucket
<1> QED
  BY <1>1, <1>2, <1>3, <1>4, OthersClaims, AbandonLock

\* A request that takes effect late keeps LockInv: a removal removes its sender's object.
LEMMA LandLock ==
    ASSUME TypeInv, LockInv, NEW r \in late, Land(r)
    PROVE  LockInv'
<1>0. /\ r \in Request /\ r.key \in Key /\ r.by \in Session /\ r.at \in Changing
      /\ late' = late \ {r} /\ UNCHANGED <<rpc, held>>
  BY DEF TypeInv, TypeOK, Request, Land, host
<1>1. \A t \in Session : /\ Claiming(t)' <=> Claiming(t)
                         /\ Target(t)' = Target(t)
  BY <1>0 DEF Claiming, Acquiring, Releasing, Target, KeyOf
<1>2. CASE UNCHANGED locks
  BY <1>0, <1>1, <1>2 DEF TypeInv, TypeOK, Request, LockInv, HeldLockStands, ClaimsStand,
                          LateRemovals, OneLateRemoval
<1>3. CASE r.at = "create" /\ locks[r.key] = None
  <2> DEFINE k == r.key
  <2>1. locks' = [locks EXCEPT ![k] = r.by]
    BY <1>3 DEF Land
  <2>2. \A q \in Key \ {k} : locks'[q] = locks[q]
    BY <1>0, <2>1 DEF TypeInv, TypeOK
  <2>3. \A t \in Session : k \notin held[t] /\ ~(Claiming(t) /\ Target(t) = k)
    BY <1>3, GcsStateStoreAssumption DEF ConstantsOK, LockInv, HeldLockStands, ClaimsStand
  <2>4. \A q \in late : q.at = "remove" => q.key # k /\ q.key \in Key /\ q.by \in Session
    BY <1>3, GcsStateStoreAssumption
    DEF ConstantsOK, LockInv, LateRemovals, TypeInv, TypeOK, Request
  <2> HIDE DEF k
  <2>5. HeldLockStands'
    BY <1>0, <2>2, <2>3 DEF LockInv, HeldLockStands, TypeInv, TypeOK
  <2>6. ClaimsStand'
    <3> SUFFICES ASSUME NEW t \in Session, Claiming(t)'
                 PROVE  locks'[Target(t)'] = t /\ Target(t)' \notin held'[t]
      BY DEF ClaimsStand
    <3>1. Claiming(t) /\ Target(t)' = Target(t) /\ Target(t) \in Key \ {k}
      BY <1>1, <2>3, ClaimIsBusy DEF TypeInv
    <3> QED
      BY <1>0, <2>2, <3>1 DEF LockInv, ClaimsStand
  <2>7. LateRemovals'
    BY <1>0, <1>1, <2>2, <2>4 DEF LockInv, LateRemovals
  <2>8. OneLateRemoval'
    BY <1>0 DEF LockInv, OneLateRemoval
  <2> QED
    BY <2>5, <2>6, <2>7, <2>8 DEF LockInv
<1>4. CASE r.at = "remove"
  <2> DEFINE k == r.key
  <2>1. locks' = [locks EXCEPT ![k] = None]
    BY <1>4 DEF Land
  <2>2. locks[k] = r.by /\ k \notin held[r.by] /\ ~(Claiming(r.by) /\ Target(r.by) = k)
    BY <1>4 DEF LockInv, LateRemovals
  <2>3. \A t \in Session : k \notin held[t] /\ ~(Claiming(t)' /\ Target(t) = k)
    BY <1>1, <2>2 DEF LockInv, HeldLockStands, ClaimsStand
  <2>4. \A q \in late' : q.at = "remove" => q.key # k
    BY <1>0, <1>4 DEF LockInv, OneLateRemoval
  <2> HIDE DEF k
  <2>5. k \in Key
    BY <1>0 DEF k
  <2> QED
    BY <1>0, <1>1, <2>1, <2>3, <2>4, <2>5, LockRemoved
<1> QED
  BY <1>0, <1>2, <1>3, <1>4 DEF Land, Changing

\* A lock object a session was told it owns stands until that session gives it up.
LEMMA LockStep ==
    ASSUME DisciplinedHosts, TypeInv, LockInv, [Next]_vars
    PROVE  LockInv'
<1>1. CASE UNCHANGED vars
  BY <1>1 DEF vars, LockInv, HeldLockStands, ClaimsStand, LateRemovals, OneLateRemoval,
              Claiming, Acquiring, Releasing, Target, KeyOf
<1>2. ASSUME NEW s \in Session, Calls(s) PROVE LockInv'
  BY <1>2, InvokeLock, AnswerAtOnceLock DEF Calls
<1>3. ASSUME NEW s \in Session, Handler(s) \/ SessionDies(s) PROVE LockInv'
  BY <1>3, HandlerLock, SessionDiesLock
<1>4. ASSUME NEW s \in Session, NEW kind \in Faults, Fail(s, kind) PROVE LockInv'
  BY <1>4, FailLock
<1>5. ASSUME NEW r \in late, Land(r) PROVE LockInv'
  BY <1>5, LandLock
<1>6. ASSUME NEW p \in Process, ProcessDies(p) \/ MapRace(p) PROVE LockInv'
  BY <1>6, DieLock DEF ProcessDies, MapRace
<1>7. ASSUME NEW p \in Process, NEW c \in Delivers[p], Configure(p, c) PROVE LockInv'
  BY <1>7, ConfigureLock
<1> QED
  BY <1>1, <1>2, <1>3, <1>4, <1>5, <1>6, <1>7 DEF Next

\* LockInv holds of the initial states.
LEMMA InitLock == Init => LockInv
BY DEF Init, LockInv, HeldLockStands, ClaimsStand, LateRemovals, OneLateRemoval,
       Claiming, Acquiring, Releasing, Idle

\* The inductive invariant behind mutual exclusion, for disciplined callers.
THEOREM LockCorrect == DisciplinedHosts => (Spec => []LockInv)
<1> SUFFICES ASSUME DisciplinedHosts PROVE Spec => []LockInv
  OBVIOUS
<1>1. Init => LockInv
  BY InitLock
<1>2. TypeInv /\ LockInv /\ [Next]_vars => LockInv'
  BY LockStep
<1> QED
  BY <1>1, <1>2, TypeCorrect, PTL DEF Spec

\* LockInv speaks of held locks first.
LEMMA LockInvHolds == ASSUME LockInv PROVE HeldLockStands
BY DEF LockInv

\* A lock that was granted stands in the bucket, as its holder's, until the holder unlocks it or
\* dies, whatever other sessions, failed calls and late requests do.
THEOREM HeldLocksStand == DisciplinedHosts => (Spec => []HeldLockStands)
BY LockCorrect, LockInvHolds, PTL

\* One lock object has one owner, so LockInv excludes two holders.
LEMMA LockInvExcludes ==
    ASSUME LockInv
    PROVE  MutualExclusion
BY DEF LockInv, HeldLockStands, MutualExclusion

\* Two sessions never both hold a granted lock of one key, whatever fails or lands late,
\* even if sanitizeID gives two resource IDs one key.
THEOREM LockExcludes == DisciplinedHosts => (Spec => []MutualExclusion)
BY LockCorrect, LockInvExcludes, PTL

-----------------------------------------------------------------------------
(* Locks that are left behind *)

\* Without failed calls and deaths no request is late, and who wrote a lock object holds the
\* lock, is about to be told so, or is about to remove the object.
Owned(k, s) == locks[k] = s => k \in held[s] \/ (Claiming(s) /\ Target(s) = k)
NoOrphans ==
    (faults = 0 /\ crashes = 0) => (late = {} /\ \A k \in Key, s \in Session : Owned(k, s))

\* Only Lock creates lock objects.
CreatesAreLocks == \A s \in Session : rpc[s].at \in {"create", "created"} => rpc[s].op = "Lock"
OrphanInv == NoOrphans /\ CreatesAreLocks

\* A step of one session that leaves what it owns owned.
LEMMA OwnStep ==
    ASSUME TypeInv, OrphanInv, NEW s \in Session, Others(s), UNCHANGED <<late, faults, crashes>>,
           \A t \in Session \ {s} : held'[t] = held[t],
           \A k \in Key : locks'[k] \in {locks[k], None, s},
           \A k \in Key : Owned(k, s) => Owned(k, s)',
           rpc'[s].at \in {"create", "created"} => rpc'[s].op = "Lock"
    PROVE  OrphanInv'
<1>1. CreatesAreLocks'
  BY DEF OrphanInv, CreatesAreLocks, Others
<1>2. ASSUME faults = 0, crashes = 0, NEW k \in Key, NEW t \in Session
      PROVE  Owned(k, t)'
  <2>1. Owned(k, t) /\ late = {}
    BY <1>2 DEF OrphanInv, NoOrphans
  <2>2. CASE t = s
    BY <2>1, <2>2
  <2>3. CASE t # s
    <3>1. (Claiming(t)' <=> Claiming(t)) /\ Target(t)' = Target(t) /\ held'[t] = held[t]
      BY <2>3, OthersClaims
    <3>2. locks'[k] = t => locks[k] = t
      BY <2>3, GcsStateStoreAssumption DEF ConstantsOK
    <3> QED
      BY <2>1, <3>1, <3>2 DEF Owned
  <2> QED
    BY <2>2, <2>3
<1>3. NoOrphans'
  BY <1>2 DEF OrphanInv, NoOrphans
<1> QED
  BY <1>1, <1>3 DEF OrphanInv

\* A step of a session that claims no lock and changes neither locks nor what it holds.
LEMMA IdleOwnStep ==
    ASSUME TypeInv, OrphanInv, NEW s \in Session, Others(s), UNCHANGED <<late, faults, crashes, locks, held>>,
           ~Claiming(s), rpc'[s].at \notin {"create", "created"}
    PROVE  OrphanInv'
BY OwnStep DEF Owned

\* A call of the host leaves no lock object behind: Unlock gives up what it is about to remove.
LEMMA CallOrphan ==
    ASSUME TypeInv, OrphanInv, NEW s \in Session, NEW op \in Ops, NEW id \in Id, NEW arg,
           Invoke(s, op, id, arg)
    PROVE  OrphanInv'
<1> DEFINE key == KeyOf(store[ProcessOf[s]].cfg, id)
<1>1. op \in AllOps /\ rpc[s].at = "done"
  BY GcsStateStoreAssumption DEF ConstantsOK, Invoke, Busy
<1>2. /\ Others(s) /\ rpc'[s].at = FirstStep[op] /\ rpc'[s].op = op /\ Target(s)' = key
  BY DEF Invoke, TypeInv, TypeOK, Others, Target, KeyOf
<1>3. UNCHANGED <<locks, late, faults, crashes>> /\ ~Claiming(s)
  BY <1>1 DEF Invoke, bucket, fate, Claiming, Acquiring, Releasing
<1>4. rpc'[s].at \in {"create", "created"} => rpc'[s].op = "Lock"
  BY <1>1, <1>2 DEF FirstStep, AllOps
<1>5. CASE op # "Unlock"
  BY <1>2, <1>3, <1>4, <1>5, OwnStep DEF Invoke, host, Owned
<1>6. CASE op = "Unlock"
  <2>1. held' = [held EXCEPT ![s] = @ \ {key}]
    BY <1>6 DEF Invoke
  <2>2. /\ held'[s] = held[s] \ {key}
        /\ \A t \in Session \ {s} : held'[t] = held[t]
    BY <2>1 DEF TypeInv, TypeOK
  <2>3. Claiming(s)'
    BY <1>2, <1>6 DEF FirstStep, Claiming, Releasing
  <2> HIDE DEF key
  <2> QED
    BY <1>2, <1>3, <1>4, <2>2, <2>3, OwnStep DEF Owned
<1> QED
  BY <1>5, <1>6

\* The early returns leave no lock object behind.
LEMMA AnswerAtOnceOrphan ==
    ASSUME TypeInv, OrphanInv, NEW s \in Session,
           (\E op \in Ops : Unconfigured(s, op)) \/ (\E id, st : Rejected(s, id, st))
    PROVE  OrphanInv'
<1>1. UNCHANGED <<locks, held, late, faults, crashes>> /\ ~Claiming(s)
  BY DEF Unconfigured, Rejected, bucket, host, fate, Busy, Claiming, Acquiring, Releasing
<1>2. \E op, out : rpc' = [rpc EXCEPT ![s] = [Idle EXCEPT !.op = op, !.out = out]]
  BY Zenon DEF Unconfigured, Rejected
<1>3. Others(s) /\ rpc'[s].at = "done"
  BY <1>2 DEF TypeInv, TypeOK, Others, Idle
<1> QED
  BY <1>1, <1>3, IdleOwnStep

\* Nor do the steps of the other RPCs, and the end of Unlock.
LEMMA RecordStepOrphan ==
    ASSUME TypeInv, OrphanInv, NEW s \in Session,
           \/ GetAttrs(s) \/ GetRead(s) \/ SaveWrite(s) \/ SaveConfirm(s) \/ DeleteRecord(s)
           \/ ListKeys(s) \/ ListRead(s) \/ ListAnswer(s) \/ UnlockDone(s)
    PROVE  OrphanInv'
<1>0. TypeOK
  BY DEF TypeInv
<1>1. UNCHANGED <<locks, held, late, faults, crashes>> /\ ~Claiming(s)
  BY DEF GetAttrs, GetRead, SaveWrite, SaveConfirm, DeleteRecord, ListKeys, ListRead, ListAnswer,
         UnlockDone, bucket, host, fate, Claiming, Acquiring, Releasing
<1>2. CASE \E out : Answer(s, out)
  BY <1>0, <1>1, <1>2, AnswerFacts, IdleOwnStep
<1>3. CASE rpc[s].at # "done" /\ (GoTo(s, "read") \/ GoTo(s, "confirm"))
  BY <1>0, <1>1, <1>3, GoToFacts, IdleOwnStep
<1>4. CASE rpc[s].at # "done" /\ \E objs : AnswerWith(s, objs)
  <2>1. rpc[s] \in Call
    BY <1>0, <1>4, BusyIsCall
  <2>2. Others(s) /\ rpc'[s].at = "done"
    BY <1>0, <1>4, <2>1 DEF AnswerWith, TypeOK, Others, Call
  <2> QED
    BY <1>1, <2>2, IdleOwnStep
<1>5. CASE ListKeys(s) \/ ListRead(s)
  <2>1. rpc[s] \in Call
    BY <1>0, <1>5, BusyIsCall DEF ListKeys, ListRead
  <2>2. \/ \E gn, keys : rpc' = [rpc EXCEPT ![s].at = "each", ![s].since = gn, ![s].todo = keys]
        \/ rpc[s].at = "each" /\ \E keys, objs : rpc' = [rpc EXCEPT ![s].todo = keys, ![s].got = objs]
    BY <1>5, Zenon DEF ListKeys, ListRead
  <2>3. Others(s) /\ rpc'[s].at = "each"
    BY ZenonT(30), <1>0, <2>1, <2>2 DEF TypeOK, Others, Call
  <2> QED
    BY <1>1, <2>3, IdleOwnStep
<1> QED
  BY <1>2, <1>3, <1>4, <1>5
  DEF GetAttrs, GetRead, SaveWrite, SaveConfirm, DeleteRecord, ListAnswer, UnlockDone

\* Lock and Unlock pass a lock object from hand to hand.
LEMMA LockStepOrphan ==
    ASSUME TypeInv, OrphanInv, NEW s \in Session,
           LockCreate(s) \/ LockCreated(s) \/ LockGranted(s) \/ UnlockRemove(s)
    PROVE  OrphanInv'
<1>0. TypeOK /\ UNCHANGED <<late, faults, crashes>>
  BY DEF TypeInv, LockCreate, LockCreated, LockGranted, UnlockRemove, fate
<1>1. CASE LockCreate(s)
  <2>0. rpc[s].at = "create" /\ rpc[s].op = "Lock" /\ UNCHANGED held /\ Target(s) \in Key
    BY <1>0, <1>1, TargetIsKey DEF LockCreate, OrphanInv, CreatesAreLocks, host
  <2>1. CASE Answer(s, "already_locked") /\ UNCHANGED locks
    BY <1>0, <2>0, <2>1, AnswerFacts, IdleOwnStep DEF Claiming, Acquiring, Releasing
  <2>2. CASE locks' = [locks EXCEPT ![Target(s)] = s] /\ GoTo(s, "created")
    <3>1. /\ Others(s) /\ rpc'[s].at = "created" /\ Target(s)' = Target(s) /\ rpc'[s].op = "Lock"
      BY <1>0, <2>0, <2>2, GoToFacts
    <3>2. ~Claiming(s) /\ Claiming(s)'
      BY <2>0, <3>1 DEF Claiming, Acquiring, Releasing
    <3>3. \A k \in Key : IF k = Target(s) THEN locks'[k] = s ELSE locks'[k] = locks[k]
      BY <2>2 DEF TypeInv, TypeOK
    <3> QED
      BY <1>0, <2>0, <3>1, <3>2, <3>3, OwnStep DEF Owned
  <2> QED
    BY <1>1, <2>1, <2>2 DEF LockCreate
<1>2. CASE LockCreated(s)
  <2>0. /\ rpc[s].at = "created" /\ rpc[s].op = "Lock" /\ UNCHANGED <<held, locks>>
        /\ Target(s) \in Key /\ Claiming(s)
    BY <1>0, <1>2, TargetIsKey
    DEF LockCreated, OrphanInv, CreatesAreLocks, host, bucket, Claiming, Acquiring
  <2>1. CASE locks[Target(s)] = None /\ Answer(s, "error")
    <3>1. Others(s) /\ rpc'[s].at = "done"
      BY <1>0, <2>1, AnswerFacts
    <3>2. \A k \in Key : locks[k] = s => k # Target(s)
      BY <2>1, GcsStateStoreAssumption DEF ConstantsOK
    <3> QED
      BY <1>0, <2>0, <3>1, <3>2, OwnStep DEF Owned
  <2>2. CASE GoTo(s, "map")
    <3>1. /\ Others(s) /\ rpc'[s].at = "map" /\ Target(s)' = Target(s) /\ rpc'[s].op = "Lock"
      BY <1>0, <2>0, <2>2, GoToFacts
    <3>2. Claiming(s)'
      BY <3>1 DEF Claiming, Acquiring
    <3> QED
      BY <1>0, <2>0, <3>1, <3>2, OwnStep DEF Owned
  <2> QED
    BY <1>2, <2>1, <2>2 DEF LockCreated
<1>3. CASE LockGranted(s)
  <2>1. /\ rpc[s].at = "map" /\ UNCHANGED locks /\ Others(s) /\ rpc'[s].at = "done"
        /\ held' = [held EXCEPT ![s] = @ \cup {Target(s)}] /\ Claiming(s)
    BY <1>0, <1>3, AnswerFacts DEF LockGranted, bucket, Claiming, Acquiring
  <2>2. /\ held'[s] = held[s] \cup {Target(s)}
        /\ \A t \in Session \ {s} : held'[t] = held[t]
    BY <2>1, <1>0 DEF TypeOK
  <2> QED
    BY <1>0, <2>1, <2>2, OwnStep DEF Owned
<1>4. CASE UnlockRemove(s)
  <2>1. /\ rpc[s].at = "remove" /\ UNCHANGED held /\ Target(s) \in Key
        /\ locks' = [locks EXCEPT ![Target(s)] = None]
    BY <1>0, <1>4, TargetIsKey DEF UnlockRemove, host
  <2>2. Others(s) /\ rpc'[s].at \in {"done", "map"}
    BY <1>0, <1>4, <2>1, AnswerFacts, GoToFacts DEF UnlockRemove
  <2>3. /\ locks'[Target(s)] = None /\ s # None
        /\ \A k \in Key \ {Target(s)} : locks'[k] = locks[k]
    BY <1>0, <2>1, GcsStateStoreAssumption DEF TypeOK, ConstantsOK
  <2> QED
    BY <1>0, <2>1, <2>2, <2>3, OwnStep DEF Owned
<1> QED
  BY <1>1, <1>2, <1>3, <1>4

\* A failed call and a death excuse what is left behind from then on.
LEMMA ExcusedOrphan ==
    ASSUME TypeInv, OrphanInv,
           faults' # 0 \/ crashes' # 0,
           \A s \in Session : rpc'[s].at \in {"create", "created"} => rpc'[s] = rpc[s]
    PROVE  OrphanInv'
BY DEF OrphanInv, NoOrphans, CreatesAreLocks

LEMMA FaultOrphan ==
    ASSUME TypeInv, OrphanInv, [Next]_vars,
           \/ \E s \in Session : SessionDies(s) \/ \E kind \in Faults : Fail(s, kind)
           \/ \E p \in Process : Die(p)
    PROVE  OrphanInv'
<1>0. TypeOK /\ faults \in Nat /\ crashes \in Nat
  BY DEF TypeInv, TypeOK
<1>1. ASSUME NEW s \in Session, SessionDies(s)  PROVE OrphanInv'
  <2>1. crashes' # 0
    BY <1>0, <1>1 DEF SessionDies
  <2>2. rpc'[s].at = "done" /\ \A t \in Session \ {s} : rpc'[t] = rpc[t]
    BY <1>0, <1>1 DEF SessionDies, TypeOK, Idle
  <2> QED
    BY <2>1, <2>2, ExcusedOrphan
<1>2. ASSUME NEW s \in Session, NEW kind \in Faults, Fail(s, kind)  PROVE OrphanInv'
  <2>1. faults' # 0
    BY <1>0, <1>2 DEF Fail
  <2>2. rpc[s] \in Call
    BY <1>0, <1>2, BusyIsCall DEF Fail, Busy
  <2>3. CASE rpc[s].at = "each" /\ \E keys : rpc' = [rpc EXCEPT ![s].todo = keys]
    BY <1>0, <2>1, <2>2, <2>3, ExcusedOrphan DEF TypeOK, Call
  <2>4. CASE \E out : rpc' = [rpc EXCEPT ![s] = Failed(@, out)]
    BY <1>0, <2>1, <2>2, <2>4, ExcusedOrphan DEF TypeOK, Call, Failed
  <2> QED
    BY <1>2, <2>3, <2>4 DEF Fail
<1>3. ASSUME NEW p \in Process, Die(p)  PROVE OrphanInv'
  <2>1. crashes' # 0
    BY <1>0, <1>3 DEF Die
  <2>2. \A s \in Session : rpc'[s] = rpc[s] \/ (rpc[s].at # "done" /\ rpc'[s] = Failed(rpc[s], "error"))
    BY <1>3, Zenon DEF Die, Busy
  <2>3. \A s \in Session : rpc[s].at # "done" => Failed(rpc[s], "error").at = "done"
    BY <1>0, BusyIsCall DEF Failed, Call
  <2> QED
    BY <2>1, <2>2, <2>3, ExcusedOrphan
<1> QED
  BY <1>1, <1>2, <1>3

LEMMA OrphanStep ==
    ASSUME TypeInv, OrphanInv, [Next]_vars
    PROVE  OrphanInv'
<1>1. CASE UNCHANGED vars
  BY <1>1 DEF vars, OrphanInv, NoOrphans, Owned, CreatesAreLocks, Claiming, Acquiring, Releasing,
              Target, KeyOf
<1>2. ASSUME NEW s \in Session, Calls(s)  PROVE OrphanInv'
  BY <1>2, CallOrphan, AnswerAtOnceOrphan DEF Calls
<1>3. ASSUME NEW s \in Session, Handler(s)  PROVE OrphanInv'
  BY <1>3, RecordStepOrphan, LockStepOrphan DEF Handler
<1>4. CASE \/ \E s \in Session : SessionDies(s) \/ \E kind \in Faults : Fail(s, kind)
           \/ \E p \in Process : Die(p)
  BY <1>4, FaultOrphan
<1>5. ASSUME NEW r \in late, Land(r)  PROVE OrphanInv'
  <2>1. ~(faults = 0 /\ crashes = 0)
    BY <1>5 DEF OrphanInv, NoOrphans
  <2> QED
    BY <1>5, <2>1 DEF Land, OrphanInv, NoOrphans, CreatesAreLocks
<1>6. ASSUME NEW p \in Process, NEW c \in Delivers[p], Configure(p, c)  PROVE OrphanInv'
  BY <1>6 DEF Configure, bucket, host, fate, OrphanInv, NoOrphans, Owned, CreatesAreLocks, Claiming,
              Acquiring, Releasing, Target, KeyOf
<1> QED
  BY <1>1, <1>2, <1>3, <1>4, <1>5, <1>6 DEF Next, ProcessDies, MapRace

LEMMA OrphanInvInit == Init => OrphanInv
BY GcsStateStoreAssumption DEF ConstantsOK, Init, OrphanInv, NoOrphans, Owned, CreatesAreLocks, Idle

LEMMA NoOrphansMeans == ASSUME TypeInv, OrphanInv PROVE OrphanNeedsFault
<1> SUFFICES ASSUME faults = 0, crashes = 0, NEW k \in Key, locks[k] # None, k \notin held[locks[k]]
             PROVE  LET s == locks[k]
                    IN  Busy(s) /\ Target(s) = k /\ rpc[s].at \in {"created", "map", "remove"}
  BY DEF OrphanNeedsFault
<1>0. locks[k] \in Session
  BY DEF TypeInv, TypeOK
<1>1. Claiming(locks[k]) /\ Target(locks[k]) = k
  BY <1>0 DEF OrphanInv, NoOrphans, Owned
<1> QED
  BY <1>1 DEF Claiming, Acquiring, Releasing, Busy

\* A lock object nobody holds is a failure's doing, for any callers, disciplined or not.
THEOREM OrphansNeedFaults == Spec => []OrphanNeedsFault
BY OrphanInvInit, OrphanStep, NoOrphansMeans, TypeCorrect, PTL DEF Spec
=============================================================================
