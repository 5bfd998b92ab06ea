----------------------------- MODULE LockedState -----------------------------
(***************************************************************************)
(* What the IaC state backend promises callers that lock before they write *)
(* (the comments of the IaCStateStore interface, internal/statebackend/    *)
(* gcs.go:45-59): one record and one advisory lock per key.  A lock has at *)
(* most one owner; it is released only when its owner does not hold it any *)
(* more; a record changes only at the hands of a holder of its lock, or if *)
(* an earlier change of it was left unsettled.                             *)
(***************************************************************************)
CONSTANTS
    Session,    \* callers
    Key,        \* keys
    None        \* no owner

VARIABLES
    saved,      \* [Key -> what is saved there]: a function of any values
    owner,      \* [Key -> Session \cup {None}]: who the lock was created for
    held,       \* [Session -> SUBSET Key]: the locks a caller was granted
    unsettled   \* keys with a change that failed but may still happen

avars == <<saved, owner, held, unsettled>>

AInit ==
    /\ saved = [k \in Key |-> saved[k]]
    /\ owner = [k \in Key |-> None]
    /\ held = [s \in Session |-> {}]
    /\ unsettled = {}

Acquire(s, k) ==
    /\ owner[k] = None
    /\ owner' = [owner EXCEPT ![k] = s]
    /\ UNCHANGED <<saved, held, unsettled>>

Grant(s, k) ==
    /\ owner[k] = s
    /\ held' = [held EXCEPT ![s] = @ \cup {k}]
    /\ UNCHANGED <<saved, owner, unsettled>>

\* A caller gives locks back or loses them, and changes under way may become unsettled.
Abandon(s, kept, keys) ==
    /\ held' = [held EXCEPT ![s] = @ \cap kept]
    /\ unsettled' = unsettled \cup keys
    /\ UNCHANGED <<saved, owner>>

Release(k) ==
    /\ \A s \in Session : k \notin held[s]
    /\ owner' = [owner EXCEPT ![k] = None]
    /\ UNCHANGED <<saved, held, unsettled>>

\* The value a key changes to is the caller's: only that key changes.
Change(k) ==
    /\ k \in unsettled \/ \E s \in Session : k \in held[s]
    /\ saved' = [saved EXCEPT ![k] = saved'[k]]
    /\ UNCHANGED <<owner, held, unsettled>>

ANext ==
    \/ \E s \in Session, k \in Key : Acquire(s, k) \/ Grant(s, k)
    \/ \E s \in Session, kept, keys \in SUBSET Key : Abandon(s, kept, keys)
    \/ \E k \in Key : Release(k) \/ Change(k)

ASpec == AInit /\ [][ANext]_avars
=============================================================================
