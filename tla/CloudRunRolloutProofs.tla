------------------------ MODULE CloudRunRolloutProofs ------------------------
(***************************************************************************)
(* What a rollout does to the traffic, for any images, shares, revisions,  *)
(* failed calls, restarts and deployments by others.                       *)
(***************************************************************************)
EXTENDS CloudRunRollout, TLAPS

-----------------------------------------------------------------------------
(* The invariant *)

\* Who has begun a rollout deploys an image, and was answered no revision before its first call.
Begun ==
    /\ host.at # "idle" => host.image \in Image
    /\ host.at \in {"update", "create_green", "get_stable", "create_canary"} => trial = 0

RolloutInv == TypeOK /\ Begun /\ MemoryFits /\ OnlyHomeOrTrialServes

\* Appending a revision.
LEMMA NewRevision ==
    ASSUME TypeOK, NEW image \in Image, Len(revs) < MaxRevs
    PROVE  /\ Append(revs, image) \in Seq(Image)
           /\ Len(Append(revs, image)) = Len(revs) + 1
           /\ Len(revs) \in Nat \ {0}
           /\ Len(Append(revs, image)) \in Rev
BY RolloutBounds DEF TypeOK, Rev

\* The split of two revisions that exist goes to no other.
LEMMA SplitServes ==
    ASSUME NEW n \in Nat, NEW main \in 1..n, NEW other \in 1..n, NEW share \in 0..100
    PROVE  /\ Split(main, other, share) \in [main : 1..n, trial : 1..n, share : 0..99]
           /\ Split(main, other, share).share = 0 =>
                 Split(main, other, share).main = Split(main, other, share).trial
           /\ Split(main, other, share).main \in {main, other}
           /\ Split(main, other, share).trial \in {main, other}
BY DEF Split, Whole

-----------------------------------------------------------------------------
(* One lemma for each of the two calls of the cloud that change it *)

\* UpdateTraffic between the revision before the rollout and its own.
LEMMA TrafficStep ==
    ASSUME RolloutInv, host.at \in {"green_up", "running"},
           NEW main \in 0..Len(revs), NEW other \in 0..Len(revs), NEW share \in Int,
           NEW next \in {"idle", host.at},
           ~meddled => {main, other} \subseteq {0, trial} \cup home,
           UpdateTraffic(main, other, share, next)
    PROVE  RolloutInv'
<1> USE DEF RolloutInv
<1>1. UNCHANGED <<revs, canary, stable, green, home, trial, meddled, restarts, others>>
      /\ faults' \in 0..MaxFaults
  BY SMTT(30), RolloutBounds DEF UpdateTraffic, memory, history, Fails, TypeOK
<1>2. \/ host' = Idle("ok")
      \/ /\ host'.at = host.at /\ host'.kind = host.kind /\ host'.image = host.image
         /\ host' \in [kind : Kinds, at : Steps, image : Image \cup {"none"},
                       told : {"none", "ok", "error", "refused"}]
  <2>1. \/ host' = IF next = "idle" THEN Idle("ok") ELSE [host EXCEPT !.at = next, !.told = "ok"]
        \/ host' = [host EXCEPT !.told = "refused"]
        \/ host' = [host EXCEPT !.at = host.at, !.told = "error"]
    BY Zenon DEF UpdateTraffic, Fails
  <2> QED
    BY ZenonT(30), <2>1 DEF TypeOK
<1>3. /\ traffic' \in [main : 1..Len(revs), trial : 1..Len(revs), share : 0..99]
      /\ traffic'.share = 0 => traffic'.main = traffic'.trial
      /\ ~meddled => {traffic'.main, traffic'.trial} \subseteq home \cup {trial}
  <2>1. CASE traffic' = traffic
    BY <2>1 DEF TypeOK, OnlyHomeOrTrialServes, Serving
  <2>2. CASE Accepts(main, other, share) /\ traffic' = Split(main, other, share)
    <3>1. Len(revs) \in Nat
      BY RolloutBounds DEF TypeOK, Rev
    <3>2. main \in 1..Len(revs) /\ other \in 1..Len(revs) /\ share \in 0..100
      BY <2>2, <3>1 DEF Accepts
    <3>3. /\ Split(main, other, share) \in
                [main : 1..Len(revs), trial : 1..Len(revs), share : 0..99]
          /\ Split(main, other, share).share = 0 =>
                Split(main, other, share).main = Split(main, other, share).trial
          /\ Split(main, other, share).main \in {main, other}
          /\ Split(main, other, share).trial \in {main, other}
      BY <3>1, <3>2, SplitServes
    <3> QED
      BY <2>2, <3>2, <3>3
  <2>3. traffic' \in {traffic, Split(main, other, share)}
        /\ (traffic' # traffic => Accepts(main, other, share))
    BY DEF UpdateTraffic
  <2> QED
    BY <2>1, <2>2, <2>3
<1>4. TypeOK'
  BY SMTT(30), <1>1, <1>2, <1>3 DEF TypeOK, Idle, Kinds, Steps
<1>5. Begun' /\ MemoryFits' /\ OnlyHomeOrTrialServes'
  BY <1>1, <1>2, <1>3 DEF Begun, MemoryFits, OnlyHomeOrTrialServes, Serving, Idle
<1> QED
  BY <1>4, <1>5

\* A revision that is created, answered or not, while traffic and the drivers' memory stay.
LEMMA RevisionStep ==
    ASSUME RolloutInv, host.at \in {"create_green", "create_canary"},
           CreateGreen \/ CreateCanaryRevision
    PROVE  RolloutInv'
<1> USE DEF RolloutInv
<1>1. UNCHANGED <<traffic, stable, home, meddled, restarts, others>> /\ Len(revs) < MaxRevs
  BY DEF CreateGreen, CreateCanaryRevision, CreateRevision, memory
<1>2. host.image \in Image
  BY DEF Begun
<1>3. CASE /\ revs' = Append(revs, host.image) /\ trial' = Len(revs) + 1 /\ UNCHANGED faults
           /\ \/ /\ host.at = "create_green" /\ green' = Len(revs) + 1 /\ UNCHANGED canary
                 /\ host' = [host EXCEPT !.at = "green_up", !.told = "ok"]
              \/ /\ host.at = "create_canary" /\ canary' = Len(revs) + 1 /\ UNCHANGED green
                 /\ host' = [host EXCEPT !.at = "running", !.told = "ok"]
  <2>1. /\ revs' \in Seq(Image) /\ Len(revs') = Len(revs) + 1 /\ Len(revs) \in Nat \ {0}
        /\ Len(revs') \in Rev
    BY <1>1, <1>2, <1>3, NewRevision
  <2>2. /\ traffic' \in [main : 1..Len(revs'), trial : 1..Len(revs'), share : 0..99]
        /\ traffic'.share = 0 => traffic'.main = traffic'.trial
    BY <1>1, <2>1 DEF TypeOK
  <2>3. host' \in [kind : Kinds, at : Steps, image : Image \cup {"none"},
                   told : {"none", "ok", "error", "refused"}]
    BY <1>3 DEF TypeOK, Steps
  <2>4. TypeOK'
    BY <1>1, <1>3, <2>1, <2>2, <2>3 DEF TypeOK
  <2>5. Begun' /\ MemoryFits'
    BY <1>1, <1>2, <1>3 DEF Begun, MemoryFits, TypeOK
  <2>6. OnlyHomeOrTrialServes'
    <3>1. trial = 0
      BY DEF Begun
    <3>2. traffic.main # 0 /\ traffic.trial # 0
      BY <2>1 DEF TypeOK
    <3> QED
      BY <1>1, <3>1, <3>2 DEF OnlyHomeOrTrialServes, Serving
  <2> QED
    BY <2>4, <2>5, <2>6
<1>4. CASE /\ revs' \in {revs, Append(revs, host.image)} /\ faults < MaxFaults
           /\ faults' = faults + 1 /\ host' = Idle("error") /\ UNCHANGED <<memory, trial>>
  <2>1. /\ revs' \in Seq(Image) /\ Len(revs) \in Nat \ {0} /\ Len(revs') >= Len(revs)
        /\ Len(revs') \in Nat /\ Len(revs') \in Rev
    <3>1. CASE revs' = revs
      BY <3>1, RolloutBounds DEF TypeOK, Rev
    <3>2. CASE revs' = Append(revs, host.image)
      BY <1>1, <1>2, <3>2, NewRevision
    <3> QED
      BY <1>4, <3>1, <3>2
  <2>2. faults' \in 0..MaxFaults
    BY <1>4, RolloutBounds DEF TypeOK
  <2>3. TypeOK'
    BY <1>1, <1>4, <2>1, <2>2 DEF TypeOK, memory, Idle, Kinds, Steps
  <2> QED
    BY <1>1, <1>4, <2>3 DEF Begun, MemoryFits, OnlyHomeOrTrialServes, Serving, Idle
<1> QED
  BY <1>3, <1>4, Zenon DEF CreateGreen, CreateCanaryRevision, CreateRevision

\* A deployment, by a rolling update or by somebody else.
LEMMA DeployStep ==
    ASSUME RolloutInv, Update \/ \E image \in Image : OthersDeploy(image)
    PROVE  RolloutInv'
<1> USE DEF RolloutInv
<1>0. Len(revs) \in Nat \ {0}
  BY RolloutBounds DEF TypeOK, Rev
<1>1. \A image \in Image : Rolled(image) =>
         /\ revs' \in Seq(Image) /\ Len(revs') = Len(revs) + 1 /\ Len(revs') \in Rev
         /\ traffic' \in [main : 1..Len(revs'), trial : 1..Len(revs'), share : 0..99]
         /\ traffic'.share = 0 => traffic'.main = traffic'.trial
         /\ traffic' = traffic \/ (traffic'.main = Len(revs) + 1 /\ traffic'.trial = Len(revs) + 1)
  <2> TAKE image \in Image
  <2> HAVE Rolled(image)
  <2>1. /\ revs' \in Seq(Image) /\ Len(revs') = Len(revs) + 1 /\ Len(revs') \in Rev
    BY NewRevision DEF Rolled
  <2>2. CASE traffic' = traffic
    BY <1>0, <2>1, <2>2 DEF TypeOK
  <2>3. CASE traffic' = Whole(Len(revs) + 1)
    BY <1>0, <2>1, <2>3 DEF Whole
  <2> QED
    BY <2>1, <2>2, <2>3 DEF Rolled
<1>2. CASE Update
  <2>1. /\ UNCHANGED <<canary, stable, green, home, meddled, restarts, others>>
        /\ host' \in {Idle("ok"), Idle("error")} /\ faults' \in 0..MaxFaults
        /\ trial = 0 /\ host.image \in Image
    BY <1>2, RolloutBounds DEF Update, memory, TypeOK, Begun
  <2>2. CASE Rolled(host.image) /\ trial' = Len(revs) + 1
    <3>1. TypeOK'
      BY <1>0, <1>1, <2>1, <2>2 DEF TypeOK, Idle, Kinds, Steps
    <3>2. traffic.main # 0 /\ traffic.trial # 0
      BY <1>0 DEF TypeOK
    <3>3. OnlyHomeOrTrialServes'
      BY <1>1, <2>1, <2>2, <3>2 DEF OnlyHomeOrTrialServes, Serving
    <3> QED
      BY <2>1, <3>1, <3>3 DEF Begun, MemoryFits, Idle
  <2>3. CASE UNCHANGED <<service, trial>>
    BY <2>1, <2>3 DEF TypeOK, service, Idle, Kinds, Steps, Begun, MemoryFits,
                      OnlyHomeOrTrialServes, Serving
  <2> QED
    BY <1>2, <2>2, <2>3 DEF Update, RolledByHost
<1>3. ASSUME NEW image \in Image, OthersDeploy(image)  PROVE RolloutInv'
  <2>1. /\ UNCHANGED <<canary, stable, green, host, home, trial, faults, restarts>>
        /\ meddled' = TRUE /\ others' \in 0..MaxOthers /\ Rolled(image)
    BY <1>3, RolloutBounds DEF OthersDeploy, memory, TypeOK
  <2>2. TypeOK'
    BY <1>0, <1>1, <2>1 DEF TypeOK
  <2> QED
    BY <2>1, <2>2 DEF Begun, MemoryFits, OnlyHomeOrTrialServes
<1> QED
  BY <1>2, <1>3

-----------------------------------------------------------------------------
(* The theorems *)

LEMMA RolloutInvInit == Init => RolloutInv
<1> SUFFICES ASSUME Init  PROVE RolloutInv
  OBVIOUS
<1>0. PICK image \in Image : revs = <<image>>
  BY DEF Init
<1>1. revs \in Seq(Image) /\ Len(revs) = 1 /\ Len(revs) \in Rev
  BY <1>0, RolloutBounds DEF Rev
<1>2. traffic = [main |-> 1, trial |-> 1, share |-> 0]
      /\ host = [kind |-> "none", at |-> "idle", image |-> "none", told |-> "none"]
  BY Zenon DEF Init, Whole, Idle
<1>3. /\ canary = 0 /\ stable = 0 /\ green = 0 /\ home = {1} /\ trial = 0 /\ meddled = FALSE
      /\ faults = 0 /\ restarts = 0 /\ others = 0
  BY Zenon DEF Init
<1>4. TypeOK
  <2>1. /\ traffic \in [main : 1..Len(revs), trial : 1..Len(revs), share : 0..99]
        /\ traffic.share = 0 => traffic.main = traffic.trial
    BY <1>1, <1>2
  <2>2. host \in [kind : Kinds, at : Steps, image : Image \cup {"none"},
                  told : {"none", "ok", "error", "refused"}]
    BY <1>2 DEF Kinds, Steps
  <2>3. /\ canary \in 0..Len(revs) /\ stable \in 0..Len(revs) /\ green \in 0..Len(revs)
        /\ home \subseteq 1..Len(revs) /\ trial \in 0..Len(revs)
        /\ faults \in 0..MaxFaults /\ restarts \in 0..MaxRestarts /\ others \in 0..MaxOthers
    BY <1>1, <1>3, RolloutBounds
  <2>4. meddled \in BOOLEAN
    BY <1>3, Zenon
  <2> QED
    BY <1>1, <2>1, <2>2, <2>3, <2>4, Zenon DEF TypeOK
<1> QED
  BY <1>2, <1>3, <1>4 DEF RolloutInv, Begun, MemoryFits, OnlyHomeOrTrialServes, Serving

LEMMA RolloutInvStep == RolloutInv /\ [Next]_vars => RolloutInv'
<1> SUFFICES ASSUME RolloutInv, [Next]_vars  PROVE RolloutInv'
  OBVIOUS
<1> USE DEF RolloutInv
<1>0. Len(revs) \in Nat \ {0} /\ canary \in 0..Len(revs) /\ stable \in 0..Len(revs)
      /\ green \in 0..Len(revs)
  BY RolloutBounds DEF TypeOK, Rev
<1>1. CASE \E kind \in {"rolling", "bluegreen", "canary"}, image \in Image : Begin(kind, image)
  <2> PICK kind \in {"rolling", "bluegreen", "canary"}, image \in Image : Begin(kind, image)
    BY <1>1
  <2>1. /\ UNCHANGED <<revs, traffic, canary, stable, green, faults, restarts, others>>
        /\ host' = [kind |-> kind, at |-> FirstCall(kind), image |-> image, told |-> "none"]
        /\ home' = Serving
        /\ trial' = 0 /\ meddled' = FALSE
    BY DEF Begin, service, memory
  <2>2. FirstCall(kind) \in {"update", "create_green", "get_stable"}
    BY DEF FirstCall
  <2>3. TypeOK'
    <3>1. host' \in [kind : Kinds, at : Steps, image : Image \cup {"none"},
                     told : {"none", "ok", "error", "refused"}]
      BY <2>1, <2>2 DEF Kinds, Steps
    <3>2. home' \subseteq 1..Len(revs) /\ 0 \in 0..Len(revs)
      BY <1>0, <2>1 DEF TypeOK, Serving
    <3> QED
      BY <2>1, <3>1, <3>2 DEF TypeOK
  <2>4. OnlyHomeOrTrialServes'
    BY <2>1 DEF TypeOK, OnlyHomeOrTrialServes, Serving
  <2> QED
    BY <2>1, <2>2, <2>3, <2>4 DEF Begun, MemoryFits
<1>2. CASE GiveUp
  BY <1>2 DEF GiveUp, service, memory, history, TypeOK, Idle, Kinds, Steps, Begun, MemoryFits,
              OnlyHomeOrTrialServes, Serving
<1>3. CASE Update \/ \E image \in Image : OthersDeploy(image)
  BY <1>3, DeployStep
<1>4. CASE CreateGreen \/ CreateCanaryRevision
  BY <1>4, RevisionStep DEF CreateGreen, CreateCanaryRevision
<1>5. CASE SwitchTraffic
  <2>1. CASE UpdateTraffic(green, green, 0, "idle")
    BY <1>0, <1>5, <2>1, TrafficStep DEF SwitchTraffic, MemoryFits
  <2>2. CASE host' = [host EXCEPT !.told = "refused"]
             /\ UNCHANGED <<service, memory, history, faults, restarts, others>>
    BY <2>2 DEF service, memory, history, TypeOK, Begun, MemoryFits, OnlyHomeOrTrialServes, Serving
  <2> QED
    BY <1>5, <2>1, <2>2 DEF SwitchTraffic
<1>6. CASE CreateCanary
  <2>1. /\ UNCHANGED <<revs, traffic, canary, green, home, trial, meddled, restarts, others>>
        /\ faults' \in 0..MaxFaults /\ trial = 0 /\ host.image \in Image
    BY <1>6, RolloutBounds DEF CreateCanary, service, history, TypeOK, Begun
  <2>2. CASE stable' \in Serving /\ host' = [host EXCEPT !.at = "create_canary"]
    <3>1. stable' \in 1..Len(revs)
      BY <1>0, <2>2 DEF TypeOK, Serving
    <3>2. TypeOK'
      BY <1>0, <2>1, <2>2, <3>1 DEF TypeOK, Steps
    <3>3. ~meddled => stable' \in home
      BY <1>0, <2>1, <2>2, <3>1 DEF OnlyHomeOrTrialServes
    <3> QED
      BY <2>1, <2>2, <3>2, <3>3 DEF TypeOK, Begun, MemoryFits, OnlyHomeOrTrialServes, Serving
  <2>3. CASE host' = Idle("error") /\ UNCHANGED stable
    BY <2>1, <2>3 DEF TypeOK, Idle, Kinds, Steps, Begun, MemoryFits, OnlyHomeOrTrialServes, Serving
  <2> QED
    BY <1>6, <2>2, <2>3 DEF CreateCanary
<1>7. CASE \E percent \in Percent : RoutePercent(percent)
  <2> PICK percent \in Percent : RoutePercent(percent)
    BY <1>7
  <2> QED
    BY <1>0, PercentAssumption, TrafficStep DEF RoutePercent, MemoryFits
<1>8. CASE PromoteCanary
  BY <1>0, <1>8, TrafficStep DEF PromoteCanary, MemoryFits
<1>9. CASE DestroyCanary
  BY <1>0, <1>9, TrafficStep DEF DestroyCanary, MemoryFits
<1>10. CASE Restart
  <2>1. /\ UNCHANGED <<revs, traffic, home, trial, meddled, faults, others>>
        /\ canary' = 0 /\ stable' = 0 /\ green' = 0 /\ restarts' \in 0..MaxRestarts
        /\ host' = Idle("error")
           \/ (host' = [host EXCEPT !.told = "error"] /\ host.at \in {"running", "green_up"})
    BY SMTT(30), <1>10, RolloutBounds DEF Restart, service, history, TypeOK
  <2>2. TypeOK'
    BY <1>0, <2>1 DEF TypeOK, Idle, Kinds, Steps
  <2> QED
    BY <2>1, <2>2 DEF TypeOK, Idle, Begun, MemoryFits, OnlyHomeOrTrialServes, Serving
<1>11. CASE UNCHANGED vars
  BY <1>11 DEF vars, service, memory, history, TypeOK, Begun, MemoryFits, OnlyHomeOrTrialServes,
               Serving
<1> QED
  BY <1>1, <1>2, <1>3, <1>4, <1>5, <1>6, <1>7, <1>8, <1>9, <1>10, <1>11 DEF Next

\* Revisions, traffic, the drivers' memory and the rollout under way stay of their types: traffic
\* goes to revisions that exist, in shares that add up, and no driver names one that does not.
THEOREM RolloutTypes == Spec => []TypeOK
<1>1. RolloutInv => TypeOK
  BY DEF RolloutInv
<1> QED
  BY <1>1, RolloutInvInit, RolloutInvStep, PTL DEF Spec

\* In any rollout of a service nobody else deploys to, requests go to the revisions that served
\* before it and to the rollout's own, whatever calls failed or took effect unanswered and
\* whenever the plugin restarted.
THEOREM TrafficStaysBetween == Spec => []OnlyHomeOrTrialServes
<1>1. RolloutInv => OnlyHomeOrTrialServes
  BY DEF RolloutInv
<1> QED
  BY <1>1, RolloutInvInit, RolloutInvStep, PTL DEF Spec

\* The drivers remember the revisions the rollout is about, or none.
THEOREM MemoryStaysFit == Spec => []MemoryFits
<1>1. RolloutInv => MemoryFits
  BY DEF RolloutInv
<1> QED
  BY <1>1, RolloutInvInit, RolloutInvStep, PTL DEF Spec

\* A rollback that is answered gives all traffic to a revision that served before the canary.
THEOREM RollbacksRestore == Spec => RollbackRestores
<1>1. RolloutInv /\ [Next]_vars =>
        [(DestroyCanary /\ host'.told = "ok" /\ ~meddled)
            => \E rev \in home : traffic' = Whole(rev)]_vars
  <2> SUFFICES ASSUME RolloutInv, DestroyCanary, host'.told = "ok", ~meddled
               PROVE  \E rev \in home : traffic' = Whole(rev)
    OBVIOUS
  <2>1. stable \in {0} \cup home
    BY DEF RolloutInv, MemoryFits, DestroyCanary
  <2>2. host'.told = "ok" => Accepts(stable, stable, 0) /\ traffic' = Split(stable, stable, 0)
    BY DEF DestroyCanary, UpdateTraffic, Fails, RolloutInv, TypeOK
  <2>3. stable \in home /\ traffic' = Whole(stable)
    BY <2>1, <2>2 DEF Accepts, Split
  <2> QED
    BY <2>3
<1> QED
  BY <1>1, RolloutInvInit, RolloutInvStep, PTL DEF Spec, RollbackRestores
=============================================================================
