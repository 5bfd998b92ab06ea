--------------------------- MODULE CloudRunRollout ---------------------------
(***************************************************************************)
(* The three rollout drivers of provider/deploy.go over one Cloud Run      *)
(* service: a rolling update, blue-green, and a canary that traffic is     *)
(* shifted to step by step.  The drivers keep the revisions of a rollout   *)
(* in memory only; the service keeps revisions and traffic.                *)
(*                                                                         *)
(* CloudRunDeployClient has no implementation in the repository: what the  *)
(* service does is what the comments of that interface say.  A host calls  *)
(* the driver of one kind from the creation of a revision to the end of    *)
(* the rollout, one call at a time; a call that fails may have taken       *)
(* effect, the plugin may restart between any two calls of the cloud, and  *)
(* somebody else may deploy to the same service meanwhile.                 *)
(***************************************************************************)
EXTENDS Integers, Sequences

CONSTANTS
    Image,       \* what is deployed
    Percent,     \* the shares a host asks RoutePercent for; any integers
    MaxRevs,     \* bound: revisions of the service
    MaxFaults,   \* bound: calls that fail
    MaxRestarts, \* bound: restarts of the plugin
    MaxOthers    \* bound: deployments by others

ASSUME PercentAssumption == Percent \subseteq Int
ASSUME RolloutBounds ==
    /\ MaxRevs \in Nat \ {0} /\ MaxFaults \in Nat /\ MaxRestarts \in Nat /\ MaxOthers \in Nat

VARIABLES
    revs,      \* the service's revisions: the image of each, oldest first
    traffic,   \* where its requests go: main's share is what trial does not get
    canary,    \* canaryRevision, 0 for ""
    stable,    \* stableRevision
    green,     \* greenRevision
    host,      \* the rollout under way and the next client call of its handler
    home,      \* history: the revisions that served when the rollout began
    trial,     \* history: the revision this rollout was answered
    meddled,   \* history: somebody else has deployed since the rollout began
    faults, restarts, others

service == <<revs, traffic>>
memory == <<canary, stable, green>>
history == <<home, trial, meddled>>
vars == <<service, memory, host, history, faults, restarts, others>>

Rev == 1..MaxRevs
Whole(rev) == [main |-> rev, trial |-> rev, share |-> 0]
Idle(told) == [kind |-> "none", at |-> "idle", image |-> "none", told |-> told]

\* The service runs one revision to begin with.
Init ==
    /\ \E image \in Image : revs = <<image>>
    /\ traffic = Whole(1)
    /\ canary = 0 /\ stable = 0 /\ green = 0
    /\ host = Idle("none")
    /\ home = {1} /\ trial = 0 /\ meddled = FALSE
    /\ faults = 0 /\ restarts = 0 /\ others = 0

(***************************************************************************)
(* The service.                                                            *)
(***************************************************************************)
Split(main, other, share) ==
    CASE share = 0 -> Whole(main)
      [] share = 100 -> Whole(other)
      [] OTHER -> [main |-> main, trial |-> other, share |-> share]
Serving == {traffic.main, traffic.trial}

\* UpdateTraffic takes targets that exist and shares that add up to 100.
Accepts(main, other, share) == main # 0 /\ other # 0 /\ share \in 0..100

\* A call that fails may have taken effect.
Fails(step) == /\ faults < MaxFaults /\ faults' = faults + 1
               /\ host' = [host EXCEPT !.at = step, !.told = "error"]

\* UpdateTraffic, called by a handler of the rollout and followed by step "next".
UpdateTraffic(main, other, share, next) ==
    LET split == Split(main, other, share)
    IN  /\ \/ /\ Accepts(main, other, share) /\ traffic' = split
              /\ host' = IF next = "idle" THEN Idle("ok")
                         ELSE [host EXCEPT !.at = next, !.told = "ok"]
              /\ UNCHANGED faults
           \/ /\ ~Accepts(main, other, share)
              /\ host' = [host EXCEPT !.told = "refused"] /\ UNCHANGED <<traffic, faults>>
           \/ /\ Fails(host.at)
              /\ traffic' \in {traffic} \cup {t \in {split} : Accepts(main, other, share)}
        /\ UNCHANGED <<revs, memory, history, restarts, others>>

\* CreateRevision at 0 percent: the answer is kept, or the host told of a failure.
CreateRevision(keep, next) ==
    /\ Len(revs) < MaxRevs
    /\ \/ /\ revs' = Append(revs, host.image) /\ keep
          /\ trial' = Len(revs) + 1
          /\ host' = [host EXCEPT !.at = next, !.told = "ok"] /\ UNCHANGED faults
       \/ /\ revs' \in {revs, Append(revs, host.image)}
          /\ faults < MaxFaults /\ faults' = faults + 1 /\ host' = Idle("error")
          /\ UNCHANGED <<memory, trial>>
    /\ UNCHANGED <<traffic, home, meddled, restarts, others>>

(***************************************************************************)
(* The host begins a rollout, and ends it by the driver's last call.       *)
(***************************************************************************)
FirstCall(kind) == CASE kind = "canary" -> "get_stable"
                     [] kind = "bluegreen" -> "create_green"
                     [] OTHER -> "update"
Begin(kind, image) ==
    /\ host.at = "idle" /\ Len(revs) < MaxRevs
    /\ host' = [kind |-> kind, at |-> FirstCall(kind), image |-> image, told |-> "none"]
    /\ home' = Serving
    /\ trial' = 0 /\ meddled' = FALSE
    /\ UNCHANGED <<service, memory, faults, restarts, others>>

\* A host whose calls are refused, the revisions being forgotten, gives the rollout up.
GiveUp ==
    /\ host.at \in {"running", "green_up"} /\ host.told = "refused"
    /\ canary = 0 \/ host.kind = "bluegreen"
    /\ host' = Idle("refused")
    /\ UNCHANGED <<service, memory, history, faults, restarts, others>>

(***************************************************************************)
(* CloudRunDeployDriver.  The new revision gets the traffic, or none of it *)
(* where the traffic was assigned to revisions by name.                    *)
(***************************************************************************)
Rolled(image) == /\ Len(revs) < MaxRevs /\ revs' = Append(revs, image)
                 /\ traffic' \in {traffic, Whole(Len(revs) + 1)}
RolledByHost == Rolled(host.image) /\ trial' = Len(revs) + 1
Update ==
    /\ host.at = "update"
    /\ \/ host' = Idle("ok") /\ UNCHANGED faults /\ RolledByHost
       \/ /\ faults < MaxFaults /\ faults' = faults + 1 /\ host' = Idle("error")
          /\ RolledByHost \/ UNCHANGED <<service, trial>>
    /\ UNCHANGED <<memory, home, meddled, restarts, others>>

(***************************************************************************)
(* CloudRunBlueGreenDriver.                                                *)
(***************************************************************************)
CreateGreen ==
    /\ host.at = "create_green"
    /\ CreateRevision(green' = Len(revs) + 1 /\ UNCHANGED <<canary, stable>>, "green_up")

\* DestroyBlue, which follows, does nothing.
SwitchTraffic ==
    /\ host.at = "green_up"
    /\ \/ green # 0 /\ UpdateTraffic(green, green, 0, "idle")
       \/ /\ green = 0 /\ host' = [host EXCEPT !.told = "refused"]
          /\ UNCHANGED <<service, memory, history, faults, restarts, others>>

(***************************************************************************)
(* CloudRunCanaryDriver.                                                   *)
(***************************************************************************)
\* Mutant of CreateCanary: a stable revision that is known is not asked for again.
CreateCanaryOnce ==
    /\ host.at = "get_stable"
    /\ \/ /\ stable' \in (IF stable # 0 THEN {stable} ELSE Serving)
          /\ host' = [host EXCEPT !.at = "create_canary"]
          /\ UNCHANGED faults
       \/ /\ faults < MaxFaults /\ faults' = faults + 1 /\ host' = Idle("error")
          /\ UNCHANGED stable
    /\ UNCHANGED <<service, canary, green, history, restarts, others>>

\* Mutant of CreateCanary: the newest revision is taken for the one that serves.
CreateCanaryLatest ==
    /\ host.at = "get_stable"
    /\ stable' = Len(revs) /\ host' = [host EXCEPT !.at = "create_canary"]
    /\ UNCHANGED <<service, canary, green, history, faults, restarts, others>>

\* Mutant of CreateCanary: the canary is named before it is made.
CreateCanaryEarly ==
    /\ host.at = "get_stable"
    /\ stable' \in Serving /\ canary' = Len(revs) + 1
    /\ host' = [host EXCEPT !.at = "create_canary"]
    /\ UNCHANGED <<service, green, history, faults, restarts, others>>

\* CreateCanary asks for the revision that serves, then creates one.
CreateCanary ==
    /\ host.at = "get_stable"
    /\ \/ /\ stable' \in Serving /\ host' = [host EXCEPT !.at = "create_canary"]
          /\ UNCHANGED faults
       \/ /\ faults < MaxFaults /\ faults' = faults + 1 /\ host' = Idle("error")
          /\ UNCHANGED stable
    /\ UNCHANGED <<service, canary, green, history, restarts, others>>

\* Mutant of CreateCanaryRevision: its failure is not reported.
CreateCanaryRevisionLoose ==
    /\ host.at = "create_canary"
    /\ \/ CreateRevision(canary' = Len(revs) + 1 /\ UNCHANGED <<stable, green>>, "running")
       \/ /\ faults < MaxFaults /\ faults' = faults + 1
          /\ host' = [host EXCEPT !.at = "running", !.told = "ok"]
          /\ UNCHANGED <<service, memory, history, restarts, others>>

CreateCanaryRevision ==
    /\ host.at = "create_canary"
    /\ CreateRevision(canary' = Len(revs) + 1 /\ UNCHANGED <<stable, green>>, "running")

RoutePercent(percent) ==
    /\ host.at = "running"
    /\ UpdateTraffic(stable, canary, percent, "running")

PromoteCanary ==
    /\ host.at = "running"
    /\ UpdateTraffic(canary, canary, 0, "idle")

DestroyCanary ==
    /\ host.at = "running"
    /\ UpdateTraffic(stable, stable, 0, "idle")

(***************************************************************************)
(* The rest of the world.                                                  *)
(***************************************************************************)
\* The plugin restarts: the call under way fails, and what the drivers knew is gone.
Restart ==
    /\ restarts < MaxRestarts /\ restarts' = restarts + 1
    /\ canary' = 0 /\ stable' = 0 /\ green' = 0
    /\ host' = IF host.at \in {"running", "green_up"} THEN [host EXCEPT !.told = "error"]
               ELSE Idle("error")
    /\ UNCHANGED <<service, history, faults, others>>

\* Another pipeline deploys to the service.
OthersDeploy(image) ==
    /\ others < MaxOthers /\ others' = others + 1
    /\ Rolled(image) /\ meddled' = TRUE
    /\ UNCHANGED <<memory, host, home, trial, faults, restarts>>

Next ==
    \/ \E kind \in {"rolling", "bluegreen", "canary"}, image \in Image : Begin(kind, image)
    \/ GiveUp \/ Update \/ CreateGreen \/ SwitchTraffic
    \/ CreateCanary \/ CreateCanaryRevision
    \/ \E percent \in Percent : RoutePercent(percent)
    \/ PromoteCanary \/ DestroyCanary
    \/ Restart
    \/ \E image \in Image : OthersDeploy(image)

Spec == Init /\ [][Next]_vars

(***************************************************************************)
(* Properties.                                                             *)
(***************************************************************************)
Kinds == {"none", "rolling", "bluegreen", "canary"}
Steps == {"idle", "update", "create_green", "green_up", "get_stable", "create_canary", "running"}
TypeOK ==
    /\ revs \in Seq(Image) /\ Len(revs) \in Rev
    /\ traffic \in [main : 1..Len(revs), trial : 1..Len(revs), share : 0..99]
    /\ traffic.share = 0 => traffic.main = traffic.trial
    /\ canary \in 0..Len(revs) /\ stable \in 0..Len(revs) /\ green \in 0..Len(revs)
    /\ host \in [kind : Kinds, at : Steps, image : Image \cup {"none"},
                 told : {"none", "ok", "error", "refused"}]
    /\ home \subseteq 1..Len(revs) /\ trial \in 0..Len(revs) /\ meddled \in BOOLEAN
    /\ faults \in 0..MaxFaults /\ restarts \in 0..MaxRestarts /\ others \in 0..MaxOthers

\* From the beginning of a rollout to the next one, requests go to the revisions that served
\* before it (two, where an earlier rollout was left split) and to the one the rollout was
\* answered, and to no other revision of an earlier rollout, whatever failed, took effect
\* unanswered or was forgotten.  The exception is a service another pipeline deploys to
\* meanwhile.
OnlyHomeOrTrialServes == ~meddled => Serving \subseteq home \cup {trial}

\* DestroyCanary, answered, gives all traffic back to a revision that had some of it before
\* CreateCanary, with the same exception.
RollbackRestores ==
    [][(DestroyCanary /\ host'.told = "ok" /\ ~meddled)
            => \E rev \in home : traffic' = Whole(rev)]_vars

\* What the canary driver remembers is what the rollout needs: a revision that served when
\* it began and the one it made, or nothing at all.
MemoryFits ==
    ~meddled =>
        /\ host.at \in {"create_canary", "running"} => stable \in {0} \cup home
        /\ host.at = "running" => canary \in {0, trial}
        /\ host.at = "green_up" => green \in {0, trial}
=============================================================================
