------------------------------ MODULE JobRunner ------------------------------
(***************************************************************************)
(* RunJob and JobStatus of provider/runner.go on the provider that         *)
(* Initialize sets up.  RunJob makes a Cloud Run job under a name with the *)
(* time in it, runs it and answers a handle with the execution's name; a   *)
(* call that fails may leave the job, or an execution of it, behind.       *)
(* JobStatus reads the execution and makes one word of its counters.       *)
(***************************************************************************)
EXTENDS ProviderLifecycle, Sequences

CONSTANTS
    Caller,     \* concurrent callers of the RPCs
    Command,    \* image and run_command of a job spec
    Blank,      \* a spec without one of them
    MaxCalls    \* bound: RunJob calls that reach the cloud

ASSUME RunnerAssumption == Blank \notin Command /\ MaxCalls \in Nat

VARIABLES
    rpc,       \* the RunJob of each caller
    clock,     \* time.Now(): goroutines may read the same time
    jobs,      \* the jobs in the cloud; no: the call whose image and command they hold
    execs,     \* their executions, oldest first
    handles,   \* the handles RunJob answered, oldest first; no: which call (history)
    reported,  \* history: the end JobStatus last answered, of each handle
    calls

cloud == <<jobs, execs>>
answers == <<handles, reported>>
vars == <<lifecycle, faults, rpc, clock, cloud, answers, calls>>

Idle == [at |-> "idle", no |-> 0, stamp |-> 0, parent |-> None, exec |-> 0]

Init ==
    /\ LifecycleInit
    /\ rpc = [c \in Caller |-> Idle]
    /\ clock = 0 /\ jobs = {} /\ execs = <<>>
    /\ handles = <<>> /\ reported = <<>> /\ calls = 0

(***************************************************************************)
(* Executions have one task.  The service counts it as running, succeeded, *)
(* failed or (here: none of these) cancelled, and sets the completion time.*)
(***************************************************************************)
Created(job, no) == [job |-> job, no |-> no, running |-> 0, succeeded |-> 0, failed |-> 0,
                     completed |-> FALSE]

\* Mutants of ExecutionState: completed is taken for succeeded; the task count is exceeded.
ExecutionStateHasty(e, reconciling) ==
    CASE e.failed > 0 -> "failed"
      [] e.failed = 0 /\ e.completed -> "succeeded"
      [] e.failed = 0 /\ ~e.completed /\ (e.running > 0 \/ reconciling) -> "running"
      [] OTHER -> "pending"
ExecutionStateExceeds(e, reconciling) ==
    IF e.failed > 0 THEN "failed"
    ELSE IF e.completed /\ e.succeeded > 1 THEN "succeeded"
    ELSE IF e.running > 0 \/ reconciling THEN "running"
    ELSE "pending"

\* A cancelled execution is "pending" for ever.
ExecutionState(e, reconciling) ==
    IF e.failed > 0 THEN "failed"
    ELSE IF e.completed /\ e.succeeded >= 1 THEN "succeeded"
    ELSE IF e.running > 0 \/ reconciling THEN "running"
    ELSE "pending"

Starts(i) == /\ execs[i].running = 0 /\ execs[i].succeeded = 0 /\ execs[i].failed = 0
             /\ ~execs[i].completed /\ execs' = [execs EXCEPT ![i].running = 1]
Succeeds(i) == /\ execs[i].running = 1
               /\ execs' = [execs EXCEPT ![i].running = 0, ![i].succeeded = 1]
FailsTask(i) == /\ execs[i].running = 1
                /\ execs' = [execs EXCEPT ![i].running = 0, ![i].failed = 1]
Completes(i) == /\ execs[i].succeeded + execs[i].failed = 1 /\ ~execs[i].completed
                /\ execs' = [execs EXCEPT ![i].completed = TRUE]
Cancels(i) == /\ execs[i].succeeded + execs[i].failed = 0 /\ ~execs[i].completed
              /\ execs' = [execs EXCEPT ![i].running = 0, ![i].completed = TRUE]

(***************************************************************************)
(* RunJob.                                                                 *)
(***************************************************************************)
HostInitializes(s, account) ==
    Initialize(s, account) /\ UNCHANGED <<rpc, clock, cloud, answers, calls>>
GoesOnInitializing(s) == InitializeStep(s) /\ UNCHANGED <<rpc, clock, cloud, answers, calls>>

\* A death ends every call; a host keeps the handles it was given.
Dies ==
    /\ Restarted /\ rpc' = [c \in Caller |-> Idle]
    /\ UNCHANGED <<clock, cloud, answers, calls>>

Step(c, step) == [rpc EXCEPT ![c].at = step]
Ends(c) == [rpc EXCEPT ![c] = Idle]

\* Mutant of RunJob: a provider that is not initialized is not noticed.
RunJobUnready(c, command) ==
    /\ rpc[c].at = "idle" /\ command # Blank /\ calls < MaxCalls /\ calls' = calls + 1
    /\ clock' \in {clock, clock + 1}
    /\ rpc' = [rpc EXCEPT ![c] = [at |-> "create", no |-> calls + 1, stamp |-> clock',
                                  parent |-> project, exec |-> 0]]
    /\ UNCHANGED <<lifecycle, cloud, answers, faults>>

RunJob(c, command) ==
    /\ rpc[c].at = "idle"
    /\ \/ /\ runner = None \/ project = None \/ command = Blank
          /\ UNCHANGED <<rpc, clock, calls>>
       \/ /\ runner # None /\ project # None /\ command # Blank
          /\ calls < MaxCalls /\ calls' = calls + 1
          /\ clock' \in {clock, clock + 1}
          /\ rpc' = [rpc EXCEPT ![c] = [at |-> "create", no |-> calls + 1, stamp |-> clock',
                                        parent |-> project, exec |-> 0]]
    /\ UNCHANGED <<lifecycle, cloud, answers, faults>>

Asked(c) == [parent |-> rpc[c].parent, stamp |-> rpc[c].stamp, no |-> rpc[c].no,
             account |-> runner]
Taken(c) == \E j \in jobs : j.parent = rpc[c].parent /\ j.stamp = rpc[c].stamp

\* Mutant of CreateJob: a job of that name counts as the one to create.
CreateJobAdopts(c) ==
    /\ rpc[c].at = "create"
    /\ jobs' = (IF Taken(c) THEN jobs ELSE jobs \cup {Asked(c)})
    /\ rpc' = Step(c, "run") /\ UNCHANGED faults
    /\ UNCHANGED <<lifecycle, clock, execs, answers, calls>>

CreateJob(c) ==
    /\ rpc[c].at = "create"
    /\ \/ ~Taken(c) /\ jobs' = jobs \cup {Asked(c)} /\ rpc' = Step(c, "run") /\ UNCHANGED faults
       \/ Taken(c) /\ rpc' = Ends(c) /\ UNCHANGED <<jobs, faults>>
       \/ /\ Fault /\ rpc' = Ends(c)
          /\ (jobs' = jobs) \/ (~Taken(c) /\ jobs' = jobs \cup {Asked(c)})
    /\ UNCHANGED <<lifecycle, clock, execs, answers, calls>>

\* The job of that name is run, whoever made it, and RunJob waits for an answer.
RunCreated(c) ==
    /\ rpc[c].at = "run"
    /\ LET job == CHOOSE j \in jobs : j.parent = rpc[c].parent /\ j.stamp = rpc[c].stamp
           started == Append(execs, Created(job, rpc[c].no))
       IN  \/ /\ execs' = started /\ UNCHANGED faults
              /\ rpc' = [rpc EXCEPT ![c].at = "answer", ![c].exec = Len(started)]
           \/ Fault /\ execs' \in {execs, started} /\ rpc' = Ends(c)
    /\ UNCHANGED <<lifecycle, clock, jobs, answers, calls>>

AnswerRun(c) ==
    /\ rpc[c].at = "answer"
    /\ \/ /\ handles' = Append(handles, [exec |-> rpc[c].exec, no |-> rpc[c].no])
          /\ reported' = Append(reported, "none")
          /\ rpc' = Ends(c) /\ UNCHANGED faults
       \/ Fault /\ rpc' = Ends(c) /\ UNCHANGED answers
    /\ UNCHANGED <<lifecycle, clock, cloud, calls>>

(***************************************************************************)
(* JobStatus, by a handle: one read.  (Another account's client is refused *)
(* by the cloud, and the host keeps the answer it has.)                    *)
(***************************************************************************)
JobStatus(h) ==
    /\ LET e == execs[handles[h].exec]
       IN  /\ runner = e.job.account
           /\ \E reconciling \in {FALSE, ~e.completed} :
                 LET word == ExecutionState(e, reconciling)
                 IN  reported' = [reported EXCEPT ![h] =
                                     IF word \in {"succeeded", "failed"} THEN word ELSE @]
    /\ UNCHANGED <<lifecycle, rpc, clock, cloud, handles, calls, faults>>

Executes(i) == Starts(i) \/ Succeeds(i) \/ FailsTask(i) \/ Completes(i) \/ Cancels(i)
Cloud(i) == Executes(i) /\ UNCHANGED <<lifecycle, rpc, clock, jobs, answers, calls, faults>>

Next ==
    \/ \E s \in Setter :
          \/ \E account \in Account \cup {NoProject} : HostInitializes(s, account)
          \/ GoesOnInitializing(s)
    \/ Dies
    \/ \E c \in Caller :
          \/ \E command \in Command \cup {Blank} : RunJob(c, command)
          \/ CreateJob(c) \/ RunCreated(c) \/ AnswerRun(c)
    \/ \E h \in DOMAIN handles : JobStatus(h)
    \/ \E i \in DOMAIN execs : Cloud(i)

Spec == Init /\ [][Next]_vars

\* Handlers go on, executions end, and a host polls the handles it was given.
FairSpec ==
    /\ Spec
    /\ \A s \in Setter : WF_vars(GoesOnInitializing(s))
    /\ \A c \in Caller : WF_vars(CreateJob(c) \/ RunCreated(c) \/ AnswerRun(c))
    /\ \A h \in 1..MaxCalls : WF_vars(h \in DOMAIN handles /\ JobStatus(h))
    /\ \A i \in 1..MaxCalls : WF_vars(i \in DOMAIN execs /\ Cloud(i))

(***************************************************************************)
(* Properties.                                                             *)
(***************************************************************************)
TypeOK ==
    /\ LifecycleTypeOK
    /\ \A c \in Caller :
          /\ rpc[c].at \in {"idle", "create", "run", "answer"} /\ rpc[c].no \in 0..MaxCalls
          /\ rpc[c].exec \in 0..Len(execs)
          /\ rpc[c].at # "idle" => rpc[c].parent \in Account
          /\ rpc[c].at = "answer" => rpc[c].exec \in DOMAIN execs
    /\ \A j \in jobs : j.parent \in Account /\ j.no \in 1..MaxCalls /\ j.account \in Account
    /\ \A i \in DOMAIN execs : execs[i].job \in jobs
    /\ Len(handles) = Len(reported) /\ Len(execs) <= calls /\ calls \in 0..MaxCalls

\* A handle leads to an execution its own call asked for, of the job with its own command,
\* and no two handles lead to one, though job names collide, answers are lost, the provider's
\* fields change and its process dies.
HandleIsOwn ==
    \A h \in DOMAIN handles :
        LET e == execs[handles[h].exec]
        IN  /\ e.no = handles[h].no /\ e.job.no = handles[h].no
            /\ \A g \in DOMAIN handles : handles[g].exec = handles[h].exec => g = h

\* What JobStatus reported of the end of an execution is how it ended: "succeeded" only when
\* its task did and the execution is complete, "failed" only when the task failed.
ReportsAreTrue ==
    \A h \in DOMAIN handles :
        LET e == execs[handles[h].exec]
        IN  /\ reported[h] = "succeeded" => e.succeeded = 1 /\ e.completed
            /\ reported[h] = "failed" => e.failed = 1

Ended(h) == /\ h \in DOMAIN handles
            /\ execs[handles[h].exec].succeeded + execs[handles[h].exec].failed = 1
Learnt(h) == /\ h \in DOMAIN handles
             /\ \/ reported[h] \in {"succeeded", "failed"}
                \/ runner # execs[handles[h].exec].job.account

\* A host that polls learns that an execution succeeded or failed, unless the provider works
\* for another account by then, or died and was not initialized again.  (Of a cancelled one it
\* never learns: it stays "pending".)
EndIsReported == \A h \in 1..MaxCalls : Ended(h) ~> Learnt(h)
=============================================================================
