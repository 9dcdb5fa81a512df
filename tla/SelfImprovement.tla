-------------------------- MODULE SelfImprovement --------------------------
(***************************************************************************)
(* The self-improvement loop (src/src/governance-self-improvement.js), its *)
(* repair jobs (governance-repair-jobs.js, governance-repair-launcher.js)  *)
(* and the model policy scan (governance-model-policy-supervisor.js) over  *)
(* the health monitor.  A timer starts an evaluation whether or not the    *)
(* last one has ended: evaluations overlap at every await, and each goes   *)
(* on with the health it saw and the time it began at.                     *)
(* Times are relative: ages and what is left, moved by Tick.               *)
(***************************************************************************)
EXTENDS HealthMonitor, FiniteSets

CONSTANTS
    Eval,         \* evaluations that may overlap
    MaxJobIds,    \* bound on the names of jobs; those out of use are used again
    MaxJobs,      \* MAX_REPAIR_JOBS
    MaxProposals, \* proposals kept
    ProposalTtl,  \* ttlMs of a proposal
    StaleAfter,   \* REPAIR_JOB_STALE_MS
    ScanInterval, \* DEFAULT_MODEL_POLICY_SCAN_INTERVAL_MS
    MaxCandidates,\* bound on the stronger models a catalog lists
    MaxLag        \* bound on the time an evaluation takes

ASSUME LoopAssumption ==
    /\ {MaxJobIds, MaxJobs, MaxProposals, ProposalTtl, StaleAfter, ScanInterval}
          \subseteq Nat \ {0}
    /\ {MaxCandidates, MaxLag} \subseteq Nat

VARIABLES
    active,    \* governance is active and this replica the primary
    proposals, \* selfHealingProposals: type, grade and age
    jobs,      \* repairJobs, oldest first
    evals,     \* the evaluations under way
    stray,     \* a probe timed out and its end is still to be recorded
    scanAge    \* time since lastScanAt; Oldest before the first scan

loopVars == <<active, proposals, jobs, evals, stray, scanAge>>
vars == <<monitor, faults, active, proposals, jobs,
          evals, stray, scanAge>>

Idle == [at |-> "idle"]
JobId == 1..MaxJobIds

(* The time since the last scan is told apart up to here. *)
Oldest == ScanInterval + MaxLag

Init ==
    /\ MonitorInit
    /\ active = TRUE
    /\ proposals = <<>>
    /\ jobs = <<>>
    /\ evals = [e \in Eval |-> Idle]
    /\ stray = FALSE
    /\ scanAge = Oldest

JobIds == {jobs[i].id : i \in 1..Len(jobs)}
Queued == UNION {IF e.at \in {"launching", "finishing"} THEN e.queue ELSE {} :
                    e \in {evals[x] : x \in Eval}}
NextId ==
    LET unused == JobId \ (JobIds \union Queued)
    IN  {i \in unused : \A k \in unused : i <= k}

WithStatus(id, status) ==
    [i \in 1..Len(jobs) |->
        IF jobs[i].id = id THEN [jobs[i] EXCEPT !.status = status] ELSE jobs[i]]

(* A job is "unanswered" when its worker was started and the answer lost:  *)
(* in the code its status is still requested.                              *)
NotRunning == {"requested", "unanswered"}

(* Mutant: only the newest job is looked at. *)
PendingNewest(list) ==
    {list[i].id : i \in {k \in 1..Len(list) : k = Len(list) /\ list[k].status \in NotRunning}}

(* getPendingRepairJobsForLaunch *)
Pending(list) ==
    {list[i].id : i \in {k \in 1..Len(list) : list[k].status \in NotRunning}}

(* The one of the queue to launch next.  The queue was taken in the order  *)
(* of the list, which since then lost its oldest jobs at most: one that    *)
(* was evicted meanwhile comes before those still in the list.             *)
NextInLine(queue) ==
    IF queue \subseteq JobIds
    THEN {jobs[i].id : i \in {k \in 1..Len(jobs) :
             jobs[k].id \in queue /\ \A l \in 1..(k - 1) : jobs[l].id \notin queue}}
    ELSE queue \ JobIds

(* getRepairJobManifest: every job of the list counts as open. *)
SomeStale == \E i \in 1..Len(jobs) : jobs[i].age >= StaleAfter

(* Mutant: one too many is kept. *)
NewestAndOne(seq, n) == SubSeq(seq, (IF Len(seq) > n THEN Len(seq) - n ELSE 1), Len(seq))

Newest(seq, n) == SubSeq(seq, (IF Len(seq) > n THEN Len(seq) - n ELSE 0) + 1, Len(seq))

(* Mutant: an expired proposal still counts. *)
HasLiveEver(type, grade, lag) ==
    \E i \in 1..Len(proposals) :
        proposals[i].type = type /\ proposals[i].grade = grade

(* hasLiveEquivalentProposal, at the time the evaluation began. *)
HasLive(type, grade, lag) ==
    \E i \in 1..Len(proposals) :
        /\ proposals[i].type = type
        /\ proposals[i].grade = grade
        /\ proposals[i].age < ProposalTtl + lag

(***************************************************************************)
(* evaluateSelfImprovementOnce, up to its first await: the stale jobs are  *)
(* counted, the health is looked at, and the jobs not launched yet are     *)
(* listed for launch.                                                      *)
(***************************************************************************)
EvaluateSkipped(e) ==
    /\ evals[e] = Idle
    /\ ~active
    /\ monitor.self > 0
    /\ monitor' = SelfRecorded(monitor, FALSE)
    /\ UNCHANGED <<faults>>
    /\ UNCHANGED loopVars

Evaluate(e) ==
    /\ evals[e] = Idle
    /\ active
    /\ monitor' = StaleRecorded(monitor, SomeStale)
    /\ evals' = [evals EXCEPT ![e] =
          [at |-> "launching", queue |-> Pending(jobs), any |-> FALSE,
           trigger |-> Trigger', grade |-> Grade', lag |-> 0]]
    /\ UNCHANGED <<faults, active, proposals, jobs,
                   stray, scanAge>>

(***************************************************************************)
(* launchPendingRepairJobs: the jobs of the list, one after the other;     *)
(* "launching" before the health is judged, "finishing" after a repair.    *)
(***************************************************************************)
(* The worker is started and the job marked running. *)
Launch(e) ==
    /\ evals[e].at \in {"launching", "finishing"}
    /\ \E id \in NextInLine(evals[e].queue) \intersect JobIds :
          /\ jobs' = WithStatus(id, "running")
          /\ evals' = [evals EXCEPT ![e].queue = @ \ {id}, ![e].any = TRUE]
    /\ UNCHANGED <<monitor, faults, active, proposals, stray, scanAge>>

(* The launching is over: the health of before, or taken again when jobs   *)
(* were launched, decides; the launching after a repair ends the evaluation.*)
Launched(e, again) ==
    evals' = [evals EXCEPT ![e] =
        IF @.at = "finishing" THEN Idle
        ELSE [at |-> "deciding", lag |-> @.lag,
              trigger |-> IF again THEN Trigger' ELSE @.trigger,
              grade |-> IF again THEN Grade' ELSE @.grade]]

(* A repair's evaluation is recorded when its launching is over. *)
Finished(e, m) == IF evals[e].at = "finishing" THEN SelfRecorded(m, FALSE) ELSE m

(* The launch fails, or the worker is started and the answer lost, or the  *)
(* job was evicted meanwhile: the jobs behind it are not tried.            *)
LaunchFails(e) ==
    /\ evals[e].at \in {"launching", "finishing"}
    /\ \E id \in NextInLine(evals[e].queue) :
          \/ Fault /\ UNCHANGED jobs
          \/ Fault /\ jobs' = [i \in 1..Len(jobs) |->
                IF jobs[i].id = id /\ jobs[i].status = "requested"
                THEN [jobs[i] EXCEPT !.status = "unanswered"] ELSE jobs[i]]
          \/ id \notin JobIds /\ UNCHANGED <<jobs, faults>>
    /\ monitor' = Finished(e, LaunchRecorded(monitor, TRUE))
    /\ Launched(e, FALSE)
    /\ UNCHANGED <<active, proposals, stray, scanAge>>

LaunchesDone(e) ==
    /\ evals[e].at \in {"launching", "finishing"}
    /\ evals[e].queue = {}
    /\ monitor' = Finished(e, IF evals[e].any THEN LaunchRecorded(monitor, FALSE)
                              ELSE monitor)
    /\ Launched(e, evals[e].any)
    /\ UNCHANGED <<faults, active, proposals, jobs, stray, scanAge>>

(***************************************************************************)
(* createSelfHealingRepair: unless an equivalent proposal lives, a         *)
(* proposal is issued, the job for it created, and the jobs not launched   *)
(* are listed again.  (It awaits a signature made in this process: nothing *)
(* else runs in between.)                                                  *)
(***************************************************************************)
Repair(e, type, grade) ==
    IF HasLive(type, grade, evals[e].lag)
    THEN /\ monitor' = SelfRecorded(monitor, FALSE)
         /\ evals' = [evals EXCEPT ![e] = Idle]
         /\ UNCHANGED <<proposals, jobs>>
    ELSE IF ~active
    THEN /\ monitor' = SelfRecorded(monitor, TRUE)
         /\ evals' = [evals EXCEPT ![e] = Idle]
         /\ UNCHANGED <<proposals, jobs>>
    ELSE \E id \in NextId :
         /\ proposals' = Newest(Append(proposals,
               [type |-> type, grade |-> grade, age |-> evals[e].lag]), MaxProposals)
         /\ jobs' = Newest(Append(jobs,
               [id |-> id, status |-> "requested",
                age |-> AtMost(evals[e].lag, StaleAfter)]), MaxJobs)
         /\ evals' = [evals EXCEPT ![e] =
               [at |-> "finishing", queue |-> Pending(jobs'), any |-> TRUE,
                lag |-> evals[e].lag]]
         /\ UNCHANGED monitor

RepairTrigger(e) ==
    /\ evals[e].at = "deciding"
    /\ \E type \in evals[e].trigger : Repair(e, type, evals[e].grade)
    /\ UNCHANGED <<faults, active, stray, scanAge>>

(***************************************************************************)
(* evaluateModelPolicyUpgradeOpportunity, when nothing is unresolved.      *)
(***************************************************************************)
(* shouldScan, by the time the evaluation began. *)
ScanDue(lag) == scanAge >= ScanInterval + lag

ScanNotDue(e) ==
    /\ evals[e].at = "deciding"
    /\ evals[e].trigger = {}
    /\ ~active \/ ~ScanDue(evals[e].lag)
    /\ monitor' = SelfRecorded(monitor, FALSE)
    /\ evals' = [evals EXCEPT ![e] = Idle]
    /\ UNCHANGED <<faults, active, proposals, jobs,
                   stray, scanAge>>

(* The catalog answers with so many stronger models. *)
ScanCatalog(e) ==
    /\ evals[e].at = "deciding"
    /\ evals[e].trigger = {}
    /\ active
    /\ ScanDue(evals[e].lag)
    /\ \E n \in 0..MaxCandidates :
          evals' = [evals EXCEPT ![e] = [at |-> "probing", more |-> n, lag |-> @.lag]]
    /\ UNCHANGED <<monitor, faults, active, proposals, jobs,
                   stray, scanAge>>

(* It does not: lastScanAt stays, and the evaluation fails. *)
CatalogFails(e) ==
    /\ evals[e].at = "deciding"
    /\ evals[e].trigger = {}
    /\ active
    /\ ScanDue(evals[e].lag)
    /\ Fault
    /\ monitor' = SelfRecorded(monitor, TRUE)
    /\ evals' = [evals EXCEPT ![e] = Idle]
    /\ UNCHANGED <<active, proposals, jobs, stray,
                   scanAge>>

(* The next stronger model is asked. *)
ProbeBegins(e) ==
    /\ evals[e].at = "probing"
    /\ evals[e].more > 0
    /\ ~CircuitOpen
    /\ evals' = [evals EXCEPT ![e].at = "asked"]
    /\ UNCHANGED <<monitor, faults, active, proposals, jobs,
                   stray, scanAge>>

(* A probe that the breaker refuses is a failed result, recorded nowhere.  *)
ProbeRefused(e) ==
    /\ evals[e].at = "probing"
    /\ evals[e].more > 0
    /\ CircuitOpen
    /\ evals' = [evals EXCEPT ![e].more = @ - 1]
    /\ UNCHANGED <<monitor, faults, active, proposals, jobs,
                   stray, scanAge>>

ProbeFails(e) ==
    /\ evals[e].at = "asked"
    /\ Fault
    /\ \E retried \in BOOLEAN :
          monitor' = ProbeRecorded(VertexFails(monitor, retried), FALSE)
    /\ evals' = [evals EXCEPT ![e].at = "probing", ![e].more = @ - 1]
    /\ UNCHANGED <<active, proposals, jobs, stray, scanAge>>

(* withTimeout gives the probe up; its call goes on. *)
ProbeTimesOut(e) ==
    /\ evals[e].at = "asked"
    /\ ~stray
    /\ Fault
    /\ stray' = TRUE
    /\ evals' = [evals EXCEPT ![e].at = "probing", ![e].more = @ - 1]
    /\ UNCHANGED <<monitor, active, proposals, jobs,
                   scanAge>>

StrayEnds ==
    /\ stray
    /\ stray' = FALSE
    /\ \/ monitor' = ProbeRecorded(VertexSucceeds(monitor), TRUE)
       \/ \E retried \in BOOLEAN :
             monitor' = ProbeRecorded(VertexFails(monitor, retried), FALSE)
    /\ UNCHANGED <<faults, active, proposals, jobs, evals, scanAge>>

(* Mutant: only a scan that selected a model is noted. *)
ScanFindsNoneUnnoted(e) ==
    /\ evals[e].at = "probing"
    /\ evals[e].more = 0
    /\ monitor' = SelfRecorded(monitor, FALSE)
    /\ evals' = [evals EXCEPT ![e] = Idle]
    /\ UNCHANGED <<faults, active, proposals, jobs, stray, scanAge>>

(* No candidate passed: the scan is over until the next interval. *)
ScanFindsNone(e) ==
    /\ evals[e].at = "probing"
    /\ evals[e].more = 0
    /\ scanAge' = evals[e].lag
    /\ monitor' = SelfRecorded(monitor, FALSE)
    /\ evals' = [evals EXCEPT ![e] = Idle]
    /\ UNCHANGED <<faults, active, proposals, jobs,
                   stray>>

(* A candidate passes the probe: an upgrade is proposed. *)
ProbePasses(e) ==
    /\ evals[e].at = "asked"
    /\ evals' = [evals EXCEPT ![e] =
          [at |-> "deciding", lag |-> @.lag, trigger |-> {"upgrade"},
           grade |-> <<"low", evals[e].more>>]]
    /\ monitor' = ProbeRecorded(VertexSucceeds(monitor), TRUE)
    /\ scanAge' = evals[e].lag
    /\ UNCHANGED <<faults, active, proposals, jobs, stray>>

(***************************************************************************)
(* A worker reports to its job with the token it was started with: an      *)
(* investigation, an artifact or a candidate, in whatever state the job    *)
(* is; a report to an evicted job is refused.                              *)
(***************************************************************************)
WorkerReports(id) ==
    /\ \E i \in 1..Len(jobs) : jobs[i].id = id /\ jobs[i].status # "requested"
    /\ jobs' = WithStatus(id, "reported")
    /\ UNCHANGED <<monitor, faults, active, proposals,
                   evals, stray, scanAge>>

(* A handoff begins or is given up, or ends. *)
StatusChanges ==
    /\ Fault
    /\ active' = ~active
    /\ UNCHANGED <<monitor, proposals, jobs, evals,
                   stray, scanAge>>

Tick ==
    /\ \A e \in Eval : evals[e] # Idle => evals[e].lag < MaxLag
    /\ MonitorTick
    /\ proposals' = [i \in 1..Len(proposals) |->
          [proposals[i] EXCEPT !.age = AtMost(@ + 1, ProposalTtl + MaxLag)]]
    /\ jobs' = [i \in 1..Len(jobs) |->
          [jobs[i] EXCEPT !.age = AtMost(@ + 1, StaleAfter)]]
    /\ evals' = [e \in Eval |->
          IF evals[e] = Idle THEN Idle
          ELSE [evals[e] EXCEPT !.lag = @ + 1]]
    /\ scanAge' = AtMost(scanAge + 1, Oldest)
    /\ UNCHANGED <<faults, active, stray>>

LaunchStep(e) == Launch(e) \/ LaunchFails(e) \/ LaunchesDone(e)
ScanStep(e) ==
    \/ ScanNotDue(e) \/ ScanCatalog(e) \/ CatalogFails(e)
    \/ ProbeBegins(e) \/ ProbeRefused(e) \/ ProbeFails(e) \/ ProbeTimesOut(e)
    \/ ProbePasses(e) \/ ScanFindsNone(e)

Next ==
    \/ MonitorStep /\ UNCHANGED loopVars
    \/ \E e \in Eval : EvaluateSkipped(e) \/ Evaluate(e) \/ LaunchStep(e)
                       \/ RepairTrigger(e) \/ ScanStep(e)
    \/ \E id \in JobId : WorkerReports(id)
    \/ StrayEnds \/ StatusChanges \/ Tick

Spec == Init /\ [][Next]_vars

(* The interval timer starts evaluations for ever, every await of one ends *)
(* (a probe's by its timeout), and time passes.                            *)
FairSpec ==
    /\ Spec
    /\ \A e \in Eval : WF_vars(Evaluate(e))
                       /\ WF_vars(LaunchStep(e))
                       /\ WF_vars(RepairTrigger(e))
                       /\ WF_vars(ScanStep(e))
    /\ WF_vars(Tick)

-----------------------------------------------------------------------------
(* The values of the state: lists within their limits, and the job ids of  *)
(* the list are distinct.                                                  *)
TypeOK ==
    /\ monitor \in [fails : 0..Streak, openFor : 0..OpenFor,
                    exhausted : BOOLEAN, probe : BOOLEAN, self : 0..SelfLimit,
                    launch : BOOLEAN, stale : BOOLEAN,
                    reported : SUBSET Reportable]
    /\ stray \in BOOLEAN
    /\ faults \in 0..MaxFaults
    /\ active \in BOOLEAN
    /\ Len(proposals) <= MaxProposals
    /\ \A i \in 1..Len(proposals) : proposals[i].age \in 0..(ProposalTtl + MaxLag)
    /\ Len(jobs) <= MaxJobs
    /\ Cardinality(JobIds) = Len(jobs)
    /\ \A e \in Eval : evals[e].at \in
          {"idle", "launching", "finishing", "deciding", "probing", "asked"}
    /\ scanAge \in 0..Oldest

(* No job is evicted before its worker was started: every evaluation and   *)
(* every repair tries all the jobs not launched yet, so an outage of fewer *)
(* failures than twice as many as the list holds jobs neither strands a    *)
(* job behind those of later proposals nor lets them push it out           *)
(* (launchPendingRepairJobs, createRepairJobForProposal).  Evaluations     *)
(* that overlap may push a job out sooner.                                 *)
EvictedWereLaunched ==
    [][\A i \in 1..Len(jobs) :
          jobs[i].id \in JobIds' \/ jobs[i].status \notin NotRunning]_vars

(* What stays unresolved is answered: again and again governance is not    *)
(* active, or nothing is unresolved, or a live proposal is about the first *)
(* unresolved surface, also after earlier ones for it expired.             *)
ProblemsAnswered ==
    []<>(\/ ~active
         \/ Trigger = {}
         \/ \E i \in 1..Len(proposals) :
                proposals[i].type \in Trigger /\ proposals[i].age < ProposalTtl)

(* A scan for stronger models that is due is not put off for ever while    *)
(* nothing is unresolved, whatever became of the probes of earlier ones.   *)
ScansGoOn ==
    []<>(~active \/ Trigger # {} \/ scanAge < ScanInterval)
=============================================================================
