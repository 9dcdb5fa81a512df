----------------------- MODULE SelfImprovementProofs -----------------------
(***************************************************************************)
(* The lists of the self-improvement loop stay within their limits, and    *)
(* the names of its jobs distinct, for every number of evaluations that    *)
(* overlap and whatever the limits and times are; and with one evaluation  *)
(* at a time an outage evicts no job whose worker was not started.         *)
(***************************************************************************)
EXTENDS SelfImprovement, FiniteSetTheorems, SequenceTheorems, TLAPS

SurfaceName == {Surfaces[i] : i \in 1..Len(Surfaces)} \union {"upgrade"}
GradeName ==
    ({"critical", "warning"} \X {"warning", "low"}) \union ({"low"} \X (0..MaxCandidates))

Monitor ==
    [fails : 0..Streak, openFor : 0..OpenFor, exhausted : BOOLEAN, probe : BOOLEAN,
     self : 0..SelfLimit, launch : BOOLEAN, stale : BOOLEAN,
     reported : SUBSET Reportable]
Proposal == [type : SurfaceName, grade : GradeName, age : 0..(ProposalTtl + MaxLag)]
Job == [id : JobId, status : NotRunning \union {"running", "reported"},
        age : 0..StaleAfter]

(* What an evaluation holds at each of its awaits;                          *)
Launching ==
    [at : {"launching"}, queue : SUBSET JobId, any : BOOLEAN,
     trigger : SUBSET SurfaceName, grade : GradeName, lag : 0..MaxLag]
Finishing ==
    [at : {"finishing"}, queue : SUBSET JobId, any : BOOLEAN, lag : 0..MaxLag]
Deciding ==
    [at : {"deciding"}, trigger : SUBSET SurfaceName, grade : GradeName, lag : 0..MaxLag]
Probing == [at : {"probing"}, more : 0..MaxCandidates, lag : 0..MaxLag]
Asked == [at : {"asked"}, more : 1..MaxCandidates, lag : 0..MaxLag]

EvalSound(q) ==
    \/ q = Idle
    \/ q \in Launching \union Finishing \union Deciding \union Probing \union Asked

Distinct(list) == \A i, j \in 1..Len(list) : list[i].id = list[j].id => i = j

MonitorSound ==
    /\ monitor \in Monitor
    /\ faults \in 0..MaxFaults

ListsSound ==
    /\ proposals \in Seq(Proposal) /\ Len(proposals) <= MaxProposals
    /\ jobs \in Seq(Job) /\ Len(jobs) <= MaxJobs /\ Distinct(jobs)

EvalsSound ==
    /\ evals \in [Eval -> {evals[e] : e \in Eval}]
    /\ \A e \in Eval : EvalSound(evals[e])

ScanSound ==
    /\ active \in BOOLEAN
    /\ stray \in BOOLEAN
    /\ scanAge \in 0..Oldest

LoopInv == MonitorSound /\ ListsSound /\ EvalsSound /\ ScanSound

-----------------------------------------------------------------------------
(* So many of the oldest go. *)
Dropped(seq, n) == IF Len(seq) > n THEN Len(seq) - n ELSE 0

(* The newest of a list are as many as asked for at most, in their order.  *)
LEMMA NewestIsEnd ==
    ASSUME NEW S, NEW seq \in Seq(S), NEW n \in Nat \ {0}
    PROVE  /\ Newest(seq, n) \in Seq(S)
           /\ Len(Newest(seq, n)) <= n
           /\ Dropped(seq, n) \in Nat
           /\ Dropped(seq, n) = 0 \/ Len(seq) = n + Dropped(seq, n)
           /\ Len(Newest(seq, n)) = Len(seq) - Dropped(seq, n)
           /\ \A i \in 1..(Len(seq) - Dropped(seq, n)) :
                 Newest(seq, n)[i] = seq[i + Dropped(seq, n)]
<1> DEFINE k == Dropped(seq, n)
<1>1. /\ Len(seq) \in Nat /\ k \in Nat /\ Len(seq) - k <= n /\ Len(seq) - k \in Nat
      /\ k = 0 \/ Len(seq) = n + k
  BY DEF Dropped
<1>2. Newest(seq, n) = SubSeq(seq, k + 1, Len(seq))
  BY DEF Newest, Dropped
<1> HIDE DEF k
<1>3. /\ SubSeq(seq, k + 1, Len(seq)) \in Seq(S)
      /\ Len(SubSeq(seq, k + 1, Len(seq))) = Len(seq) - k
      /\ \A i \in 1..(Len(seq) - k) : SubSeq(seq, k + 1, Len(seq))[i] = seq[i + k]
  BY <1>1
<1>4. /\ Newest(seq, n) \in Seq(S) /\ Len(Newest(seq, n)) <= n
      /\ k \in Nat /\ (k = 0 \/ Len(seq) = n + k)
      /\ Len(Newest(seq, n)) = Len(seq) - k
      /\ \A i \in 1..(Len(seq) - k) : Newest(seq, n)[i] = seq[i + k]
  BY <1>1, <1>2, <1>3
<1> QED
  BY <1>4 DEF k

(* Distinct names stay so when an unused one is added and the oldest go.   *)
LEMMA NewestDistinct ==
    ASSUME NEW list \in Seq(Job), Distinct(list), NEW job \in Job,
           \A i \in 1..Len(list) : list[i].id # job.id,
           NEW n \in Nat \ {0}
    PROVE  Distinct(Newest(Append(list, job), n))
<1> DEFINE longer == Append(list, job)
<1>1. /\ longer \in Seq(Job) /\ Len(longer) = Len(list) + 1 /\ Len(list) \in Nat
      /\ longer[Len(list) + 1] = job
      /\ \A i \in 1..Len(list) : longer[i] = list[i]
  OBVIOUS
<1> HIDE DEF longer
<1>2. Distinct(longer)
  <2> SUFFICES ASSUME NEW i \in 1..Len(longer), NEW j \in 1..Len(longer),
                      longer[i].id = longer[j].id
               PROVE  i = j
    BY DEF Distinct
  <2>1. /\ i \in 1..Len(list) \/ i = Len(list) + 1
        /\ j \in 1..Len(list) \/ j = Len(list) + 1
    BY <1>1
  <2> QED
    BY <1>1, <2>1 DEF Distinct
<1> DEFINE k == Dropped(longer, n)
<1>3. /\ k \in Nat /\ Len(Newest(longer, n)) = Len(longer) - k
      /\ \A i \in 1..(Len(longer) - k) : Newest(longer, n)[i] = longer[i + k]
  BY <1>1, NewestIsEnd
<1> HIDE DEF k
<1>4. Distinct(Newest(longer, n))
  <2> SUFFICES ASSUME NEW i \in 1..(Len(longer) - k), NEW j \in 1..(Len(longer) - k),
                      longer[i + k].id = longer[j + k].id
               PROVE  i = j
    BY <1>3 DEF Distinct
  <2>1. i + k \in 1..Len(longer) /\ j + k \in 1..Len(longer)
    BY <1>1, <1>3
  <2> QED
    BY <1>2, <1>3, <2>1 DEF Distinct
<1> QED
  BY <1>4 DEF longer

(* What the monitor records keeps its values. *)
LEMMA RecordedSound ==
    ASSUME NEW m \in Monitor, NEW b \in BOOLEAN
    PROVE  /\ VertexSucceeds(m) \in Monitor
           /\ VertexFails(m, b) \in Monitor
           /\ ProbeRecorded(m, b) \in Monitor
           /\ SelfRecorded(m, b) \in Monitor
           /\ LaunchRecorded(m, b) \in Monitor
           /\ StaleRecorded(m, b) \in Monitor
<1>0. /\ Streak \in Nat \ {0} /\ OpenFor \in Nat \ {0} /\ SelfLimit \in Nat \ {0}
      /\ 0 \in 0..Streak /\ 0 \in 0..OpenFor /\ OpenFor \in 0..OpenFor /\ 0 \in 0..SelfLimit
  BY MonitorAssumption
<1> USE DEF Monitor
<1>1. VertexSucceeds(m) \in Monitor
  BY <1>0 DEF VertexSucceeds
<1>2. VertexFails(m, b) \in Monitor
  <2> DEFINE n == AtMost(m.fails + 1, Streak)
             open == IF n = Streak THEN OpenFor ELSE m.openFor
             over == m.exhausted \/ b
  <2>1. n \in 0..Streak
    BY <1>0 DEF AtMost
  <2>2. open \in 0..OpenFor /\ over \in BOOLEAN
    BY <1>0
  <2>3. VertexFails(m, b) = [m EXCEPT !.fails = n, !.openFor = open, !.exhausted = over]
    BY DEF VertexFails
  <2> HIDE DEF n, open, over
  <2> QED
    BY <2>1, <2>2, <2>3
<1>3. ProbeRecorded(m, b) \in Monitor
  BY DEF ProbeRecorded
<1>4. SelfRecorded(m, b) \in Monitor
  BY <1>0 DEF SelfRecorded, AtMost
<1>5. LaunchRecorded(m, b) \in Monitor /\ StaleRecorded(m, b) \in Monitor
  BY DEF LaunchRecorded, StaleRecorded
<1> QED
  BY <1>1, <1>2, <1>3, <1>4, <1>5

LEMMA FaultSound ==
    ASSUME faults \in 0..MaxFaults, Fault
    PROVE  faults' \in 0..MaxFaults
BY MonitorAssumption DEF Fault

(* The surface asked about is one there is, and so is the grade. *)
LEMMA TriggerSound == Trigger \subseteq SurfaceName /\ Grade \in GradeName
<1>1. Trigger \subseteq SurfaceName
  BY DEF Trigger, SurfaceName
<1>2. Grade \in GradeName
  BY DEF Grade, GradeName
<1> QED
  BY <1>1, <1>2

LEMMA MonitorStepSound ==
    ASSUME MonitorSound, MonitorStep \/ (MonitorTick /\ UNCHANGED faults)
    PROVE  MonitorSound'
<1> USE DEF MonitorSound
<1>1. CASE CallSucceeds
  BY <1>1, RecordedSound DEF CallSucceeds
<1>2. CASE CallFails
  BY <1>2, RecordedSound, FaultSound DEF CallFails
<1>3. ASSUME NEW s \in Reportable, Report(s)
      PROVE  MonitorSound'
  BY <1>3, FaultSound DEF Report, Monitor
<1>4. CASE MonitorTick /\ UNCHANGED faults
  BY <1>4, MonitorAssumption DEF MonitorTick, Monitor
<1> QED
  BY <1>1, <1>2, <1>3, <1>4 DEF MonitorStep

-----------------------------------------------------------------------------
(* The evaluation a step moves may hold anything it may hold; the others   *)
(* keep what they hold.                                                    *)
LEMMA EvalMoves ==
    ASSUME EvalsSound, NEW e \in Eval, NEW q, EvalSound(q),
           evals' = [evals EXCEPT ![e] = q]
    PROVE  EvalsSound'
<1>1. /\ evals'[e] = q
      /\ \A x \in Eval : x # e => evals'[x] = evals[x]
      /\ evals' \in [Eval -> {evals'[x] : x \in Eval}]
  BY DEF EvalsSound
<1> QED
  BY <1>1 DEF EvalsSound

(* The values an evaluation takes on, at each of its steps.                *)
LEMMA Starts ==
    ASSUME NEW queue \in SUBSET JobId, NEW t \in SUBSET SurfaceName, NEW g \in GradeName
    PROVE  EvalSound([at |-> "launching", queue |-> queue, any |-> FALSE,
                      trigger |-> t, grade |-> g, lag |-> 0])
<1>1. [at |-> "launching", queue |-> queue, any |-> FALSE, trigger |-> t, grade |-> g,
       lag |-> 0] \in Launching
  BY LoopAssumption DEF Launching
<1> QED
  BY <1>1 DEF EvalSound

LEMMA Relaunches ==
    ASSUME NEW queue \in SUBSET JobId, NEW n \in 0..MaxLag
    PROVE  EvalSound([at |-> "finishing", queue |-> queue, any |-> TRUE, lag |-> n])
<1>1. [at |-> "finishing", queue |-> queue, any |-> TRUE, lag |-> n] \in Finishing
  BY DEF Finishing
<1> QED
  BY <1>1 DEF EvalSound

LEMMA Decides ==
    ASSUME NEW t \in SUBSET SurfaceName, NEW g \in GradeName, NEW n \in 0..MaxLag
    PROVE  EvalSound([at |-> "deciding", lag |-> n, trigger |-> t, grade |-> g])
<1>1. [at |-> "deciding", lag |-> n, trigger |-> t, grade |-> g] \in Deciding
  BY DEF Deciding
<1> QED
  BY <1>1 DEF EvalSound

LEMMA Probes ==
    ASSUME NEW k \in 0..MaxCandidates, NEW n \in 0..MaxLag
    PROVE  EvalSound([at |-> "probing", more |-> k, lag |-> n])
<1>1. [at |-> "probing", more |-> k, lag |-> n] \in Probing
  BY DEF Probing
<1> QED
  BY <1>1 DEF EvalSound

(* Where an evaluation is tells what it holds. *)
LEMMA EvalParts ==
    ASSUME NEW q, EvalSound(q)
    PROVE  /\ q.at = "idle" => q = Idle
           /\ q.at = "launching" => q \in Launching
           /\ q.at = "finishing" => q \in Finishing
           /\ q.at = "deciding" => q \in Deciding
           /\ q.at = "probing" => q \in Probing
           /\ q.at = "asked" => q \in Asked
           /\ q # Idle => q.lag \in 0..MaxLag
           /\ q.at \in {"launching", "deciding"} =>
                 q.trigger \in SUBSET SurfaceName /\ q.grade \in GradeName
           /\ q.at \in {"idle", "launching", "finishing", "deciding", "probing", "asked"}
           /\ q.at # "idle" => q # Idle
BY DEF EvalSound, Launching, Finishing, Deciding, Probing, Asked, Idle

LEMMA LaunchesOn ==
    ASSUME NEW q, EvalSound(q), q.at \in {"launching", "finishing"},
           NEW queue \in SUBSET JobId
    PROVE  EvalSound([q EXCEPT !.queue = queue, !.any = TRUE])
<1>1. /\ q \in Launching => [q EXCEPT !.queue = queue, !.any = TRUE] \in Launching
      /\ q \in Finishing => [q EXCEPT !.queue = queue, !.any = TRUE] \in Finishing
  BY DEF Launching, Finishing
<1> QED
  BY <1>1, EvalParts DEF EvalSound

LEMMA LagGrows ==
    ASSUME NEW q, EvalSound(q), q # Idle, q.lag < MaxLag
    PROVE  EvalSound([q EXCEPT !.lag = q.lag + 1])
<1> DEFINE next == [q EXCEPT !.lag = q.lag + 1]
<1>1. q.lag + 1 \in 0..MaxLag
  BY EvalParts, LoopAssumption
<1>2. q \in Launching => next \in Launching
  BY <1>1 DEF Launching
<1>3. q \in Finishing => next \in Finishing
  BY <1>1 DEF Finishing
<1>4. /\ q \in Deciding => next \in Deciding
      /\ q \in Probing => next \in Probing
      /\ q \in Asked => next \in Asked
  BY <1>1 DEF Deciding, Probing, Asked
<1> QED
  BY <1>2, <1>3, <1>4 DEF EvalSound

LEMMA ProbesOn ==
    ASSUME NEW q, EvalSound(q)
    PROVE  /\ q.at = "probing" /\ q.more > 0 =>
                 /\ EvalSound([q EXCEPT !.at = "asked"])
                 /\ EvalSound([q EXCEPT !.more = q.more - 1])
           /\ q.at = "asked" => EvalSound([q EXCEPT !.at = "probing", !.more = q.more - 1])
<1>1. ASSUME q.at = "probing", q.more > 0
      PROVE  /\ [q EXCEPT !.at = "asked"] \in Asked
             /\ [q EXCEPT !.more = q.more - 1] \in Probing
  <2>1. q \in Probing
    BY <1>1, EvalParts
  <2>2. q.more \in 1..MaxCandidates /\ q.more - 1 \in 0..MaxCandidates
    BY <1>1, <2>1, LoopAssumption DEF Probing
  <2> QED
    BY <2>1, <2>2 DEF Probing, Asked
<1>2. ASSUME q.at = "asked"
      PROVE  [q EXCEPT !.at = "probing", !.more = q.more - 1] \in Probing
  <2>1. q \in Asked
    BY <1>2, EvalParts
  <2>2. q.more - 1 \in 0..MaxCandidates
    BY <2>1, LoopAssumption DEF Asked
  <2> QED
    BY <2>1, <2>2 DEF Probing, Asked
<1> QED
  BY <1>1, <1>2 DEF EvalSound

(* A list of jobs that differs in nothing but what is known of each job is *)
(* as long, and its names as distinct.                                     *)
LEMMA JobsRevised ==
    ASSUME ListsSound, UNCHANGED proposals, NEW f \in [1..Len(jobs) -> Job],
           \A i \in 1..Len(jobs) : f[i].id = jobs[i].id,
           jobs' = f
    PROVE  ListsSound'
<1>1. Len(jobs) \in Nat
  BY DEF ListsSound
<1>2. jobs' \in Seq(Job) /\ Len(jobs') = Len(jobs)
  BY <1>1
<1>3. Distinct(jobs')
  BY <1>2 DEF ListsSound, Distinct
<1> QED
  BY <1>1, <1>2, <1>3 DEF ListsSound

LEMMA WithStatusSound ==
    ASSUME ListsSound, UNCHANGED proposals, NEW id,
           NEW status \in NotRunning \union {"running", "reported"},
           jobs' = WithStatus(id, status)
    PROVE  ListsSound'
<1> DEFINE f == [i \in 1..Len(jobs) |->
                   IF jobs[i].id = id THEN [jobs[i] EXCEPT !.status = status] ELSE jobs[i]]
<1>1. \A i \in 1..Len(jobs) : jobs[i] \in Job
  BY DEF ListsSound
<1>2. f \in [1..Len(jobs) -> Job]
  BY <1>1 DEF Job
<1>3. \A i \in 1..Len(jobs) : f[i].id = jobs[i].id
  BY <1>1 DEF Job
<1>4. jobs' = f
  BY DEF WithStatus
<1> HIDE DEF f
<1> QED
  BY <1>2, <1>3, <1>4, JobsRevised

-----------------------------------------------------------------------------
LEMMA PendingNames ==
    ASSUME NEW list \in Seq(Job)
    PROVE  Pending(list) \in SUBSET JobId
<1>1. \A i \in 1..Len(list) : list[i] \in Job
  OBVIOUS
<1> QED
  BY <1>1 DEF Pending, Job

(* The monitor's part of a step: what a result of an evaluation records.   *)
LEMMA FinishedSound ==
    ASSUME NEW m \in Monitor, NEW e
    PROVE  Finished(e, m) \in Monitor
BY RecordedSound DEF Finished

LEMMA LaunchedSound ==
    ASSUME LoopInv, NEW e \in Eval, evals[e].at \in {"launching", "finishing"},
           NEW again \in BOOLEAN, Launched(e, again)
    PROVE  EvalsSound'
<1> DEFINE q == evals[e]
           next == IF q.at = "finishing" THEN Idle
                   ELSE [at |-> "deciding", lag |-> q.lag,
                         trigger |-> IF again THEN Trigger' ELSE q.trigger,
                         grade |-> IF again THEN Grade' ELSE q.grade]
<1>1. EvalSound(q)
  BY DEF LoopInv, EvalsSound
<1>2. evals' = [evals EXCEPT ![e] = next]
  BY DEF Launched, LoopInv, EvalsSound
<1>3. Trigger' \subseteq SurfaceName /\ Grade' \in GradeName
  <2>1. Trigger' \subseteq SurfaceName
    BY DEF Trigger, SurfaceName, Surfaces
  <2>2. Grade' \in GradeName
    BY DEF Grade, GradeName
  <2> QED
    BY <2>1, <2>2
<1>4. EvalSound(next)
  <2>1. CASE q.at = "finishing"
    BY <2>1 DEF EvalSound
  <2>2. CASE q.at = "launching"
    <3>1. q.lag \in 0..MaxLag /\ q.trigger \in SUBSET SurfaceName /\ q.grade \in GradeName
      BY <1>1, <2>2, EvalParts
    <3> QED
      BY <1>3, <2>2, <3>1, Decides
  <2> QED
    BY <2>1, <2>2
<1> HIDE DEF q, next
<1> QED
  BY <1>2, <1>4, EvalMoves DEF LoopInv

LEMMA EvaluateSound ==
    ASSUME LoopInv, NEW e \in Eval, Evaluate(e)
    PROVE  LoopInv'
<1>1. SomeStale \in BOOLEAN
  BY DEF SomeStale
<1>2. MonitorSound'
  BY <1>1, RecordedSound DEF Evaluate, LoopInv, MonitorSound
<1>3. Trigger' \subseteq SurfaceName /\ Grade' \in GradeName
  <2>1. Trigger' \subseteq SurfaceName
    BY DEF Trigger, SurfaceName, Surfaces
  <2>2. Grade' \in GradeName
    BY DEF Grade, GradeName
  <2> QED
    BY <2>1, <2>2
<1>4. Pending(jobs) \in SUBSET JobId
  BY PendingNames DEF LoopInv, ListsSound
<1>5. EvalsSound'
  BY <1>3, <1>4, Starts, EvalMoves DEF Evaluate, LoopInv
<1> QED
  BY <1>2, <1>5 DEF Evaluate, LoopInv, ListsSound, ScanSound

LEMMA LaunchSound ==
    ASSUME LoopInv, NEW e \in Eval, Launch(e)
    PROVE  LoopInv'
<1> DEFINE q == evals[e]
<1>1. EvalSound(q)
  BY DEF LoopInv, EvalsSound
<1>2. PICK id \in NextInLine(q.queue) \intersect JobIds :
          /\ jobs' = WithStatus(id, "running")
          /\ evals' = [evals EXCEPT ![e].queue = @ \ {id}, ![e].any = TRUE]
  BY DEF Launch
<1>3. evals' = [evals EXCEPT ![e] = [q EXCEPT !.queue = q.queue \ {id}, !.any = TRUE]]
  BY <1>2 DEF LoopInv, EvalsSound
<1>4. q.queue \ {id} \in SUBSET JobId
  BY <1>1, EvalParts DEF Launch, Launching, Finishing
<1>5. EvalsSound'
  BY <1>1, <1>3, <1>4, LaunchesOn, EvalMoves DEF LoopInv, Launch
<1>6. ListsSound'
  BY <1>2, WithStatusSound DEF Launch, LoopInv
<1> QED
  BY <1>5, <1>6 DEF Launch, LoopInv, MonitorSound, ScanSound

LEMMA LaunchFailsSound ==
    ASSUME LoopInv, NEW e \in Eval, LaunchFails(e)
    PROVE  LoopInv'
<1>0. PICK id \in NextInLine(evals[e].queue) :
          \/ Fault /\ UNCHANGED jobs
          \/ Fault /\ jobs' = [i \in 1..Len(jobs) |->
                IF jobs[i].id = id /\ jobs[i].status = "requested"
                THEN [jobs[i] EXCEPT !.status = "unanswered"] ELSE jobs[i]]
          \/ id \notin JobIds /\ UNCHANGED <<jobs, faults>>
  BY DEF LaunchFails
<1> DEFINE f == [i \in 1..Len(jobs) |->
                   IF jobs[i].id = id /\ jobs[i].status = "requested"
                   THEN [jobs[i] EXCEPT !.status = "unanswered"] ELSE jobs[i]]
<1>1. \/ Fault /\ UNCHANGED jobs
      \/ Fault /\ jobs' = f
      \/ UNCHANGED <<jobs, faults>>
  BY <1>0
<1>2. faults' \in 0..MaxFaults
  BY <1>1, FaultSound DEF LoopInv, MonitorSound
<1>3. MonitorSound'
  BY <1>2, RecordedSound, FinishedSound DEF LaunchFails, LoopInv, MonitorSound
<1>4. EvalsSound'
  BY LaunchedSound DEF LaunchFails
<1>5. ListsSound'
  <2>1. CASE UNCHANGED jobs
    BY <2>1 DEF LaunchFails, LoopInv, ListsSound
  <2>2. CASE jobs' = f
    <3>1. \A i \in 1..Len(jobs) : jobs[i] \in Job
      BY DEF LoopInv, ListsSound
    <3>2. /\ f \in [1..Len(jobs) -> Job]
          /\ \A i \in 1..Len(jobs) : f[i].id = jobs[i].id
      BY <3>1 DEF Job, NotRunning
    <3> HIDE DEF f
    <3> QED
      BY <2>2, <3>2, JobsRevised DEF LaunchFails, LoopInv
  <2> QED
    BY <1>1, <2>1, <2>2
<1> QED
  BY <1>3, <1>4, <1>5 DEF LaunchFails, LoopInv, ScanSound

LEMMA LaunchesDoneSound ==
    ASSUME LoopInv, NEW e \in Eval, LaunchesDone(e)
    PROVE  LoopInv'
<1>1. EvalSound(evals[e])
  BY DEF LoopInv, EvalsSound
<1>2. evals[e].any \in BOOLEAN
  BY <1>1, EvalParts DEF LaunchesDone, Launching, Finishing
<1>3. MonitorSound'
  BY RecordedSound, FinishedSound DEF LaunchesDone, LoopInv, MonitorSound
<1>4. EvalsSound'
  BY <1>2, LaunchedSound DEF LaunchesDone
<1> QED
  BY <1>3, <1>4 DEF LaunchesDone, LoopInv, ListsSound, ScanSound

(* A repair's job gets a name no job of the list has. *)
LEMMA RepairSound ==
    ASSUME LoopInv, NEW e \in Eval, RepairTrigger(e)
    PROVE  LoopInv'
<1> DEFINE q == evals[e]
<1>1. EvalSound(q)
  BY DEF LoopInv, EvalsSound
<1>2. /\ q.lag \in 0..MaxLag /\ q.trigger \in SUBSET SurfaceName /\ q.grade \in GradeName
  BY <1>1, EvalParts DEF RepairTrigger
<1>3. PICK type \in q.trigger : Repair(e, type, q.grade)
  BY DEF RepairTrigger
<1>4. UNCHANGED faults /\ ScanSound'
  BY DEF RepairTrigger, LoopInv, ScanSound
<1>5. EvalSound(Idle)
  BY DEF EvalSound
<1>6. CASE /\ \E failed \in BOOLEAN : monitor' = SelfRecorded(monitor, failed)
           /\ evals' = [evals EXCEPT ![e] = Idle]
           /\ UNCHANGED <<proposals, jobs>>
  <2>1. MonitorSound'
    BY <1>4, <1>6, RecordedSound DEF LoopInv, MonitorSound
  <2>2. EvalsSound'
    BY <1>5, <1>6, EvalMoves DEF LoopInv
  <2> QED
    BY <1>4, <1>6, <2>1, <2>2 DEF LoopInv, ListsSound
<1>7. ASSUME NEW id \in NextId,
             proposals' = Newest(Append(proposals,
                [type |-> type, grade |-> q.grade, age |-> q.lag]), MaxProposals),
             jobs' = Newest(Append(jobs,
                [id |-> id, status |-> "requested",
                 age |-> AtMost(q.lag, StaleAfter)]), MaxJobs),
             evals' = [evals EXCEPT ![e] =
                [at |-> "finishing", queue |-> Pending(jobs'), any |-> TRUE, lag |-> q.lag]],
             UNCHANGED monitor
      PROVE  LoopInv'
  <2> DEFINE proposal == [type |-> type, grade |-> q.grade, age |-> q.lag]
             job == [id |-> id, status |-> "requested", age |-> AtMost(q.lag, StaleAfter)]
  <2>1. proposal \in Proposal
    BY <1>2, <1>3, LoopAssumption DEF Proposal
  <2>2. id \in JobId /\ id \notin JobIds
    BY <1>7 DEF NextId
  <2>3. AtMost(q.lag, StaleAfter) \in 0..StaleAfter
    BY <1>2, LoopAssumption DEF AtMost
  <2>4. job \in Job /\ job.id = id
    BY <2>2, <2>3 DEF Job, NotRunning
  <2>5. \A i \in 1..Len(jobs) : jobs[i].id # job.id
    BY <2>2, <2>4 DEF JobIds
  <2>6. MaxProposals \in Nat \ {0} /\ MaxJobs \in Nat \ {0}
    BY LoopAssumption
  <2> HIDE DEF proposal, job
  <2>7. /\ proposals \in Seq(Proposal) /\ Append(proposals, proposal) \in Seq(Proposal)
        /\ jobs \in Seq(Job) /\ Append(jobs, job) \in Seq(Job)
    BY <2>1, <2>4 DEF LoopInv, ListsSound
  <2>8. /\ proposals' = Newest(Append(proposals, proposal), MaxProposals)
        /\ jobs' = Newest(Append(jobs, job), MaxJobs)
    BY <1>7 DEF proposal, job
  <2>9. Distinct(jobs')
    BY <2>4, <2>5, <2>6, <2>7, <2>8, NewestDistinct DEF LoopInv, ListsSound
  <2>10. proposals' \in Seq(Proposal) /\ Len(proposals') <= MaxProposals
    BY <2>6, <2>7, <2>8, NewestIsEnd
  <2>11. jobs' \in Seq(Job) /\ Len(jobs') <= MaxJobs
    BY <2>6, <2>7, <2>8, NewestIsEnd
  <2>12. ListsSound'
    BY <2>9, <2>10, <2>11 DEF ListsSound
  <2>13. EvalsSound'
    BY <1>2, <1>7, <2>11, PendingNames, Relaunches, EvalMoves DEF LoopInv
  <2> QED
    BY <1>4, <1>7, <2>12, <2>13 DEF LoopInv, MonitorSound
<1>8. \/ /\ \E failed \in BOOLEAN : monitor' = SelfRecorded(monitor, failed)
         /\ evals' = [evals EXCEPT ![e] = Idle]
         /\ UNCHANGED <<proposals, jobs>>
      \/ \E id \in NextId :
         /\ proposals' = Newest(Append(proposals,
               [type |-> type, grade |-> q.grade, age |-> q.lag]), MaxProposals)
         /\ jobs' = Newest(Append(jobs,
               [id |-> id, status |-> "requested",
                age |-> AtMost(q.lag, StaleAfter)]), MaxJobs)
         /\ evals' = [evals EXCEPT ![e] =
               [at |-> "finishing", queue |-> Pending(jobs'), any |-> TRUE, lag |-> q.lag]]
         /\ UNCHANGED monitor
  BY <1>3 DEF Repair
<1> QED
  BY <1>6, <1>7, <1>8

(* The steps of the scan. *)
LEMMA ScanStepSound ==
    ASSUME LoopInv, NEW e \in Eval, ScanStep(e)
    PROVE  LoopInv'
<1> DEFINE q == evals[e]
<1>1. /\ EvalSound(q) /\ EvalSound(Idle)
      /\ evals \in [Eval -> {evals[x] : x \in Eval}]
  BY DEF LoopInv, EvalsSound, EvalSound
<1>2. q.at \in {"deciding", "probing", "asked"} => q.lag \in 0..MaxLag
  BY <1>1, EvalParts
<1>3. MaxLag \in Nat /\ ScanInterval \in Nat /\ MaxCandidates \in Nat
  BY LoopAssumption
<1>4. q.at \in {"deciding", "probing", "asked"} => q.lag \in 0..Oldest
  BY <1>2, <1>3 DEF Oldest
<1> USE DEF LoopInv
<1>5. CASE ScanNotDue(e)
  <2>1. MonitorSound' /\ EvalsSound'
    BY <1>1, <1>5, RecordedSound, EvalMoves DEF ScanNotDue, MonitorSound
  <2> QED
    BY <1>5, <2>1 DEF ScanNotDue, ListsSound, ScanSound
<1>6. CASE ScanCatalog(e)
  <2>1. PICK n \in 0..MaxCandidates :
          evals' = [evals EXCEPT ![e] = [at |-> "probing", more |-> n, lag |-> q.lag]]
    BY <1>6 DEF ScanCatalog
  <2>2. EvalsSound'
    BY <1>2, <1>6, <2>1, Probes, EvalMoves DEF ScanCatalog
  <2> QED
    BY <1>6, <2>2 DEF ScanCatalog, ListsSound, ScanSound, MonitorSound
<1>7. CASE CatalogFails(e)
  <2>1. MonitorSound'
    BY <1>7, RecordedSound, FaultSound DEF CatalogFails, MonitorSound
  <2>2. EvalsSound'
    BY <1>1, <1>7, EvalMoves DEF CatalogFails
  <2> QED
    BY <1>7, <2>1, <2>2 DEF CatalogFails, ListsSound, ScanSound
<1>8. CASE ProbeBegins(e)
  <2>1. evals' = [evals EXCEPT ![e] = [q EXCEPT !.at = "asked"]]
    BY <1>8 DEF ProbeBegins
  <2>2. EvalsSound'
    BY <1>1, <1>8, <2>1, ProbesOn, EvalMoves DEF ProbeBegins
  <2> QED
    BY <1>8, <2>2 DEF ProbeBegins, ListsSound, ScanSound, MonitorSound
<1>9. CASE ProbeRefused(e)
  <2>1. evals' = [evals EXCEPT ![e] = [q EXCEPT !.more = q.more - 1]]
    BY <1>9 DEF ProbeRefused
  <2>2. EvalsSound'
    BY <1>1, <1>9, <2>1, ProbesOn, EvalMoves DEF ProbeRefused
  <2> QED
    BY <1>9, <2>2 DEF ProbeRefused, ListsSound, ScanSound, MonitorSound
<1>10. CASE ProbeFails(e)
  <2>1. evals' = [evals EXCEPT ![e] = [q EXCEPT !.at = "probing", !.more = q.more - 1]]
    BY <1>1, <1>10 DEF ProbeFails
  <2>2. EvalsSound'
    BY <1>1, <1>10, <2>1, ProbesOn, EvalMoves DEF ProbeFails
  <2>3. MonitorSound'
    BY <1>10, RecordedSound, FaultSound DEF ProbeFails, MonitorSound
  <2> QED
    BY <1>10, <2>2, <2>3 DEF ProbeFails, ListsSound, ScanSound
<1>11. CASE ProbeTimesOut(e)
  <2>1. evals' = [evals EXCEPT ![e] = [q EXCEPT !.at = "probing", !.more = q.more - 1]]
    BY <1>1, <1>11 DEF ProbeTimesOut
  <2>2. EvalsSound'
    BY <1>1, <1>11, <2>1, ProbesOn, EvalMoves DEF ProbeTimesOut
  <2>3. MonitorSound'
    BY <1>11, FaultSound DEF ProbeTimesOut, MonitorSound
  <2> QED
    BY <1>11, <2>2, <2>3 DEF ProbeTimesOut, ListsSound, ScanSound
<1>12. CASE ProbePasses(e)
  <2>1. evals' = [evals EXCEPT ![e] =
          [at |-> "deciding", lag |-> q.lag, trigger |-> {"upgrade"},
           grade |-> <<"low", q.more>>]]
    BY <1>12 DEF ProbePasses
  <2>2. q \in Asked
    BY <1>1, <1>12, EvalParts DEF ProbePasses
  <2>3. {"upgrade"} \in SUBSET SurfaceName /\ <<"low", q.more>> \in GradeName
    BY <1>3, <2>2 DEF Asked, SurfaceName, GradeName
  <2>4. EvalsSound'
    BY <1>2, <1>12, <2>1, <2>3, Decides, EvalMoves DEF ProbePasses
  <2>5. MonitorSound'
    BY <1>12, RecordedSound DEF ProbePasses, MonitorSound
  <2> QED
    BY <1>4, <1>12, <2>4, <2>5 DEF ProbePasses, ListsSound, ScanSound
<1>13. CASE ScanFindsNone(e)
  <2>1. MonitorSound' /\ EvalsSound'
    BY <1>1, <1>13, RecordedSound, EvalMoves DEF ScanFindsNone, MonitorSound
  <2> QED
    BY <1>4, <1>13, <2>1 DEF ScanFindsNone, ListsSound, ScanSound
<1> QED
  BY <1>5, <1>6, <1>7, <1>8, <1>9, <1>10, <1>11, <1>12, <1>13 DEF ScanStep

(* Time passes for the proposals, the jobs and the evaluations under way. *)
LEMMA TickSound ==
    ASSUME LoopInv, Tick
    PROVE  LoopInv'
<1>1. /\ MaxLag \in Nat /\ StaleAfter \in Nat /\ ProposalTtl + MaxLag \in Nat
      /\ Oldest \in Nat
  BY LoopAssumption DEF Oldest
<1>2. ASSUME NEW bound \in Nat, NEW n \in 0..bound
      PROVE  AtMost(n + 1, bound) \in 0..bound
  BY DEF AtMost
<1>3. MonitorSound'
  BY MonitorStepSound DEF Tick, LoopInv
<1>4. proposals' \in Seq(Proposal) /\ Len(proposals') = Len(proposals)
  <2> DEFINE f == [i \in 1..Len(proposals) |->
                     [proposals[i] EXCEPT !.age = AtMost(proposals[i].age + 1, ProposalTtl + MaxLag)]]
  <2>1. Len(proposals) \in Nat /\ proposals' = f
    BY DEF Tick, LoopInv, ListsSound
  <2>2. \A i \in 1..Len(proposals) :
          /\ proposals[i] \in Proposal
          /\ AtMost(proposals[i].age + 1, ProposalTtl + MaxLag) \in 0..(ProposalTtl + MaxLag)
    <3>1. \A i \in 1..Len(proposals) : proposals[i] \in Proposal
      BY DEF LoopInv, ListsSound
    <3> QED
      BY <1>1, <1>2, <3>1 DEF Proposal
  <2>3. f \in [1..Len(proposals) -> Proposal]
    BY <2>2 DEF Proposal
  <2> HIDE DEF f
  <2> QED
    BY <2>1, <2>3
<1>5. ListsSound'
  <2> DEFINE f == [i \in 1..Len(jobs) |->
                     [jobs[i] EXCEPT !.age = AtMost(jobs[i].age + 1, StaleAfter)]]
  <2>1. jobs' = f
    BY DEF Tick
  <2>2. \A i \in 1..Len(jobs) :
          jobs[i] \in Job /\ AtMost(jobs[i].age + 1, StaleAfter) \in 0..StaleAfter
    <3>1. \A i \in 1..Len(jobs) : jobs[i] \in Job
      BY DEF LoopInv, ListsSound
    <3> QED
      BY <1>1, <1>2, <3>1 DEF Job
  <2>3. f \in [1..Len(jobs) -> Job] /\ \A i \in 1..Len(jobs) : f[i].id = jobs[i].id
    BY <2>2 DEF Job
  <2>4. Len(jobs) \in Nat /\ Len(jobs) <= MaxJobs /\ Distinct(jobs)
    BY DEF LoopInv, ListsSound
  <2> HIDE DEF f
  <2>5. jobs' \in Seq(Job) /\ Len(jobs') = Len(jobs)
    BY <2>1, <2>3, <2>4
  <2>6. Distinct(jobs')
    BY <2>1, <2>3, <2>4, <2>5 DEF Distinct
  <2> QED
    BY <1>4, <2>4, <2>5, <2>6 DEF ListsSound, LoopInv
<1>6. EvalsSound'
  <2>1. ASSUME NEW e \in Eval
        PROVE  EvalSound(evals'[e])
    <3>1. EvalSound(evals[e])
      BY DEF LoopInv, EvalsSound
    <3>2. CASE evals[e] = Idle
      BY <3>1, <3>2 DEF Tick
    <3>3. CASE evals[e] # Idle
      <4>1. evals[e].lag < MaxLag /\ evals'[e] = [evals[e] EXCEPT !.lag = evals[e].lag + 1]
        BY <3>3 DEF Tick
      <4> QED
        BY <3>1, <3>3, <4>1, LagGrows
    <3> QED
      BY <3>2, <3>3
  <2>2. evals' \in [Eval -> {evals'[e] : e \in Eval}]
    BY DEF Tick
  <2> QED
    BY <2>1, <2>2 DEF EvalsSound
<1>7. ScanSound'
  BY <1>1, <1>2 DEF Tick, LoopInv, ScanSound
<1> QED
  BY <1>3, <1>5, <1>6, <1>7 DEF LoopInv

LEMMA LoopStep ==
    ASSUME LoopInv, [Next]_vars
    PROVE  LoopInv'
<1>1. CASE MonitorStep /\ UNCHANGED loopVars
  <2>1. MonitorSound'
    BY <1>1, MonitorStepSound DEF LoopInv
  <2> QED
    BY <1>1, <2>1 DEF loopVars, LoopInv, ListsSound, EvalsSound, ScanSound
<1>2. ASSUME NEW e \in Eval, EvaluateSkipped(e)
      PROVE  LoopInv'
  BY <1>2, RecordedSound
     DEF EvaluateSkipped, loopVars, LoopInv, MonitorSound, ListsSound, EvalsSound, ScanSound
<1>3. ASSUME NEW e \in Eval, Evaluate(e) \/ LaunchStep(e) \/ RepairTrigger(e) \/ ScanStep(e)
      PROVE  LoopInv'
  BY <1>3, EvaluateSound, LaunchSound, LaunchFailsSound, LaunchesDoneSound, RepairSound,
     ScanStepSound DEF LaunchStep
<1>4. ASSUME NEW id \in JobId, WorkerReports(id)
      PROVE  LoopInv'
  BY <1>4, WithStatusSound DEF WorkerReports, LoopInv, MonitorSound, EvalsSound, ScanSound
<1>5. CASE StrayEnds
  <2>1. MonitorSound'
    BY <1>5, RecordedSound DEF StrayEnds, LoopInv, MonitorSound
  <2> QED
    BY <1>5, <2>1 DEF StrayEnds, LoopInv, ListsSound, EvalsSound, ScanSound
<1>6. CASE StatusChanges
  BY <1>6, FaultSound
     DEF StatusChanges, LoopInv, MonitorSound, ListsSound, EvalsSound, ScanSound
<1>7. CASE Tick
  BY <1>7, TickSound
<1>8. CASE UNCHANGED vars
  BY <1>8 DEF vars, LoopInv, MonitorSound, ListsSound, EvalsSound, ScanSound
<1> QED
  BY <1>1, <1>2, <1>3, <1>4, <1>5, <1>6, <1>7, <1>8 DEF Next

LEMMA LoopStarts == Init => LoopInv
<1> SUFFICES ASSUME Init PROVE LoopInv
  OBVIOUS
<1>1. MonitorSound
  BY MonitorAssumption DEF Init, MonitorInit, MonitorSound, Monitor
<1>2. ListsSound
  BY LoopAssumption DEF Init, ListsSound, Distinct
<1>3. EvalsSound
  <2>1. evals = [e \in Eval |-> Idle]
    BY DEF Init
  <2>2. /\ \A e \in Eval : evals[e] = Idle
        /\ evals \in [Eval -> {evals[e] : e \in Eval}]
    BY <2>1
  <2> QED
    BY <2>2 DEF EvalsSound, EvalSound
<1>4. ScanSound
  <2>1. Oldest \in Nat
    BY LoopAssumption DEF Oldest
  <2>2. scanAge \in 0..Oldest
    BY <2>1 DEF Init
  <2>3. active \in BOOLEAN /\ stray \in BOOLEAN
    BY Zenon DEF Init
  <2> QED
    BY <2>2, <2>3 DEF ScanSound
<1> QED
  BY <1>1, <1>2, <1>3, <1>4 DEF LoopInv

(* As many jobs as the list is long: their names are distinct. *)
LEMMA AsManyNames ==
    ASSUME ListsSound
    PROVE  Cardinality(JobIds) = Len(jobs)
<1> DEFINE name == [i \in 1..Len(jobs) |-> jobs[i].id]
<1>1. Len(jobs) \in Nat
  BY DEF ListsSound
<1>2. IsFiniteSet(1..Len(jobs)) /\ Cardinality(1..Len(jobs)) = Len(jobs)
  BY <1>1, FS_Interval
<1>3. name \in Bijection(1..Len(jobs), JobIds)
  <2>1. name \in Injection(1..Len(jobs), JobIds)
    BY DEF ListsSound, Distinct, JobIds, Injection, IsInjective
  <2>2. name \in Surjection(1..Len(jobs), JobIds)
    BY DEF JobIds, Surjection
  <2> QED
    BY <2>1, <2>2 DEF Bijection
<1> HIDE DEF name
<1> QED
  BY <1>2, <1>3, FS_Bijection DEF ExistsBijection

(* The lists of proposals and jobs stay within their limits, the names of  *)
(* the jobs distinct and every counter within its range, whatever evalua-  *)
(* tions overlap and whatever fails (the last 20 selfHealingProposals,     *)
(* MAX_REPAIR_JOBS in createRepairJobForProposal, governance-monitor.js).  *)
THEOREM LoopTypes == Spec => []TypeOK
<1>1. LoopInv => TypeOK
  <2> SUFFICES ASSUME LoopInv PROVE TypeOK
    OBVIOUS
  <2>1. \A i \in 1..Len(proposals) : proposals[i].age \in 0..(ProposalTtl + MaxLag)
    <3>1. \A i \in 1..Len(proposals) : proposals[i] \in Proposal
      BY DEF LoopInv, ListsSound
    <3> QED
      BY <3>1 DEF Proposal
  <2>2. \A e \in Eval : evals[e].at \in
          {"idle", "launching", "finishing", "deciding", "probing", "asked"}
    BY EvalParts DEF LoopInv, EvalsSound
  <2> QED
    BY <2>1, <2>2, AsManyNames DEF LoopInv, TypeOK, MonitorSound, Monitor, ListsSound, ScanSound
<1> QED
  BY <1>1, LoopStarts, LoopStep, PTL DEF Spec

-----------------------------------------------------------------------------
(* What it takes to push out a job whose worker was never started.  With   *)
(* one evaluation at a time, a job that waits was tried, in vain, by every *)
(* evaluation since it was asked for: before its health was judged, and    *)
(* again after the repair that the evaluation made.  So it cost two        *)
(* failures for each job behind it in the list, and one or two more.       *)
Paid(at) ==
    CASE at = "finishing" -> 0
      [] at \in {"idle", "launching"} -> 1
      [] OTHER -> 2

OutageInv(e) ==
    /\ \A i \in 1..Len(jobs) : jobs[i].status \in NotRunning =>
          faults >= 2 * (Len(jobs) - i) + Paid(evals[e].at)
    /\ evals[e].at \in {"launching", "finishing"} =>
          /\ evals[e].queue \subseteq JobIds
          /\ Pending(jobs) \subseteq evals[e].queue

(* The jobs keep their names and their places, and none begins to wait. *)
NoneBeginsToWait ==
    /\ Len(jobs') = Len(jobs)
    /\ \A i \in 1..Len(jobs) :
          /\ jobs'[i].id = jobs[i].id
          /\ jobs'[i].status \in NotRunning => jobs[i].status \in NotRunning

LEMMA NamesKept ==
    ASSUME NoneBeginsToWait
    PROVE  JobIds' = JobIds /\ Pending(jobs') \subseteq Pending(jobs)
<1>1. \A x : x \in JobIds' <=> x \in JobIds
  BY DEF NoneBeginsToWait, JobIds
<1>2. Pending(jobs') \subseteq Pending(jobs)
  BY DEF NoneBeginsToWait, Pending
<1> QED
  BY <1>1, <1>2

LEMMA FailedLaunchKeepsJobs ==
    ASSUME LoopInv, NEW e, LaunchFails(e)
    PROVE  NoneBeginsToWait
<1>1. PICK id \in NextInLine(evals[e].queue) :
         \/ UNCHANGED jobs
         \/ jobs' = [i \in 1..Len(jobs) |->
               IF jobs[i].id = id /\ jobs[i].status = "requested"
               THEN [jobs[i] EXCEPT !.status = "unanswered"] ELSE jobs[i]]
  BY DEF LaunchFails
<1>2. /\ Len(jobs) \in Nat
      /\ \A i \in 1..Len(jobs) : jobs[i] \in Job
  BY DEF LoopInv, ListsSound
<1>3. CASE UNCHANGED jobs
  BY <1>3 DEF NoneBeginsToWait
<1>4. CASE jobs' = [i \in 1..Len(jobs) |->
               IF jobs[i].id = id /\ jobs[i].status = "requested"
               THEN [jobs[i] EXCEPT !.status = "unanswered"] ELSE jobs[i]]
  BY <1>2, <1>4 DEF Job, NotRunning, NoneBeginsToWait
<1> QED
  BY <1>1, <1>3, <1>4

LEMMA TickKeepsJobs ==
    ASSUME LoopInv, Tick
    PROVE  NoneBeginsToWait
<1>1. Len(jobs) \in Nat /\ \A i \in 1..Len(jobs) : jobs[i] \in Job
  BY DEF LoopInv, ListsSound
<1>2. /\ Len(jobs') = Len(jobs)
      /\ \A i \in 1..Len(jobs) :
            jobs'[i] = [jobs[i] EXCEPT !.age = AtMost(@ + 1, StaleAfter)]
  BY <1>1 DEF Tick
<1>3. \A i \in 1..Len(jobs) : jobs'[i].id = jobs[i].id /\ jobs'[i].status = jobs[i].status
  BY <1>1, <1>2 DEF Job
<1> QED
  BY <1>2, <1>3 DEF NoneBeginsToWait

(* A step after which no other job waits, and which spends no less than it *)
(* moves the evaluation on, keeps the account.                             *)
LEMMA AccountKept ==
    ASSUME LoopInv, NEW e \in Eval, OutageInv(e), faults' \in Nat, faults' >= faults,
           NoneBeginsToWait,
           Paid(evals'[e].at) <= Paid(evals[e].at) + (faults' - faults),
           evals'[e].at \in {"launching", "finishing"} =>
              \/ evals'[e].queue = Pending(jobs')
              \/ evals'[e].queue = evals[e].queue /\ evals[e].at \in {"launching", "finishing"}
    PROVE  OutageInv(e)'
<1>1. /\ Len(jobs) \in Nat /\ faults \in Nat
      /\ Paid(evals[e].at) \in Nat /\ Paid(evals'[e].at) \in Nat
  BY MonitorAssumption DEF LoopInv, MonitorSound, ListsSound, Paid
<1>2. ASSUME NEW i \in 1..Len(jobs'), jobs'[i].status \in NotRunning
      PROVE  faults' >= 2 * (Len(jobs') - i) + Paid(evals'[e].at)
  <2>1. faults >= 2 * (Len(jobs) - i) + Paid(evals[e].at)
    BY <1>2 DEF OutageInv, NoneBeginsToWait
  <2> QED
    BY <1>1, <1>2, <2>1 DEF NoneBeginsToWait
<1>3. /\ JobIds' = JobIds /\ Pending(jobs') \subseteq Pending(jobs)
      /\ Pending(jobs) \subseteq JobIds
  BY NamesKept DEF Pending, JobIds
<1>4. evals'[e].at \in {"launching", "finishing"} =>
        evals'[e].queue \subseteq JobIds' /\ Pending(jobs') \subseteq evals'[e].queue
  BY <1>3 DEF OutageInv
<1> QED
  BY <1>2, <1>4 DEF OutageInv

(* The same, when the list of jobs is left alone. *)
LEMMA AccountKeptIdle ==
    ASSUME LoopInv, NEW e \in Eval, OutageInv(e), faults' \in Nat, faults' >= faults,
           UNCHANGED jobs,
           Paid(evals'[e].at) <= Paid(evals[e].at) + (faults' - faults),
           evals'[e].at \in {"launching", "finishing"} =>
              \/ evals'[e].queue = Pending(jobs)
              \/ evals'[e].queue = evals[e].queue /\ evals[e].at \in {"launching", "finishing"}
    PROVE  OutageInv(e)'
<1>1. NoneBeginsToWait
  BY DEF NoneBeginsToWait
<1> QED
  BY <1>1, AccountKept

LEMMA StatusKeepsJobs ==
    ASSUME LoopInv, NEW id, NEW status, jobs' = WithStatus(id, status)
    PROVE  /\ Len(jobs') = Len(jobs) /\ JobIds' = JobIds
           /\ \A i \in 1..Len(jobs) :
                 /\ jobs'[i].id = jobs[i].id
                 /\ jobs[i].id = id => jobs'[i].status = status
                 /\ jobs[i].id # id => jobs'[i] = jobs[i]
<1>1. /\ Len(jobs) \in Nat
      /\ \A i \in 1..Len(jobs) : jobs[i] \in Job
  BY DEF LoopInv, ListsSound
<1>2. /\ DOMAIN jobs' = 1..Len(jobs)
      /\ \A i \in 1..Len(jobs) :
            jobs'[i] = IF jobs[i].id = id THEN [jobs[i] EXCEPT !.status = status] ELSE jobs[i]
      /\ Len(jobs') = Len(jobs)
  BY <1>1 DEF WithStatus
<1>3. \A i \in 1..Len(jobs) :
         /\ jobs'[i].id = jobs[i].id
         /\ jobs[i].id = id => jobs'[i].status = status
         /\ jobs[i].id # id => jobs'[i] = jobs[i]
  BY <1>1, <1>2 DEF Job
<1>4. JobIds' = JobIds
  BY <1>2, <1>3 DEF JobIds
<1> QED
  BY <1>2, <1>3, <1>4

LEMMA LaunchAccount ==
    ASSUME LoopInv, NEW e \in Eval, OutageInv(e), Launch(e)
    PROVE  OutageInv(e)'
<1> DEFINE q == evals[e]
<1>1. PICK id \in NextInLine(q.queue) \intersect JobIds :
          /\ jobs' = WithStatus(id, "running")
          /\ evals' = [evals EXCEPT ![e].queue = @ \ {id}, ![e].any = TRUE]
  BY DEF Launch
<1>2. evals'[e].at = q.at /\ evals'[e].queue = q.queue \ {id}
  <2>1. EvalSound(q) /\ evals \in [Eval -> {evals[x] : x \in Eval}]
    BY DEF LoopInv, EvalsSound
  <2>2. q \in Launching \union Finishing
    BY <2>1, EvalParts DEF Launch
  <2>3. evals'[e] = [q EXCEPT !.queue = q.queue \ {id}, !.any = TRUE]
    BY <1>1, <2>1
  <2> QED
    BY <2>2, <2>3 DEF Launching, Finishing
<1>3. /\ Len(jobs') = Len(jobs) /\ JobIds' = JobIds
      /\ \A i \in 1..Len(jobs) :
            /\ jobs'[i].id = jobs[i].id
            /\ jobs[i].id = id => jobs'[i].status = "running"
            /\ jobs[i].id # id => jobs'[i] = jobs[i]
  BY <1>1, StatusKeepsJobs
<1>4. "running" \notin NotRunning
  BY DEF NotRunning
<1>5. q.at \in {"launching", "finishing"} /\ UNCHANGED faults
  BY DEF Launch
<1>6. Pending(jobs') \subseteq Pending(jobs) \ {id}
  BY <1>3, <1>4 DEF Pending
<1>7. \A i \in 1..Len(jobs') : jobs'[i].status \in NotRunning =>
          faults' >= 2 * (Len(jobs') - i) + Paid(evals'[e].at)
  BY <1>2, <1>3, <1>4, <1>5 DEF OutageInv
<1> HIDE DEF q
<1>8. evals'[e].queue \subseteq JobIds' /\ Pending(jobs') \subseteq evals'[e].queue
  BY <1>2, <1>3, <1>5, <1>6 DEF OutageInv, q
<1> QED
  BY <1>7, <1>8 DEF OutageInv

LEMMA LaunchFailsAccount ==
    ASSUME LoopInv, NEW e \in Eval, OutageInv(e), LaunchFails(e)
    PROVE  OutageInv(e)'
<1>1. PICK id \in NextInLine(evals[e].queue) :
          \/ Fault /\ UNCHANGED jobs
          \/ Fault /\ jobs' = [i \in 1..Len(jobs) |->
                IF jobs[i].id = id /\ jobs[i].status = "requested"
                THEN [jobs[i] EXCEPT !.status = "unanswered"] ELSE jobs[i]]
          \/ id \notin JobIds /\ UNCHANGED <<jobs, faults>>
  BY DEF LaunchFails
<1>2. id \in JobIds
  <2>1. evals[e].queue \subseteq JobIds
    BY DEF LaunchFails, OutageInv
  <2> QED
    BY <2>1 DEF NextInLine, JobIds
<1>3. faults \in Nat /\ faults' = faults + 1
  BY <1>1, <1>2, MonitorAssumption DEF Fault, LoopInv, MonitorSound
<1>4. \/ evals[e].at = "finishing" /\ evals'[e].at = "idle"
      \/ evals[e].at = "launching" /\ evals'[e].at = "deciding"
  <2>1. evals \in [Eval -> {evals[x] : x \in Eval}]
    BY DEF LoopInv, EvalsSound
  <2>2. evals'[e] = IF evals[e].at = "finishing" THEN Idle
          ELSE [at |-> "deciding", lag |-> evals[e].lag,
                trigger |-> evals[e].trigger, grade |-> evals[e].grade]
    BY <2>1 DEF LaunchFails, Launched
  <2>3. evals[e].at \in {"launching", "finishing"}
    BY DEF LaunchFails
  <2> QED
    BY <2>2, <2>3 DEF Idle
<1>5. /\ Paid(evals'[e].at) <= Paid(evals[e].at) + (faults' - faults)
      /\ evals'[e].at \notin {"launching", "finishing"}
  BY <1>3, <1>4 DEF Paid
<1>6. NoneBeginsToWait
  BY FailedLaunchKeepsJobs
<1> QED
  BY <1>3, <1>5, <1>6, AccountKept

(* The launching is through when no job waits any more. *)
LEMMA LaunchesDoneAccount ==
    ASSUME LoopInv, NEW e \in Eval, OutageInv(e), LaunchesDone(e)
    PROVE  OutageInv(e)'
<1>1. Pending(jobs) = {} /\ UNCHANGED jobs
  BY DEF LaunchesDone, OutageInv
<1>2. \A i \in 1..Len(jobs') : jobs'[i].status \notin NotRunning
  BY <1>1 DEF Pending
<1>3. evals'[e].at \notin {"launching", "finishing"}
  BY DEF LaunchesDone, Launched, LoopInv, EvalsSound, Idle
<1> QED
  BY <1>2, <1>3 DEF OutageInv

(* A repair asks for one more job, and lists all that wait: every place of *)
(* the list moves by as many as were dropped, one at most, and then the    *)
(* list was full.                                                          *)
LEMMA AskedForMore ==
    ASSUME LoopInv, NEW job \in Job, jobs' = Newest(Append(jobs, job), MaxJobs)
    PROVE  \E k \in {0, 1} :
              /\ k = 1 => Len(jobs) = MaxJobs
              /\ Len(jobs') = Len(jobs) + 1 - k
              /\ \A i \in 1..Len(jobs') :
                    \/ i + k \in 1..Len(jobs) /\ jobs'[i] = jobs[i + k]
                    \/ i = Len(jobs')
<1> DEFINE longer == Append(jobs, job)
           k == Dropped(longer, MaxJobs)
<1>1. MaxJobs \in Nat \ {0} /\ jobs \in Seq(Job) /\ Len(jobs) <= MaxJobs
  BY LoopAssumption DEF LoopInv, ListsSound
<1>2. /\ longer \in Seq(Job) /\ Len(longer) = Len(jobs) + 1 /\ Len(jobs) \in Nat
      /\ \A i \in 1..Len(jobs) : longer[i] = jobs[i]
  BY <1>1
<1> HIDE DEF longer
<1>3. /\ k \in Nat /\ (k = 0 \/ Len(longer) = MaxJobs + k)
      /\ Len(jobs') = Len(longer) - k
      /\ \A i \in 1..(Len(longer) - k) : jobs'[i] = longer[i + k]
  <2>1. jobs' = Newest(longer, MaxJobs)
    BY DEF longer
  <2> QED
    BY <1>1, <1>2, <2>1, NewestIsEnd
<1> HIDE DEF k
<1>4. k \in {0, 1} /\ (k = 1 => Len(jobs) = MaxJobs) /\ Len(jobs') = Len(jobs) + 1 - k
  BY <1>1, <1>2, <1>3
<1>5. ASSUME NEW i \in 1..Len(jobs'), i # Len(jobs')
      PROVE  i + k \in 1..Len(jobs) /\ jobs'[i] = jobs[i + k]
  <2>1. i + k \in 1..Len(jobs)
    BY <1>2, <1>4, <1>5
  <2> QED
    BY <1>2, <1>3, <1>4, <2>1
<1> QED
  BY <1>4, <1>5

LEMMA RepairAccount ==
    ASSUME LoopInv, NEW e \in Eval, OutageInv(e), RepairTrigger(e)
    PROVE  OutageInv(e)'
<1> DEFINE q == evals[e]
<1>0. /\ evals \in [Eval -> {evals[x] : x \in Eval}] /\ EvalSound(q)
      /\ q.at = "deciding" /\ UNCHANGED faults /\ faults \in Nat
  BY MonitorAssumption DEF RepairTrigger, LoopInv, EvalsSound, MonitorSound
<1>1. PICK type \in q.trigger : Repair(e, type, q.grade)
  BY DEF RepairTrigger
<1>2. CASE evals' = [evals EXCEPT ![e] = Idle] /\ UNCHANGED jobs
  <2>1. evals'[e] = Idle /\ Idle.at = "idle"
    BY <1>0, <1>2 DEF Idle
  <2>2. Paid(evals'[e].at) <= Paid(evals[e].at) + (faults' - faults)
    BY <1>0, <2>1 DEF Paid
  <2> QED
    BY <1>0, <1>2, <2>1, <2>2, AccountKeptIdle
<1>3. ASSUME NEW id \in NextId,
             jobs' = Newest(Append(jobs,
                [id |-> id, status |-> "requested",
                 age |-> AtMost(q.lag, StaleAfter)]), MaxJobs),
             evals' = [evals EXCEPT ![e] =
                [at |-> "finishing", queue |-> Pending(jobs'), any |-> TRUE, lag |-> q.lag]]
      PROVE  OutageInv(e)'
  <2> DEFINE job == [id |-> id, status |-> "requested", age |-> AtMost(q.lag, StaleAfter)]
  <2>1. job \in Job
    <3>1. q.lag \in 0..MaxLag
      BY <1>0, EvalParts
    <3>2. AtMost(q.lag, StaleAfter) \in 0..StaleAfter /\ id \in JobId
      BY <1>3, <3>1, LoopAssumption DEF AtMost, NextId
    <3> QED
      BY <3>2 DEF Job, NotRunning
  <2> HIDE DEF job
  <2>2. jobs' = Newest(Append(jobs, job), MaxJobs)
    BY <1>3 DEF job
  <2>3. PICK k \in {0, 1} :
              /\ k = 1 => Len(jobs) = MaxJobs
              /\ Len(jobs') = Len(jobs) + 1 - k
              /\ \A i \in 1..Len(jobs') :
                    \/ i + k \in 1..Len(jobs) /\ jobs'[i] = jobs[i + k]
                    \/ i = Len(jobs')
    BY <2>1, <2>2, AskedForMore
  <2>4. evals'[e].at = "finishing" /\ evals'[e].queue = Pending(jobs')
    BY <1>0, <1>3
  <2>5. Paid(evals'[e].at) = 0 /\ Paid(q.at) = 2 /\ Len(jobs) \in Nat
    BY <1>0, <2>4 DEF Paid, LoopInv, ListsSound
  <2>6. ASSUME NEW i \in 1..Len(jobs'), jobs'[i].status \in NotRunning
        PROVE  faults' >= 2 * (Len(jobs') - i) + Paid(evals'[e].at)
    <3>1. CASE i = Len(jobs')
      BY <1>0, <2>3, <2>5, <3>1
    <3>2. CASE i # Len(jobs')
      <4>1. i + k \in 1..Len(jobs) /\ jobs[i + k].status \in NotRunning
        BY <2>3, <2>6, <3>2
      <4>2. faults >= 2 * (Len(jobs) - (i + k)) + 2
        BY <2>5, <4>1 DEF OutageInv
      <4> QED
        BY <1>0, <2>3, <2>5, <4>2
    <3> QED
      BY <3>1, <3>2
  <2>7. Pending(jobs') \subseteq JobIds'
    BY DEF Pending, JobIds
  <2> QED
    BY <2>4, <2>6, <2>7 DEF OutageInv
<1>4. \/ evals' = [evals EXCEPT ![e] = Idle] /\ UNCHANGED jobs
      \/ \E id \in NextId :
         /\ jobs' = Newest(Append(jobs,
               [id |-> id, status |-> "requested",
                age |-> AtMost(q.lag, StaleAfter)]), MaxJobs)
         /\ evals' = [evals EXCEPT ![e] =
               [at |-> "finishing", queue |-> Pending(jobs'), any |-> TRUE, lag |-> q.lag]]
  BY <1>1 DEF Repair
<1> QED
  BY <1>2, <1>3, <1>4

LEMMA ScanAccount ==
    ASSUME LoopInv, NEW e \in Eval, OutageInv(e), ScanStep(e)
    PROVE  OutageInv(e)'
<1>0. /\ evals \in [Eval -> {evals[x] : x \in Eval}] /\ EvalSound(evals[e])
      /\ faults \in Nat
  BY MonitorAssumption DEF LoopInv, EvalsSound, MonitorSound
<1>1. /\ UNCHANGED jobs /\ faults' \in {faults, faults + 1}
      /\ evals[e].at \in {"deciding", "probing", "asked"}
  BY DEF ScanStep, ScanNotDue, ScanCatalog, CatalogFails, ProbeBegins, ProbeRefused,
         ProbeFails, ProbeTimesOut, ProbePasses, ScanFindsNone, Fault
<1>2. evals'[e].at \in {"idle", "deciding", "probing", "asked"}
  <2>1. CASE \E q : /\ q.at \in {"idle", "deciding", "probing", "asked"}
                   /\ evals' = [evals EXCEPT ![e] = q]
    BY <1>0, <2>1
  <2>2. CASE ScanNotDue(e) \/ CatalogFails(e) \/ ScanFindsNone(e)
    <3>1. evals' = [evals EXCEPT ![e] = Idle]
      BY <2>2 DEF ScanNotDue, CatalogFails, ScanFindsNone
    <3>2. evals'[e].at = "idle"
      BY <1>0, <3>1 DEF Idle
    <3> QED
      BY <3>2
  <2>3. CASE ScanCatalog(e)
    BY <2>1, <2>3 DEF ScanCatalog
  <2>4. CASE ProbePasses(e)
    BY <2>1, <2>4 DEF ProbePasses
  <2>5. CASE ProbeBegins(e) \/ ProbeRefused(e)
    <3>1. evals[e] \in Probing
      BY <1>0, <2>5, EvalParts DEF ProbeBegins, ProbeRefused
    <3> QED
      BY <1>0, <2>5, <3>1 DEF ProbeBegins, ProbeRefused, Probing
  <2>6. CASE ProbeFails(e) \/ ProbeTimesOut(e)
    <3>1. evals[e] \in Asked
      BY <1>0, <2>6, EvalParts DEF ProbeFails, ProbeTimesOut
    <3> QED
      BY <1>0, <2>6, <3>1 DEF ProbeFails, ProbeTimesOut, Asked
  <2> QED
    BY <2>2, <2>3, <2>4, <2>5, <2>6 DEF ScanStep
<1>3. Paid(evals[e].at) = 2 /\ Paid(evals'[e].at) \in {1, 2}
  BY <1>1, <1>2 DEF Paid
<1> QED
  BY <1>0, <1>1, <1>2, <1>3, AccountKeptIdle

LEMMA OutageStep ==
    ASSUME LoopInv, NEW e, Eval = {e}, OutageInv(e), Next
    PROVE  OutageInv(e)'
<1>0. /\ evals \in [Eval -> {evals[x] : x \in Eval}] /\ EvalSound(evals[e])
      /\ faults \in Nat
  BY MonitorAssumption DEF LoopInv, EvalsSound, MonitorSound
<1>1. Paid(evals[e].at) \in Nat
  BY DEF Paid
<1>2. CASE MonitorStep /\ UNCHANGED loopVars
  <2>1. faults' \in {faults, faults + 1}
    BY <1>2 DEF MonitorStep, CallSucceeds, CallFails, Report, Fault
  <2> QED
    BY <1>0, <1>1, <1>2, <2>1, AccountKeptIdle DEF loopVars
<1>3. CASE EvaluateSkipped(e)
  BY <1>0, <1>1, <1>3, AccountKeptIdle DEF EvaluateSkipped, loopVars
<1>4. CASE Evaluate(e)
  <2>1. /\ evals'[e].at = "launching" /\ evals'[e].queue = Pending(jobs)
        /\ evals[e].at = "idle" /\ UNCHANGED <<faults, jobs>>
    BY <1>0, <1>4 DEF Evaluate, Idle
  <2>2. Paid(evals'[e].at) = Paid(evals[e].at)
    BY <2>1 DEF Paid
  <2> QED
    BY <1>0, <1>1, <2>1, <2>2, AccountKeptIdle
<1>5. CASE LaunchStep(e)
  BY <1>5, LaunchAccount, LaunchFailsAccount, LaunchesDoneAccount DEF LaunchStep
<1>6. CASE RepairTrigger(e)
  BY <1>6, RepairAccount
<1>7. CASE ScanStep(e)
  BY <1>7, ScanAccount
<1>8. ASSUME NEW id \in JobId, WorkerReports(id)
      PROVE  OutageInv(e)'
  <2>1. NoneBeginsToWait
    BY <1>8, StatusKeepsJobs DEF WorkerReports, NoneBeginsToWait, NotRunning
  <2> QED
    BY <1>0, <1>1, <1>8, <2>1, AccountKept DEF WorkerReports
<1>9. CASE StrayEnds
  BY <1>0, <1>1, <1>9, AccountKeptIdle DEF StrayEnds
<1>10. CASE StatusChanges
  BY <1>0, <1>1, <1>10, AccountKeptIdle DEF StatusChanges, Fault
<1>11. CASE Tick
  <2>1. NoneBeginsToWait
    BY <1>11, TickKeepsJobs
  <2>2. evals'[e].at = evals[e].at /\ (evals[e].at \in {"launching", "finishing"} =>
           evals'[e].queue = evals[e].queue)
    <3>1. CASE evals[e] = Idle
      BY <1>11, <3>1 DEF Tick, Idle
    <3>2. CASE evals[e] # Idle
      <4>1. evals'[e] = [evals[e] EXCEPT !.lag = @ + 1]
        BY <1>11, <3>2 DEF Tick
      <4>2. evals[e] \in Launching \union Finishing \union Deciding \union Probing \union Asked
        BY <1>0, <3>2 DEF EvalSound
      <4> QED
        BY <4>1, <4>2 DEF Launching, Finishing, Deciding, Probing, Asked
    <3> QED
      BY <3>1, <3>2
  <2> QED
    BY <1>0, <1>1, <1>11, <2>1, <2>2, AccountKept DEF Tick
<1> QED
  BY <1>2, <1>3, <1>4, <1>5, <1>6, <1>7, <1>8, <1>9, <1>10, <1>11 DEF Next

(* A job goes when a repair finds the list full; that it waited then would *)
(* have cost the outage more than it has.                                  *)
LEMMA EvictedStep ==
    ASSUME LoopInv, NEW e, Eval = {e}, OutageInv(e), MaxFaults < 2 * MaxJobs, Next,
           NEW i \in 1..Len(jobs), jobs[i].status \in NotRunning
    PROVE  jobs[i].id \in JobIds'
<1>0. /\ Len(jobs) \in Nat /\ faults \in 0..MaxFaults
      /\ MaxJobs \in Nat /\ MaxFaults \in Nat
  BY MonitorAssumption, LoopAssumption DEF LoopInv, ListsSound, MonitorSound
<1>1. CASE JobIds' = JobIds
  BY <1>1 DEF JobIds
<1>2. CASE RepairTrigger(e)
  <2>1. PICK type \in evals[e].trigger : Repair(e, type, evals[e].grade)
    BY <1>2 DEF RepairTrigger
  <2>2. CASE UNCHANGED jobs
    BY <1>1, <2>2 DEF JobIds
  <2>3. ASSUME NEW job \in Job, jobs' = Newest(Append(jobs, job), MaxJobs)
        PROVE  jobs[i].id \in JobIds'
    <3>1. PICK k \in {0, 1} :
              /\ k = 1 => Len(jobs) = MaxJobs
              /\ Len(jobs') = Len(jobs) + 1 - k
              /\ \A j \in 1..Len(jobs') :
                    \/ j + k \in 1..Len(jobs) /\ jobs'[j] = jobs[j + k]
                    \/ j = Len(jobs')
      BY <2>3, AskedForMore
    <3>2. i - k # 0
      <4>1. SUFFICES ASSUME i = 1, k = 1 PROVE FALSE
        BY <1>0
      <4>2. Paid(evals[e].at) = 2
        BY <1>2 DEF RepairTrigger, Paid
      <4>3. faults >= 2 * (MaxJobs - 1) + 2
        BY <3>1, <4>1, <4>2 DEF OutageInv
      <4> QED
        BY <1>0, <4>3
    <3>3. i - k \in 1..Len(jobs') /\ i - k # Len(jobs')
      BY <1>0, <3>1, <3>2
    <3>4. jobs'[i - k] = jobs[i]
      BY <1>0, <3>1, <3>3
    <3> QED
      BY <3>3, <3>4 DEF JobIds
  <2>4. \/ UNCHANGED jobs
        \/ \E job \in Job : jobs' = Newest(Append(jobs, job), MaxJobs)
    <3>1. evals[e].lag \in 0..MaxLag
      BY <1>2, EvalParts DEF RepairTrigger, LoopInv, EvalsSound
    <3>2. ASSUME NEW id \in NextId
          PROVE  [id |-> id, status |-> "requested",
                  age |-> AtMost(evals[e].lag, StaleAfter)] \in Job
      <4>1. AtMost(evals[e].lag, StaleAfter) \in 0..StaleAfter /\ id \in JobId
        BY <3>1, LoopAssumption DEF AtMost, NextId
      <4> QED
        BY <4>1 DEF Job, NotRunning
    <3> QED
      BY <2>1, <3>2 DEF Repair
  <2> QED
    BY <2>2, <2>3, <2>4
<1>3. CASE \/ UNCHANGED jobs
           \/ \E id, status : jobs' = WithStatus(id, status)
  BY <1>1, <1>3, StatusKeepsJobs DEF JobIds
<1>4. CASE LaunchFails(e) \/ Tick
  BY <1>1, <1>4, FailedLaunchKeepsJobs, TickKeepsJobs, NamesKept
<1> QED
  BY <1>2, <1>3, <1>4
     DEF Next, loopVars, EvaluateSkipped, Evaluate, LaunchStep, Launch, LaunchesDone, ScanStep,
         ScanNotDue, ScanCatalog, CatalogFails, ProbeBegins, ProbeRefused, ProbeFails,
         ProbeTimesOut, ProbePasses, ScanFindsNone, WorkerReports, StrayEnds, StatusChanges

(* No job is evicted before its worker was started: with one evaluation at *)
(* a time, and in an outage of fewer failures than twice as many as the    *)
(* list holds jobs, whatever fails when (launchPendingRepairJobs,          *)
(* createRepairJobForProposal).                                            *)
THEOREM WaitingJobsAreKept ==
    ASSUME NEW e, Eval = {e}, MaxFaults < 2 * MaxJobs
    PROVE  Spec => EvictedWereLaunched
<1> DEFINE Inv == LoopInv /\ OutageInv(e)
           Kept == \A i \in 1..Len(jobs) :
                      jobs[i].id \in JobIds' \/ jobs[i].status \notin NotRunning
<1>1. Init => Inv
  <2> SUFFICES ASSUME Init PROVE Inv
    OBVIOUS
  <2>1. jobs = <<>> /\ evals[e].at = "idle"
    BY DEF Init, Idle
  <2>2. OutageInv(e)
    BY <2>1 DEF OutageInv
  <2> QED
    BY <2>2, LoopStarts
<1>2. Inv /\ [Next]_vars => Inv'
  <2> SUFFICES ASSUME Inv, [Next]_vars PROVE Inv'
    OBVIOUS
  <2>1. OutageInv(e)'
    <3>1. CASE Next
      BY <3>1, OutageStep
    <3>2. CASE UNCHANGED vars
      BY <3>2 DEF vars, OutageInv, Pending, JobIds
    <3> QED
      BY <3>1, <3>2
  <2> QED
    BY <2>1, LoopStep
<1>3. Inv /\ [Next]_vars => [Kept]_vars
  BY EvictedStep
<1> HIDE DEF Inv
<1>4. Spec => []Inv
  BY <1>1, <1>2, PTL DEF Spec
<1>5. Spec => [][Kept]_vars
  BY <1>3, <1>4, PTL DEF Spec
<1> QED
  BY <1>5 DEF EvictedWereLaunched
=============================================================================
