--------------------------- MODULE HealthMonitor ---------------------------
(***************************************************************************)
(* The health monitor of src/src/governance-monitor.js and the calls to    *)
(* the language model it watches (src/src/vertex-gemini.js).  Components   *)
(* report successes and failures; the monitor keeps what is unresolved and *)
(* opens a circuit breaker after a streak of failed calls.  A call looks   *)
(* at the breaker once, before its first attempt, and is recorded when it  *)
(* ends, so calls begun before the breaker opened end while it is open.    *)
(* Time is relative: the breaker counts down what is left.                 *)
(***************************************************************************)
EXTENDS Naturals, Sequences

CONSTANTS
    Streak,     \* CIRCUIT_BREAKER_FAILURE_THRESHOLD
    OpenFor,    \* CIRCUIT_BREAKER_OPEN_MS
    SelfLimit,  \* SELF_IMPROVEMENT_FAILURE_THRESHOLD
    Reportable, \* surfaces other components report on
    MaxFaults   \* bound on failures of what the broker calls

(* chooseTrigger asks about the surfaces in this order. *)
Surfaces ==
    <<"vertex", "wif", "attestation", "route-registry", "model-policy",
      "self-improvement", "repair-worker", "manifest-attestation",
      "tenant-contract", "deploy-webhook">>

ASSUME MonitorAssumption ==
    /\ {Streak, OpenFor, SelfLimit} \subseteq Nat \ {0}
    /\ MaxFaults \in Nat
    /\ Reportable \subseteq {"wif", "attestation", "route-registry",
          "manifest-attestation", "tenant-contract", "deploy-webhook",
          "preapproval"}

VARIABLES
    monitor, \* what the monitor holds of each surface
    faults   \* how much of MaxFaults is spent

monitorVars == <<monitor, faults>>

MonitorInit ==
    /\ monitor = [fails |-> 0, openFor |-> 0, exhausted |-> FALSE,
                  probe |-> FALSE, self |-> 0, launch |-> FALSE,
                  stale |-> FALSE, reported |-> {}]
    /\ faults = 0

AtMost(n, max) == IF n < max THEN n ELSE max

(* recordVertexCall of a success: the streak ends, an open breaker stays   *)
(* open for its time; and an exhaustion before it is resolved.             *)
VertexSucceeds(m) == [m EXCEPT !.fails = 0, !.exhausted = FALSE]

(* recordVertexCall of a failure, and recordVertexRetryExhausted when the  *)
(* call had used up its attempts.                                          *)
VertexFails(m, retried) ==
    LET n == AtMost(m.fails + 1, Streak)
    IN  [m EXCEPT !.fails = n,
                  !.openFor = IF n = Streak THEN OpenFor ELSE @,
                  !.exhausted = @ \/ retried]

(* recordModelProbe *)
ProbeRecorded(m, passed) == [m EXCEPT !.probe = ~passed]

(* recordSelfImprovement *)
SelfRecorded(m, failed) ==
    [m EXCEPT !.self = IF failed THEN AtMost(@ + 1, SelfLimit) ELSE 0]

(* recordRepairLaunch: one failure is enough to be unresolved. *)
LaunchRecorded(m, failed) == [m EXCEPT !.launch = failed]

(* recordRepairJobSummary *)
StaleRecorded(m, some) == [m EXCEPT !.stale = some]

(* isVertexCircuitOpen *)
CircuitOpen == monitor.openFor > 0

(* computeUnresolvedFailures, computeOperationalUnresolved *)
Unresolved(s) ==
    CASE s = "vertex" -> monitor.exhausted \/ CircuitOpen
      [] s = "model-policy" -> monitor.probe
      [] s = "self-improvement" -> monitor.self >= SelfLimit
      [] s = "repair-worker" -> monitor.launch \/ monitor.stale
      [] OTHER -> s \in monitor.reported

(* chooseTrigger: the first unresolved surface, {} if there is none. *)
Trigger ==
    {Surfaces[i] : i \in {j \in 1..Len(Surfaces) :
        /\ Unresolved(Surfaces[j])
        /\ \A k \in 1..(j - 1) : ~Unresolved(Surfaces[k])}}

(* computeAvailabilityRisk and computeGovernanceRisk, where something is   *)
(* unresolved (that three failures make attestation critical is left out). *)
Grade == <<IF Unresolved("vertex") THEN "critical" ELSE "warning",
           IF "preapproval" \in monitor.reported THEN "warning" ELSE "low">>

Fault == faults < MaxFaults /\ faults' = faults + 1

(* A call of generateFirstPrinciplesContent for a request ends.  It looked *)
(* at the breaker when it began, so it may end whether the breaker is open *)
(* now or not.                                                             *)
CallSucceeds ==
    /\ monitor' = VertexSucceeds(monitor)
    /\ UNCHANGED faults

CallFails ==
    /\ Fault
    /\ \E retried \in BOOLEAN : monitor' = VertexFails(monitor, retried)

(* The other components' reports (recordWifTokenExchange, recordAttesta-   *)
(* tionRefresh, recordRouteBundleRefresh, recordManifestAttestation,       *)
(* recordPreapproval, and the tenant contract's): the failure that makes   *)
(* the surface unresolved, or a success that resolves it.                  *)
Report(s) ==
    \/ /\ Fault
       /\ monitor' = [monitor EXCEPT !.reported = @ \union {s}]
    \/ /\ s \in monitor.reported
       /\ monitor' = [monitor EXCEPT !.reported = @ \ {s}]
       /\ UNCHANGED faults

MonitorStep ==
    \/ CallSucceeds \/ CallFails
    \/ \E s \in Reportable : Report(s)

(* The breaker's time passes. *)
MonitorTick ==
    monitor' = [monitor EXCEPT !.openFor = IF @ > 0 THEN @ - 1 ELSE 0]
=============================================================================
