--------------------------- MODULE TenantContract ---------------------------
(***************************************************************************)
(* What the broker does for tenants with the routes they registered        *)
(* (src/src/routes.js): it deposits the tokens of a login with the         *)
(* tenant's backend and forwards deploy webhooks, and reports each outcome *)
(* to the monitor, which counts it by route (src/src/governance-monitor.js)*)
(* A route's digest changes whenever its document is issued again; what no *)
(* route is found for is counted under the digest of what was looked up.   *)
(* A verified route's proof headers can always be built.  That three of    *)
(* five deposits failed never says more than that three in a row did: a    *)
(* success sets the failures to 0 and leaves the successes.                *)
(***************************************************************************)
EXTENDS Naturals

CONSTANTS
    Tenant,
    Visit,         \* logins and webhooks under way at once
    DepositLimit,  \* TOKEN_DEPOSIT_FAILURE_THRESHOLD
    LookupLimit,   \* TENANT_ROUTE_LOOKUP_FAILURE_THRESHOLD
    DeployLimit,   \* DEPLOY_WEBHOOK_FAILURE_THRESHOLD
    MaxIssue       \* bound on the issues of a tenant's route documents

ASSUME ContractAssumption ==
    {DepositLimit, LookupLimit, DeployLimit, MaxIssue} \subseteq Nat \ {0}

VARIABLES
    route,    \* by tenant: the issue of its route the registry holds, 0 if none
    issues,   \* by tenant: how often its documents were issued
    backend,  \* by tenant: how it answers deposits and deploys
    visits,   \* the requests under way
    metrics   \* tenantContractRoutes, by tenant and issue: failures in a row

contractVars == <<route, issues, backend, visits, metrics>>

(* A login is answered without a code by a backend that is "codeless". *)
Answer == {"works", "codeless", "fails"}
NoVisit == [at |-> "idle"]

ContractInit ==
    /\ route = [t \in Tenant |-> 0]
    /\ issues = [t \in Tenant |-> 0]
    /\ backend = [t \in Tenant |-> "works"]
    /\ visits = [v \in Visit |-> NoVisit]
    /\ metrics = [t \in Tenant |-> [i \in 0..MaxIssue |->
                     [deposit |-> 0, lookup |-> 0, deploy |-> 0]]]

UpTo(n, limit) == IF n < limit THEN n ELSE limit

(* The registry loads a document issued anew, or loses the tenant's route. *)
Reissue(t) ==
    /\ issues[t] < MaxIssue
    /\ issues' = [issues EXCEPT ![t] = @ + 1]
    /\ route' = [route EXCEPT ![t] = issues'[t]]
    /\ UNCHANGED <<backend, visits, metrics>>

Withdraw(t) ==
    /\ route[t] # 0
    /\ route' = [route EXCEPT ![t] = 0]
    /\ UNCHANGED <<issues, backend, visits, metrics>>

BackendTurns(t, answer) ==
    /\ backend[t] # answer
    /\ backend' = [backend EXCEPT ![t] = answer]
    /\ UNCHANGED <<route, issues, visits, metrics>>

(* handleCallback with a state that handleLogin signed, until the code is  *)
(* exchanged.                                                              *)
CallbackBegins(v, t) ==
    /\ visits[v] = NoVisit
    /\ visits' = [visits EXCEPT ![v] = [at |-> "exchanging", of |-> t]]
    /\ UNCHANGED <<route, issues, backend, metrics>>

ExchangeFails(v) ==
    /\ visits[v].at = "exchanging"
    /\ visits' = [visits EXCEPT ![v] = NoVisit]
    /\ UNCHANGED <<route, issues, backend, metrics>>

(* getTenantApiRouteForTenant: nothing records that a route was found. *)
LookupFailed(t) ==
    metrics' = [metrics EXCEPT ![t][0].lookup = UpTo(@ + 1, LookupLimit)]

(* The code is exchanged; the route is looked up then. *)
Exchanged(v) ==
    /\ visits[v].at = "exchanging"
    /\ LET t == visits[v].of
       IN  IF route[t] = 0
           THEN /\ LookupFailed(t)
                /\ visits' = [visits EXCEPT ![v] = NoVisit]
           ELSE /\ visits' = [visits EXCEPT ![v] =
                      [at |-> "depositing", of |-> t, route |-> route[t]]]
                /\ UNCHANGED metrics
    /\ UNCHANGED <<route, issues, backend>>

(* recordTokenDeposit *)
DepositSucceeded(m) == [m EXCEPT !.deposit = 0]
DepositFailed(m) == [m EXCEPT !.deposit = UpTo(@ + 1, DepositLimit)]

(* What the callback reports of an answer: one without a code is recorded  *)
(* as a success, and then as a failure.                                    *)
DepositReported(m, answer) ==
    CASE answer = "works" -> DepositSucceeded(m)
      [] answer = "codeless" -> DepositFailed(DepositSucceeded(m))
      [] answer = "fails" -> DepositFailed(m)

(* Mutant: the outcome is counted for the route that stands now. *)
DepositedNow(v) ==
    /\ visits[v].at = "depositing"
    /\ metrics' = [metrics EXCEPT ![visits[v].of][route[visits[v].of]] =
          DepositReported(@, backend[visits[v].of])]
    /\ visits' = [visits EXCEPT ![v] = NoVisit]
    /\ UNCHANGED <<route, issues, backend>>

Deposited(v) ==
    /\ visits[v].at = "depositing"
    /\ metrics' = [metrics EXCEPT ![visits[v].of][visits[v].route] =
          DepositReported(@, backend[visits[v].of])]
    /\ visits' = [visits EXCEPT ![v] = NoVisit]
    /\ UNCHANGED <<route, issues, backend>>

(* The push handlers look routes up as well. *)
PushLooksUp(t) ==
    /\ route[t] = 0
    /\ LookupFailed(t)
    /\ UNCHANGED <<route, issues, backend, visits>>

(* handleGitHubRepoWebhook of a push to master. *)
WebhookBegins(v, t) ==
    /\ visits[v] = NoVisit
    /\ IF route[t] = 0
       THEN /\ metrics' = [metrics EXCEPT ![t][0].deploy = UpTo(@ + 1, DeployLimit)]
            /\ UNCHANGED visits
       ELSE /\ visits' = [visits EXCEPT ![v] =
                  [at |-> "deploying", of |-> t, route |-> route[t]]]
            /\ UNCHANGED metrics
    /\ UNCHANGED <<route, issues, backend>>

Forwarded(v) ==
    /\ visits[v].at = "deploying"
    /\ metrics' = [metrics EXCEPT ![visits[v].of][visits[v].route].deploy =
          IF backend[visits[v].of] = "fails" THEN UpTo(@ + 1, DeployLimit) ELSE 0]
    /\ visits' = [visits EXCEPT ![v] = NoVisit]
    /\ UNCHANGED <<route, issues, backend>>

ContractNext ==
    \/ \E t \in Tenant :
          \/ Reissue(t) \/ Withdraw(t) \/ PushLooksUp(t)
          \/ \E answer \in Answer : BackendTurns(t, answer)
          \/ \E v \in Visit : CallbackBegins(v, t) \/ WebhookBegins(v, t)
    \/ \E v \in Visit :
          ExchangeFails(v) \/ Exchanged(v) \/ Deposited(v) \/ Forwarded(v)

ContractSpec == ContractInit /\ [][ContractNext]_contractVars

-----------------------------------------------------------------------------
(* What a deposit's answer says is counted for the route it was sent over, *)
(* although the route may have been issued anew or withdrawn and other     *)
(* deposits may have been answered since: a new route starts clean, and an *)
(* old one's late answers do not count for it.                             *)
CountedWhereSent ==
    [][\A t \in Tenant, i \in 0..MaxIssue :
          metrics'[t][i].deposit # metrics[t][i].deposit =>
              \E v \in Visit :
                  /\ visits[v] = [at |-> "depositing", of |-> t, route |-> i]
                  /\ visits'[v] # visits[v]]_contractVars
=============================================================================
