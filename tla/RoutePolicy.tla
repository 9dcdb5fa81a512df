---------------------------- MODULE RoutePolicy ----------------------------
(***************************************************************************)
(* Tenant admission and the route policy of src/src/governance-state.js.   *)
(* The active broker signs an admission certificate for a tenant that      *)
(* proves control of its route key, and records the tenant's key and the   *)
(* lowest route version it may be routed by in a governance commit, before *)
(* the certificate is released.  The check of the key, the signing and the *)
(* commit are separated by awaits, so requests overlap each other and the  *)
(* commits of a successor handoff.  The version of a route the registry    *)
(* accepts is written into the same policy with no lock.                   *)
(***************************************************************************)
EXTENDS Integers, FiniteSets

CONSTANTS
    Tenant,        \* tenants
    Key,           \* route signing keys a tenant may hold
    MaxVersion,    \* the highest route version: a JSON number is finite
    AdmissionTtl,  \* ttlMs of an admission certificate
    MaxWork,       \* bound on admission requests and handoff commits
    MaxTime        \* bound on time

ASSUME PolicyAssumption ==
    {MaxVersion, AdmissionTtl, MaxWork, MaxTime} \subseteq Nat

(* What assertTenantAdmissionInput and validateRoutePayload accept.        *)
Version == 1..MaxVersion

(* What a tenant signs, with the key it names, to be admitted: good until  *)
(* it expires, any number of times (verifyTenantRegistrationEnvelope).     *)
Registration == [tenant: Tenant, key: Key, min: Version, expires: 0..MaxTime]
Admission == [tenant: Tenant, key: Key, min: Version, expires: Nat]
Entry == [key: Key, min: Version, latest: Version \union {0}]

VARIABLES
    now,       \* the broker's clock
    status,    \* the governance status
    policy,    \* routePolicy.admittedTenants: {} or {the tenant's entry}
    requests,  \* admission requests signed and not yet committed
    commit,    \* the commit that waits for the custodian, {} if none
    work,      \* how much of MaxWork is spent
    released   \* history: admission certificates returned to tenants

policyVars == <<now, status, policy, requests, commit, work, released>>

Snapshot == [status |-> status, policy |-> policy]

PolicyInit ==
    /\ now = 0
    /\ status = "active"
    /\ policy = [t \in Tenant |-> {}]
    /\ requests = {}
    /\ commit = {}
    /\ work = 0
    /\ released = {}

(* assertTenantRegistrationFresh *)
Fresh(g) == g.expires > now

(* assertTenantAdmissionDoesNotReplaceExistingKey *)
KeepsKey(g) == \A e \in policy[g.tenant] : e.key = g.key

(***************************************************************************)
(* /governance/tenant-admission: the registration is fresh and signed by   *)
(* the key it registers, governance is active, and a tenant admitted       *)
(* before keeps its key.  Then the certificate is signed.  (Its lineage    *)
(* digest is left out: no step of an active broker changes the lineage.)   *)
(***************************************************************************)
RequestAdmission(g) ==
    /\ work < MaxWork
    /\ Fresh(g)
    /\ status = "active"
    /\ KeepsKey(g)
    /\ work' = work + 1
    /\ requests' = requests \union
          {[tenant |-> g.tenant, key |-> g.key, min |-> g.min,
            expires |-> now + AdmissionTtl]}
    /\ UNCHANGED <<now, status, policy, commit, released>>

Certificate(r) ==
    [tenant |-> r.tenant, key |-> r.key, min |-> r.min, expires |-> r.expires]

Larger(m, n) == IF m >= n THEN m ELSE n

(* Mutant: a new admission is added beside the old one. *)
RecordedBeside(r) ==
    [policy EXCEPT ![r.tenant] =
        @ \union {[key |-> r.key, min |-> r.min, latest |-> 0]}]

(* recordTenantAdmissionInState *)
Recorded(r) ==
    [policy EXCEPT ![r.tenant] =
        IF @ = {}
        THEN {[key |-> r.key, min |-> r.min, latest |-> 0]}
        ELSE {[e EXCEPT !.key = r.key, !.min = Larger(@, r.min)] : e \in @}]

(* Mutant: the key is not looked at again under the lock. *)
StandsByStatus(r) == status = "active"

(* What the admission's commit finds changed since the checks. *)
Stands(r) == status = "active" /\ KeepsKey(r)

(***************************************************************************)
(* withGovernanceCommit: one commit at a time changes the state, awaits    *)
(* the custodian, and then returns or puts the snapshot back.              *)
(***************************************************************************)
CommitAdmission(r) ==
    /\ commit = {}
    /\ requests' = requests \ {r}
    /\ Stands(r)
    /\ commit' = {[saved |-> Snapshot, returns |-> {Certificate(r)}]}
    /\ policy' = Recorded(r)
    /\ UNCHANGED <<now, status, work, released>>

RefuseAdmission(r) ==
    /\ commit = {}
    /\ requests' = requests \ {r}
    /\ ~Stands(r)
    /\ UNCHANGED <<now, status, policy, commit, work, released>>

(* The commits of a handoff (ActivationHandoff): begun, given up, ended.   *)
CommitHandoff ==
    /\ work < MaxWork
    /\ work' = work + 1
    /\ commit = {}
    /\ \/ status = "active" /\ status' = "activating_successor"
       \/ status = "activating_successor" /\ status' \in {"active", "retired"}
    /\ commit' = {[saved |-> Snapshot, returns |-> {}]}
    /\ UNCHANGED <<now, policy, requests, released>>

Acknowledge ==
    /\ commit # {}
    /\ released' = released \union UNION {c.returns : c \in commit}
    /\ commit' = {}
    /\ UNCHANGED <<now, status, policy, requests, work>>

Revert ==
    \E c \in commit :
        /\ status' = c.saved.status
        /\ policy' = c.saved.policy
        /\ commit' = {}
        /\ UNCHANGED <<now, requests, work, released>>

(* recordAcceptedRouteVersion, for each tenant of `accepted' (an entry of  *)
(* 0 accepts nothing).                                                     *)
Accepting(accepted) ==
    policy' = [t \in Tenant |->
        {[e EXCEPT !.latest = Larger(@, accepted[t])] : e \in policy[t]}]

RecordAccepted ==
    /\ \E accepted \in [Tenant -> Version \union {0}] : Accepting(accepted)
    /\ UNCHANGED <<now, status, requests, commit, work, released>>

Tick ==
    /\ now < MaxTime
    /\ now' = now + 1
    /\ UNCHANGED <<status, policy, requests, commit, work, released>>

PolicyStep ==
    \/ \E g \in Registration : RequestAdmission(g)
    \/ \E r \in requests : CommitAdmission(r) \/ RefuseAdmission(r)
    \/ CommitHandoff
    \/ Acknowledge
    \/ Revert
    \/ Tick

PolicyNext == PolicyStep \/ RecordAccepted

PolicySpec == PolicyInit /\ [][PolicyNext]_policyVars
-----------------------------------------------------------------------------
(***************************************************************************)
(* Properties                                                              *)
(***************************************************************************)
(* The policy covers a certificate: the tenant's key is the certificate's  *)
(* and its lowest route version is no lower.                               *)
Covers(p, a) == \E e \in p[a.tenant] : e.key = a.key /\ e.min >= a.min

(***************************************************************************)
(* Every admission certificate a tenant holds is covered by the policy,    *)
(* whatever requests, handoffs and failed commits came between its checks  *)
(* and its release: no later admission replaced its key or lowered its     *)
(* floor, and no revert took its entry back (issueTenantAdmissionCertifi-  *)
(* cate, recordTenantAdmissionInState, withGovernanceCommit).              *)
(***************************************************************************)
ReleasedCovered == \A a \in released : Covers(policy, a)
=============================================================================
