---------------------------- MODULE TenantRoutes ----------------------------
(***************************************************************************)
(* The route registry of src/src/route-registry.js over the route policy   *)
(* (RoutePolicy).  Tenants sign routes and publish them beside their       *)
(* admission in an untrusted document store; the broker's private deploy   *)
(* routes come in a bundle that is read once, at start-up.  A refresh      *)
(* reads the documents, and when they have arrived it verifies everything  *)
(* in one synchronous step, records the accepted versions in the policy,   *)
(* and installs a new registry, or throws and leaves the old one.  The     *)
(* timer does not wait for a refresh under way, nor do the loads after     *)
(* genesis, activation and custody, so refreshes overlap.                  *)
(***************************************************************************)
EXTENDS RoutePolicy

CONSTANTS
    Repo,      \* repositories with a deploy webhook route
    Bundle,    \* the deploy bundle: routes by static trust anchors
    Malformed, \* a document whose schemas, keys, hosts or signatures are wrong
    Slots,     \* the documents of the store are listed as 1..Slots
    RouteTtl,  \* validity of a signed route
    MaxLoads,  \* bound on overlapping refreshes
    MaxPublish \* bound on changes of the store

ASSUME RegistryAssumption ==
    /\ {Slots, RouteTtl, MaxLoads, MaxPublish} \subseteq Nat
    /\ Bundle \subseteq [target: Repo, version: Version, expires: Nat]
    /\ Tenant \cap Repo = {}  \* a UUID is no repository's full name

(* A tenant API route is served under its tenant, a deploy webhook route   *)
(* under its repository.                                                   *)
Target == Tenant \union Repo

(* An admission, and a route signed with the key it names. *)
Document == [admission: Admission, target: Target, version: Version, expires: Nat]

VARIABLES
    store,     \* store[i]: {} or {the document listed as i}
    published, \* number of changes of the store
    loads,     \* the documents that refreshes under way have read
    registry   \* registry[g]: {} or {what target g is served by}

registryVars == <<store, published, loads, registry>>
vars == <<now, status, policy, requests, commit, work, released,
          store, published, loads, registry>>

Init ==
    /\ PolicyInit
    /\ store = [i \in 1..Slots |-> {}]
    /\ published = 0
    /\ loads = {}
    /\ registry = [g \in Target |-> {}]

(* A tenant publishes a route under a certificate it holds, or the store   *)
(* is given something that will not verify, or loses a document.           *)
Publish ==
    /\ published < MaxPublish
    /\ published' = published + 1
    /\ \E i \in 1..Slots :
          \/ \E a \in released, v \in Version : \E g \in {a.tenant} \union Repo :
                store' = [store EXCEPT ![i] =
                   {[admission |-> a, target |-> g, version |-> v,
                     expires |-> now + RouteTtl]}]
          \/ store' = [store EXCEPT ![i] = {Malformed}]
          \/ store[i] # {} /\ store' = [store EXCEPT ![i] = {}]
    /\ UNCHANGED <<now, status, policy, requests, commit, work, released,
                   loads, registry>>

(* verifyTenantAdmissionEnvelope: unexpired, and no lower than the floor   *)
(* the policy holds for the tenant.                                        *)
AdmissionStands(a) ==
    /\ a.expires > now
    /\ \A e \in policy[a.tenant] : a.min >= e.min

(* validateRoutePayload: unexpired, and no lower than the admission.       *)
RouteStands(d) ==
    /\ d.version >= d.admission.min
    /\ d.expires > now

(* Mutant: only the admission the document brings bounds the version. *)
VerifiedAlone(d) ==
    /\ d # Malformed
    /\ d.admission.expires > now
    /\ RouteStands(d)

(* verifyTenantRouteDocument *)
Verified(d) ==
    /\ d # Malformed
    /\ AdmissionStands(d.admission)
    /\ RouteStands(d)

Accepted(docs) == {d \in UNION {docs[i] : i \in 1..Slots} : Verified(d)}

(* Mutant: a version is reported once, when its route is new. *)
VersionsOfNew(docs) == [t \in Tenant |->
    LET vs == {d.version : d \in {x \in Accepted(docs) \ registry[t] : x.target = t}}
    IN  IF vs = {} THEN 0 ELSE CHOOSE v \in vs : \A w \in vs : v >= w]

(* verifyTenantRouteDocument reports each API route it accepts. *)
Versions(docs) == [t \in Tenant |->
    LET vs == {d.version : d \in {x \in Accepted(docs) : x.target = t}}
    IN  IF vs = {} THEN 0 ELSE CHOOSE v \in vs : \A w \in vs : v >= w]

(* addVerifiedRoute: the first verified document of a target is installed; *)
(* a later one is a duplicate, rejected like one that does not verify.     *)
First(docs, g) == {d \in Accepted(docs) :
    /\ d.target = g
    /\ \E i \in 1..Slots :
          /\ docs[i] = {d}
          /\ \A j \in 1..(i - 1) : \A x \in docs[j] : ~(Verified(x) /\ x.target = g)}

(* The bundle's routes are not guarded: one that is expired, or whose      *)
(* target a document took, or that comes twice, fails the whole refresh.   *)
BundleStands(docs) ==
    \A b \in Bundle :
        /\ b.expires > now
        /\ First(docs, b.target) = {}
        /\ \A c \in Bundle : c.target = b.target => c = b

(* refreshRouteRegistry, to the answers of the store. *)
Load ==
    /\ Cardinality(loads) < MaxLoads
    /\ loads' = loads \union {store}
    /\ UNCHANGED <<now, status, policy, requests, commit, work, released,
                   store, published, registry>>

(* A fetch fails or times out. *)
LoadFails(l) ==
    /\ loads' = loads \ {l}
    /\ UNCHANGED <<now, status, policy, requests, commit, work, released,
                   store, published, registry>>

(* Mutant: one document that does not verify fails the refresh. *)
BuildAll(l) ==
    /\ loads' = loads \ {l}
    /\ Accepting(Versions(l))
    /\ IF BundleStands(l) /\ Accepted(l) = UNION {l[i] : i \in 1..Slots}
       THEN registry' = [g \in Target |->
               First(l, g) \union {b \in Bundle : b.target = g}]
       ELSE UNCHANGED registry
    /\ UNCHANGED <<now, status, requests, commit, work, released,
                   store, published>>

(* Mutant: a target with no new route keeps its old one. *)
BuildMerging(l) ==
    /\ loads' = loads \ {l}
    /\ Accepting(Versions(l))
    /\ registry' = [g \in Target |->
           IF First(l, g) = {} THEN registry[g] ELSE First(l, g)]
    /\ UNCHANGED <<now, status, requests, commit, work, released,
                   store, published>>

(* Mutant: an accepted version becomes the tenant's floor. *)
BuildRaising(l) ==
    /\ loads' = loads \ {l}
    /\ policy' = [t \in Tenant |->
           {[e EXCEPT !.min = Larger(@, Versions(l)[t])] : e \in policy[t]}]
    /\ registry' = [g \in Target |-> First(l, g)]
    /\ UNCHANGED <<now, status, requests, commit, work, released,
                   store, published>>

(* buildRegistryState and its assignment. *)
Build(l) ==
    /\ loads' = loads \ {l}
    /\ Accepting(Versions(l))
    /\ IF BundleStands(l)
       THEN registry' = [g \in Target |->
               First(l, g) \union {b \in Bundle : b.target = g}]
       ELSE UNCHANGED registry
    /\ UNCHANGED <<now, status, requests, commit, work, released,
                   store, published>>

RegistryStep ==
    \/ Publish
    \/ Load
    \/ \E l \in loads : LoadFails(l) \/ Build(l)

Next ==
    \/ PolicyStep /\ UNCHANGED registryVars
    \/ RegistryStep

Spec == Init /\ [][Next]_vars

(* The timer fires again and again, and now and then the sources answer a  *)
(* refresh, each of the documents listed included; commits end.            *)
FairSpec ==
    /\ Spec
    /\ WF_vars(Load)
    /\ SF_vars(\E l \in loads : l = store /\ Build(l))
    /\ WF_vars(\E l \in loads : l # store /\ (Build(l) \/ LoadFails(l)))
    /\ WF_vars((Acknowledge \/ Revert) /\ UNCHANGED registryVars)
-----------------------------------------------------------------------------
(***************************************************************************)
(* Properties                                                              *)
(***************************************************************************)
TypeOK ==
    /\ now \in 0..MaxTime
    /\ status \in {"active", "activating_successor", "retired"}
    /\ policy \in [Tenant -> SUBSET Entry]
    /\ \A t \in Tenant : Cardinality(policy[t]) <= 1
    /\ {Certificate(r) : r \in requests} \subseteq Admission
    /\ \A c \in commit : c.saved.policy \in [Tenant -> SUBSET Entry]
    /\ work \in 0..MaxWork
    /\ released \subseteq Admission
    /\ store \in [1..Slots -> SUBSET (Document \union {Malformed})]
    /\ published \in 0..MaxPublish
    /\ loads \subseteq [1..Slots -> SUBSET (Document \union {Malformed})]
    /\ \A g \in Target : registry[g] \subseteq Document \union Bundle

(* The registry's writes to the policy are those RoutePolicy allows: what  *)
(* holds of admissions there holds with the registry beside them.          *)
ImplementsPolicy == PolicySpec

(***************************************************************************)
(* A refresh, however late its documents were read, installs no tenant     *)
(* route below the floor of any admission released to that tenant, none    *)
(* signed by another key, and none that is expired: "route rollback is     *)
(* refused on the signed admission's minRouteVersion"                      *)
(* (recordAcceptedRouteVersion).                                           *)
(***************************************************************************)
RollbackRefused == [][
    registry' # registry =>
        \A t \in Tenant : \A d \in registry'[t] : \A a \in released :
            a.tenant = t => /\ d.version >= a.min
                            /\ d.admission.key = a.key
                            /\ d.expires > now]_vars

(***************************************************************************)
(* A document that stays published and valid, and first for its target, is *)
(* served in the end: "route documents corrected later (a re-issued tenant *)
(* admission) are picked up without a restart" (initializeRouteRegistry).  *)
(***************************************************************************)
Good(i, g) == \E d \in store[i] : d \in First(store, g)
Served(i, g) == \E d \in store[i] : registry[g] = {d}

CorrectedPickedUp == \A i \in 1..Slots, g \in Target :
    []<>(Good(i, g) => Served(i, g))

(* The same of tenant API routes, which no bundle can hold a target of.    *)
AdmissionPickedUp == \A i \in 1..Slots, t \in Tenant :
    []<>(Good(i, t) => Served(i, t))

(***************************************************************************)
(* No expired route stays in service for ever: expiry is only looked at by *)
(* a refresh, and the requests of tenants use what the registry holds.     *)
(***************************************************************************)
ExpiredDropped == \A g \in Target : []<>(\A d \in registry[g] : d.expires > now)

(***************************************************************************)
(* The policy's accepted version catches up with what is served, though it *)
(* is written with no lock and a failed commit takes it back               *)
(* (recordAcceptedRouteVersion, withGovernanceCommit).                     *)
(***************************************************************************)
RecordCatchesUp == \A t \in Tenant :
    []<>(\A d \in registry[t], e \in policy[t] : e.latest >= d.version)
=============================================================================
