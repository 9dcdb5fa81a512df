------------------------- MODULE TenantRoutesProofs -------------------------
(***************************************************************************)
(* Tenant admission and the route registry for every set of tenants, keys, *)
(* repositories and versions, every deploy bundle and validity, and any    *)
(* number of requests, commits and overlapping refreshes.                  *)
(***************************************************************************)
EXTENDS TenantRoutes, FiniteSetTheorems, WellFoundedInduction, TLAPS

-----------------------------------------------------------------------------
(* The route policy.                                                       *)

Policy(p) ==
    /\ p \in [Tenant -> SUBSET Entry]
    /\ \A t \in Tenant : \A e, f \in p[t] : e = f

CommitSound(c) ==
    /\ c = [saved |-> c.saved, returns |-> c.returns]
    /\ Policy(c.saved.policy)
    /\ \A a \in released : Covers(c.saved.policy, a)
    /\ \A a \in c.returns : a \in Admission /\ Covers(policy, a)

PolicyInv ==
    /\ now \in Nat
    /\ Policy(policy)
    /\ requests \subseteq Admission
    /\ released \subseteq Admission
    /\ ReleasedCovered
    /\ \A c \in commit : CommitSound(c)

LEMMA LargerIsUpperBound ==
    ASSUME NEW m \in Int, NEW n \in Int
    PROVE  /\ Larger(m, n) \in {m, n}
           /\ Larger(m, n) >= m
           /\ Larger(m, n) >= n
BY DEF Larger

(* Accepting a version moves no key and no floor. *)
LEMMA AcceptedCovers ==
    ASSUME Policy(policy), NEW f \in [Tenant -> Version \union {0}], Accepting(f)
    PROVE  /\ Policy(policy')
           /\ \A a \in Admission : Covers(policy, a) => Covers(policy', a)
<1> DEFINE moved(t) == {[e EXCEPT !.latest = Larger(@, f[t])] : e \in policy[t]}
<1>1. policy' = [t \in Tenant |-> moved(t)]
  BY DEF Accepting
<1>2. ASSUME NEW t \in Tenant, NEW e \in policy[t]
      PROVE  /\ [e EXCEPT !.latest = Larger(@, f[t])] \in Entry
             /\ [e EXCEPT !.latest = Larger(@, f[t])].key = e.key
             /\ [e EXCEPT !.latest = Larger(@, f[t])].min = e.min
  <2>1. e \in Entry /\ f[t] \in Version \union {0}
    BY DEF Policy
  <2>2. Larger(e.latest, f[t]) \in Version \union {0}
    BY <2>1, LargerIsUpperBound DEF Entry, Version
  <2> QED
    BY <2>1, <2>2 DEF Entry
<1>3. Policy(policy')
  BY <1>1, <1>2 DEF Policy
<1>4. ASSUME NEW a \in Admission, Covers(policy, a)
      PROVE  Covers(policy', a)
  <2>1. a.tenant \in Tenant
    BY DEF Admission
  <2>2. PICK e \in policy[a.tenant] : e.key = a.key /\ e.min >= a.min
    BY <1>4 DEF Covers
  <2> DEFINE e2 == [e EXCEPT !.latest = Larger(@, f[a.tenant])]
  <2>3. e2.key = e.key /\ e2.min = e.min
    BY <1>2, <2>1, <2>2
  <2>4. e2 \in policy'[a.tenant]
    BY <1>1, <2>1, <2>2
  <2> HIDE DEF e2
  <2> QED
    BY <2>2, <2>3, <2>4 DEF Covers
<1> QED
  BY <1>3, <1>4

LEMMA AcceptingKeepsInv ==
    ASSUME PolicyInv, NEW f \in [Tenant -> Version \union {0}], Accepting(f),
           UNCHANGED <<now, requests, commit, released>>
    PROVE  PolicyInv'
<1>1. Policy(policy') /\ \A a \in Admission : Covers(policy, a) => Covers(policy', a)
  BY AcceptedCovers DEF PolicyInv
<1>2. ReleasedCovered'
  BY <1>1 DEF PolicyInv, ReleasedCovered
<1>3. \A c \in commit : CommitSound(c)'
  BY <1>1 DEF PolicyInv, CommitSound
<1> QED
  BY <1>1, <1>2, <1>3 DEF PolicyInv

(* The entry an admission's commit records covers its certificate, and     *)
(* every certificate that was covered.                                     *)
LEMMA RecordedCovers ==
    ASSUME Policy(policy), NEW r \in Admission, Stands(r)
    PROVE  /\ Policy(Recorded(r))
           /\ Covers(Recorded(r), Certificate(r))
           /\ \A a \in Admission : Covers(policy, a) => Covers(Recorded(r), a)
<1> DEFINE t == r.tenant
           new == [key |-> r.key, min |-> r.min, latest |-> 0]
           raised(e) == [e EXCEPT !.key = r.key, !.min = Larger(@, r.min)]
<1>1. t \in Tenant /\ r.key \in Key /\ r.min \in Version /\ new \in Entry
  BY DEF Admission, Entry
<1>2. CASE policy[t] = {}
  <2>1. Recorded(r) = [policy EXCEPT ![t] = {new}]
    BY <1>2 DEF Recorded, Policy
  <2>2. /\ Recorded(r) \in [Tenant -> SUBSET Entry]
        /\ Recorded(r)[t] = {new}
        /\ \A u \in Tenant \ {t} : Recorded(r)[u] = policy[u]
    BY <1>1, <2>1 DEF Policy
  <2>3. Policy(Recorded(r))
    BY <2>2 DEF Policy
  <2>4. Covers(Recorded(r), Certificate(r))
    BY <1>1, <2>2 DEF Covers, Certificate, Version
  <2>5. \A a \in Admission : Covers(policy, a) => Covers(Recorded(r), a)
    BY <1>2, <2>2 DEF Covers, Admission
  <2> QED
    BY <2>3, <2>4, <2>5
<1>3. CASE policy[t] # {}
  <2>1. PICK e \in policy[t] : TRUE
    BY <1>3
  <2>2. policy[t] = {e} /\ e \in Entry /\ e.key = r.key
    BY <1>1, <2>1 DEF Policy, Stands, KeepsKey
  <2>3. Recorded(r) = [policy EXCEPT ![t] = {raised(e)}]
    <3>1. Recorded(r) = [policy EXCEPT ![t] = {raised(x) : x \in policy[t]}]
      BY <1>3 DEF Recorded
    <3>2. {raised(x) : x \in policy[t]} = {raised(e)}
      BY <2>2
    <3> QED
      BY <3>1, <3>2
  <2>4. /\ Larger(e.min, r.min) \in Version
        /\ Larger(e.min, r.min) >= e.min
        /\ Larger(e.min, r.min) >= r.min
    BY <1>1, <2>2, LargerIsUpperBound DEF Entry, Version
  <2>5. /\ raised(e) \in Entry
        /\ raised(e).key = r.key
        /\ raised(e).min = Larger(e.min, r.min)
    BY <1>1, <2>2, <2>4 DEF Entry
  <2>6. /\ Recorded(r) \in [Tenant -> SUBSET Entry]
        /\ Recorded(r)[t] = {raised(e)}
        /\ \A u \in Tenant \ {t} : Recorded(r)[u] = policy[u]
    BY <1>1, <2>3, <2>5 DEF Policy
  <2>7. Policy(Recorded(r))
    BY <2>6 DEF Policy
  <2>8. Covers(Recorded(r), Certificate(r))
    BY <2>4, <2>5, <2>6 DEF Covers, Certificate
  <2>9. ASSUME NEW a \in Admission, Covers(policy, a)
        PROVE  Covers(Recorded(r), a)
    <3>1. CASE a.tenant = t
      <4>1. e.key = a.key /\ e.min >= a.min
        BY <2>2, <2>9, <3>1 DEF Covers
      <4>2. Larger(e.min, r.min) >= a.min
        BY <1>1, <2>2, <2>4, <4>1 DEF Entry, Admission, Version
      <4> QED
        BY <2>2, <2>5, <2>6, <3>1, <4>1, <4>2 DEF Covers
    <3>2. CASE a.tenant # t
      BY <2>6, <2>9, <3>2 DEF Covers, Admission
    <3> QED
      BY <3>1, <3>2
  <2> QED
    BY <2>7, <2>8, <2>9
<1> QED
  BY <1>2, <1>3

LEMMA PolicyStepKeepsInv == PolicyInv /\ PolicyStep => PolicyInv'
<1> SUFFICES ASSUME PolicyInv, PolicyStep PROVE PolicyInv'
  OBVIOUS
<1> USE DEF PolicyInv
<1>1. ASSUME NEW g \in Registration, RequestAdmission(g)
      PROVE  PolicyInv'
  <2>1. [tenant |-> g.tenant, key |-> g.key, min |-> g.min,
         expires |-> now + AdmissionTtl] \in Admission
    BY PolicyAssumption DEF Registration, Admission
  <2> QED
    BY <1>1, <2>1 DEF RequestAdmission, ReleasedCovered, CommitSound
<1>2. ASSUME NEW r \in requests, CommitAdmission(r)
      PROVE  PolicyInv'
  <2>1. r \in Admission /\ Stands(r)
    BY <1>2 DEF CommitAdmission
  <2>2. Certificate(r) \in Admission
    BY <2>1 DEF Certificate, Admission
  <2>3. PICK c : /\ c = [saved |-> Snapshot, returns |-> {Certificate(r)}]
                 /\ commit' = {c}
    BY <1>2 DEF CommitAdmission
  <2>4. policy' = Recorded(r) /\ UNCHANGED <<now, released>>
    BY <1>2 DEF CommitAdmission
  <2>5. CommitSound(c)'
    BY <2>1, <2>2, <2>3, <2>4, RecordedCovers DEF CommitSound, Snapshot, ReleasedCovered
  <2>6. Policy(policy)' /\ ReleasedCovered'
    BY <2>1, <2>4, RecordedCovers DEF ReleasedCovered
  <2> QED
    BY <1>2, <2>3, <2>4, <2>5, <2>6 DEF CommitAdmission
<1>3. ASSUME NEW r \in requests, RefuseAdmission(r)
      PROVE  PolicyInv'
  BY <1>3 DEF RefuseAdmission, ReleasedCovered, CommitSound
<1>4. CASE CommitHandoff
  <2>1. PICK c : c = [saved |-> Snapshot, returns |-> {}] /\ commit' = {c}
    BY <1>4 DEF CommitHandoff
  <2>2. CommitSound(c)'
    BY <1>4, <2>1 DEF CommitHandoff, CommitSound, Snapshot, ReleasedCovered
  <2> QED
    BY <1>4, <2>1, <2>2 DEF CommitHandoff, ReleasedCovered
<1>5. CASE Acknowledge
  BY <1>5 DEF Acknowledge, ReleasedCovered, CommitSound
<1>6. CASE Revert
  BY <1>6 DEF Revert, ReleasedCovered, CommitSound
<1>7. CASE Tick
  BY <1>7 DEF Tick, ReleasedCovered, CommitSound
<1> QED
  BY <1>1, <1>2, <1>3, <1>4, <1>5, <1>6, <1>7 DEF PolicyStep

LEMMA PolicyInvStep ==
    ASSUME PolicyInv, [PolicyNext]_policyVars
    PROVE  PolicyInv'
<1>1. CASE RecordAccepted
  BY <1>1, AcceptingKeepsInv DEF RecordAccepted
<1>2. CASE UNCHANGED policyVars
  BY <1>2 DEF policyVars, PolicyInv, ReleasedCovered, CommitSound
<1> QED
  BY <1>1, <1>2, PolicyStepKeepsInv DEF PolicyNext

(***************************************************************************)
(* Every admission certificate a tenant holds is covered by the policy     *)
(* (issueTenantAdmissionCertificate, recordTenantAdmissionInState): for    *)
(* the policy alone.                                                       *)
(***************************************************************************)
THEOREM PolicyCoversReleased == PolicySpec => []ReleasedCovered
<1>1. PolicyInit => PolicyInv
  BY DEF PolicyInit, PolicyInv, Policy, ReleasedCovered
<1>2. PolicyInv /\ [PolicyNext]_policyVars => PolicyInv'
  BY PolicyInvStep
<1>3. PolicyInv => ReleasedCovered
  BY DEF PolicyInv
<1> QED
  BY <1>1, <1>2, <1>3, PTL DEF PolicySpec

-----------------------------------------------------------------------------
(* The registry implements it.                                             *)

(* A document was signed under an admission that a tenant held.            *)
Genuine(d) ==
    \/ d = Malformed
    \/ /\ d \in [admission: released, target: Target, version: Version, expires: Nat]
       /\ d.target \in {d.admission.tenant} \union Repo

Listed(docs) ==
    /\ docs \in [1..Slots -> SUBSET UNION {docs[i] : i \in 1..Slots}]
    /\ \A i \in 1..Slots : \A d \in docs[i] : Genuine(d)

StoreInv == Listed(store) /\ \A l \in loads : Listed(l)

(* A set of route versions has a highest one. *)
LEMMA HighestVersion ==
    ASSUME NEW vs \in SUBSET Version, vs # {}
    PROVE  \E v \in vs : \A w \in vs : v >= w
<1> DEFINE below == {MaxVersion - v : v \in vs}
<1>1. below \subseteq Nat /\ below # {}
  <2>1. ASSUME NEW v \in vs
        PROVE  MaxVersion - v \in Nat
    BY PolicyAssumption DEF Version
  <2> QED
    BY <2>1
<1>2. PICK n \in below : \A m \in below : ~(<<m, n>> \in OpToRel(<, Nat))
  BY <1>1, NatLessThanWellFounded, WFMin
<1>3. \A m \in below : m >= n
  <2>1. \A m \in below : <<m, n>> \in Nat \X Nat
    BY <1>1
  <2>2. \A m \in below : ~(m < n)
    BY <1>2, <2>1, Zenon DEF OpToRel
  <2>3. ASSUME NEW m \in below
        PROVE  m >= n
    <3>1. m \in Nat /\ n \in Nat /\ ~(m < n)
      BY <1>1, <2>2
    <3> HIDE DEF below
    <3> QED
      BY <3>1
  <2> QED
    BY <2>3
<1>4. PICK v \in vs : n = MaxVersion - v
  OBVIOUS
<1>5. \A w \in vs : MaxVersion - w \in below
  OBVIOUS
<1>6. \A w \in vs : v >= w
  BY <1>3, <1>4, <1>5, PolicyAssumption DEF Version
<1> QED
  BY <1>6

LEMMA VersionsAreVersions ==
    ASSUME NEW l, Listed(l)
    PROVE  Versions(l) \in [Tenant -> Version \union {0}]
<1> SUFFICES ASSUME NEW t \in Tenant
             PROVE  Versions(l)[t] \in Version \union {0}
  BY DEF Versions
<1> DEFINE vs == {d.version : d \in {x \in Accepted(l) : x.target = t}}
<1>1. ASSUME NEW d \in Accepted(l)
      PROVE  d.version \in Version
  BY <1>1 DEF Accepted, Verified, Listed, Genuine
<1>2. vs \subseteq Version
  BY <1>1
<1>3. Versions(l)[t] = IF vs = {} THEN 0 ELSE CHOOSE v \in vs : \A w \in vs : v >= w
  BY DEF Versions
<1>4. vs # {} => (CHOOSE v \in vs : \A w \in vs : v >= w) \in vs
  BY <1>2, HighestVersion
<1> QED
  BY <1>2, <1>3, <1>4

LEMMA SlotWritten ==
    ASSUME Listed(store), NEW i \in 1..Slots, NEW slot, \A d \in slot : Genuine(d),
           store' = [store EXCEPT ![i] = slot]
    PROVE  Listed(store')
BY DEF Listed

LEMMA StoreInvStep ==
    ASSUME PolicyInv, StoreInv, [Next]_vars
    PROVE  StoreInv'
<1>1. CASE PolicyStep /\ UNCHANGED registryVars
  <2>1. released \subseteq released'
    BY <1>1 DEF PolicyStep, RequestAdmission, CommitAdmission, RefuseAdmission,
       CommitHandoff, Acknowledge, Revert, Tick
  <2>2. \A d : Genuine(d) => Genuine(d)'
    BY <2>1 DEF Genuine
  <2>3. \A l : Listed(l) => Listed(l)'
    BY <2>2 DEF Listed
  <2> QED
    BY <1>1, <2>3 DEF StoreInv, registryVars
<1>2. CASE Publish
  <2>1. UNCHANGED <<released, loads>>
    BY <1>2 DEF Publish
  <2>2. \A d : Genuine(d)' <=> Genuine(d)
    BY <2>1 DEF Genuine
  <2>3. \A l : Listed(l)' <=> Listed(l)
    BY <2>2 DEF Listed
  <2>4. PICK i \in 1..Slots :
          \/ \E a \in released, v \in Version : \E g \in {a.tenant} \union Repo :
                store' = [store EXCEPT ![i] =
                   {[admission |-> a, target |-> g, version |-> v,
                     expires |-> now + RouteTtl]}]
          \/ store' = [store EXCEPT ![i] = {Malformed}]
          \/ store' = [store EXCEPT ![i] = {}]
    BY <1>2 DEF Publish
  <2>5. ASSUME NEW a \in released, NEW v \in Version,
               NEW g \in {a.tenant} \union Repo,
               store' = [store EXCEPT ![i] =
                   {[admission |-> a, target |-> g, version |-> v,
                     expires |-> now + RouteTtl]}]
        PROVE  Listed(store')
    <3> DEFINE d == [admission |-> a, target |-> g, version |-> v,
                     expires |-> now + RouteTtl]
    <3>1. g \in Target /\ now + RouteTtl \in Nat
      BY RegistryAssumption DEF PolicyInv, Admission, Target
    <3>2. Genuine(d)
      BY <3>1 DEF Genuine
    <3>3. store' = [store EXCEPT ![i] = {d}]
      BY <2>5
    <3> HIDE DEF d
    <3>4. \A x \in {d} : Genuine(x)
      BY <3>2
    <3> QED
      BY <3>3, <3>4, SlotWritten DEF StoreInv
  <2>6. ASSUME store' = [store EXCEPT ![i] = {Malformed}]
        PROVE  Listed(store')
    <3>1. \A x \in {Malformed} : Genuine(x)
      BY DEF Genuine
    <3> QED
      BY <2>6, <3>1, SlotWritten DEF StoreInv
  <2>7. ASSUME store' = [store EXCEPT ![i] = {}]
        PROVE  Listed(store')
    <3>1. \A x \in {} : Genuine(x)
      OBVIOUS
    <3> QED
      BY <2>7, <3>1, SlotWritten DEF StoreInv
  <2>8. Listed(store')
    BY <2>4, <2>5, <2>6, <2>7
  <2> QED
    BY <2>1, <2>3, <2>8 DEF StoreInv
<1>3. CASE Load
  BY <1>3 DEF Load, StoreInv, Listed, Genuine
<1>4. ASSUME NEW l \in loads, LoadFails(l) \/ Build(l)
      PROVE  StoreInv'
  BY <1>4 DEF LoadFails, Build, StoreInv, Listed, Genuine
<1>5. CASE UNCHANGED vars
  BY <1>5 DEF vars, StoreInv, Listed, Genuine
<1> QED
  BY <1>1, <1>2, <1>3, <1>4, <1>5 DEF Next, RegistryStep

(* Every step of the registry is one of the policy, or none. *)
LEMMA NextIsPolicyNext ==
    ASSUME StoreInv, [Next]_vars
    PROVE  [PolicyNext]_policyVars
<1>1. CASE PolicyStep
  BY <1>1 DEF PolicyNext
<1>2. CASE Publish \/ Load
  BY <1>2 DEF Publish, Load, policyVars
<1>3. ASSUME NEW l \in loads, LoadFails(l)
      PROVE  UNCHANGED policyVars
  BY <1>3 DEF LoadFails, policyVars
<1>4. ASSUME NEW l \in loads, Build(l)
      PROVE  RecordAccepted
  <2>1. Accepting(Versions(l))
    BY <1>4 DEF Build
  <2>2. Versions(l) \in [Tenant -> Version \union {0}]
    BY VersionsAreVersions DEF StoreInv
  <2> QED
    BY <1>4, <2>1, <2>2 DEF Build, RecordAccepted
<1>5. CASE UNCHANGED vars
  BY <1>5 DEF vars, policyVars
<1> QED
  BY <1>1, <1>2, <1>3, <1>4, <1>5 DEF Next, RegistryStep, PolicyNext

LEMMA RegistryInvHolds == Spec => [](PolicyInv /\ StoreInv)
<1>1. Init => PolicyInv /\ StoreInv
  BY DEF Init, PolicyInit, PolicyInv, Policy, ReleasedCovered, StoreInv, Listed
<1>2. PolicyInv /\ StoreInv /\ [Next]_vars => (PolicyInv /\ StoreInv)'
  BY StoreInvStep, NextIsPolicyNext, PolicyInvStep
<1> QED
  BY <1>1, <1>2, PTL DEF Spec

(***************************************************************************)
(* The registry's writes to the policy, which hold no lock                 *)
(* (recordAcceptedRouteVersion), are those the route policy allows.        *)
(***************************************************************************)
THEOREM RegistryImplementsPolicy == Spec => ImplementsPolicy
<1>1. Init => PolicyInit
  BY DEF Init
<1>2. StoreInv /\ [Next]_vars => [PolicyNext]_policyVars
  BY NextIsPolicyNext
<1> QED
  BY <1>1, <1>2, RegistryInvHolds, PTL DEF Spec, PolicySpec, ImplementsPolicy

(* So admissions stay covered with the registry beside them. *)
THEOREM AdmissionsStayCovered == Spec => []ReleasedCovered
BY RegistryImplementsPolicy, PolicyCoversReleased, PTL DEF ImplementsPolicy

(***************************************************************************)
(* A refresh installs no tenant route below the floor of a released        *)
(* admission, by another key, or expired, however late its documents were  *)
(* read (buildRegistryState).                                              *)
(***************************************************************************)
LEMMA BuildRefusesRollback ==
    ASSUME PolicyInv, StoreInv, NEW l \in loads, Build(l),
           registry' # registry, NEW t \in Tenant, NEW d \in registry'[t],
           NEW a \in released, a.tenant = t
    PROVE  d.version >= a.min /\ d.admission.key = a.key /\ d.expires > now
<1>1. d \in First(l, t) \union {b \in Bundle : b.target = t}
  BY DEF Build, Target
<1>2. d \in First(l, t)
  BY <1>1, RegistryAssumption
<1>3. d \in Accepted(l) /\ d.target = t
  BY <1>2 DEF First
<1>4. PICK i \in 1..Slots : d \in l[i] /\ Verified(d)
  BY <1>3 DEF Accepted
<1>5. /\ d \in [admission: released, target: Target, version: Version, expires: Nat]
      /\ d.admission.tenant = t
  BY <1>3, <1>4, RegistryAssumption DEF StoreInv, Listed, Genuine, Verified
<1>6. d.admission \in released /\ d.admission \in Admission /\ a \in Admission
  BY <1>5 DEF PolicyInv
<1>7. PICK e \in policy[t] : e.key = a.key /\ e.min >= a.min
  BY DEF PolicyInv, ReleasedCovered, Covers
<1>8. PICK f \in policy[t] : f.key = d.admission.key
  BY <1>5, <1>6 DEF PolicyInv, ReleasedCovered, Covers
<1>9. e = f /\ e \in Entry
  BY DEF PolicyInv, Policy
<1>10. /\ d.admission.min >= e.min
       /\ d.version >= d.admission.min
       /\ d.expires > now
  BY <1>4, <1>5 DEF Verified, AdmissionStands, RouteStands
<1>11. /\ a.min \in Nat /\ e.min \in Nat
       /\ d.admission.min \in Nat /\ d.version \in Nat
  BY <1>5, <1>6, <1>9 DEF Admission, Entry, Version
<1> QED
  BY <1>7, <1>8, <1>9, <1>10, <1>11

(* Every refresh, in every behaviour, refuses it. *)
THEOREM RollbackIsRefused == Spec => RollbackRefused
<1>1. ASSUME PolicyInv, StoreInv, [Next]_vars, registry' # registry,
             NEW t \in Tenant, NEW d \in registry'[t], NEW a \in released, a.tenant = t
      PROVE  d.version >= a.min /\ d.admission.key = a.key /\ d.expires > now
  <2>1. PICK l \in loads : Build(l)
    BY <1>1 DEF Next, RegistryStep, vars, registryVars, Publish, Load, LoadFails
  <2> QED
    BY <1>1, <2>1, BuildRefusesRollback
<1>2. PolicyInv /\ StoreInv /\ [Next]_vars =>
        [registry' # registry =>
           \A t \in Tenant : \A d \in registry'[t] : \A a \in released :
               a.tenant = t => /\ d.version >= a.min
                               /\ d.admission.key = a.key
                               /\ d.expires > now]_vars
  BY <1>1
<1> QED
  BY <1>2, RegistryInvHolds, PTL DEF Spec, RollbackRefused

-----------------------------------------------------------------------------
(* Types.                                                                  *)

Statuses == {"active", "activating_successor", "retired"}

TypeInv ==
    /\ now \in 0..MaxTime
    /\ status \in Statuses
    /\ \A c \in commit : c.saved.status \in Statuses
    /\ work \in 0..MaxWork
    /\ published \in 0..MaxPublish
    /\ \A g \in Target : registry[g] \subseteq Document \union Bundle

LEMMA AcceptedAreDocuments ==
    ASSUME released \subseteq Admission, NEW l, Listed(l)
    PROVE  Accepted(l) \subseteq Document
BY DEF Accepted, Verified, Listed, Genuine, Document

LEMMA TypeInvStep ==
    ASSUME PolicyInv, StoreInv, TypeInv, [Next]_vars
    PROVE  TypeInv'
<1> USE PolicyAssumption, RegistryAssumption DEF TypeInv, Statuses
<1>1. CASE PolicyStep /\ UNCHANGED registryVars
  <2>1. UNCHANGED <<registry, published>>
    BY <1>1 DEF registryVars
  <2>2. CASE (\E g \in Registration : RequestAdmission(g)) \/ Tick
    BY <2>1, <2>2 DEF RequestAdmission, Tick
  <2>3. CASE \E r \in requests : CommitAdmission(r) \/ RefuseAdmission(r)
    BY <2>1, <2>3 DEF CommitAdmission, RefuseAdmission, Snapshot
  <2>4. CASE CommitHandoff
    BY <2>1, <2>4 DEF CommitHandoff, Snapshot
  <2>5. CASE Acknowledge \/ Revert
    BY <2>1, <2>5 DEF Acknowledge, Revert
  <2> QED
    BY <1>1, <2>2, <2>3, <2>4, <2>5 DEF PolicyStep
<1>2. CASE Publish \/ Load
  BY <1>2 DEF Publish, Load
<1>3. ASSUME NEW l \in loads, LoadFails(l)
      PROVE  TypeInv'
  BY <1>3 DEF LoadFails
<1>4. ASSUME NEW l \in loads, Build(l)
      PROVE  TypeInv'
  <2>1. Accepted(l) \subseteq Document
    BY AcceptedAreDocuments DEF PolicyInv, StoreInv
  <2>2. \A g \in Target : First(l, g) \subseteq Document
    BY <2>1 DEF First
  <2>3. \A g \in Target : registry'[g] \subseteq Document \union Bundle
    BY <1>4, <2>2 DEF Build
  <2> QED
    BY <1>4, <2>3 DEF Build
<1>5. CASE UNCHANGED vars
  BY <1>5 DEF vars
<1> QED
  BY <1>1, <1>2, <1>3, <1>4, <1>5 DEF Next, RegistryStep

LEMMA ListedType ==
    ASSUME released \subseteq Admission, NEW l, Listed(l)
    PROVE  l \in [1..Slots -> SUBSET (Document \union {Malformed})]
<1>1. ASSUME NEW i \in 1..Slots, NEW d \in l[i]
      PROVE  d \in Document \union {Malformed}
  BY DEF Listed, Genuine, Document
<1> QED
  BY <1>1 DEF Listed

LEMMA InvsImplyTypeOK ==
    ASSUME PolicyInv, StoreInv, TypeInv
    PROVE  TypeOK
<1>1. ASSUME NEW t \in Tenant
      PROVE  Cardinality(policy[t]) <= 1
  <2>1. CASE policy[t] = {}
    BY <2>1, FS_EmptySet
  <2>2. CASE policy[t] # {}
    <3>1. PICK e \in policy[t] : TRUE
      BY <2>2
    <3>2. policy[t] = {e}
      BY <3>1 DEF PolicyInv, Policy
    <3>3. Cardinality({e}) = 1
      BY FS_Singleton
    <3> QED
      BY <3>2, <3>3
  <2> QED
    BY <2>1, <2>2
<1>2. {Certificate(r) : r \in requests} \subseteq Admission
  BY DEF PolicyInv, Certificate, Admission
<1>3. \A c \in commit : c.saved.policy \in [Tenant -> SUBSET Entry]
  BY DEF PolicyInv, CommitSound, Policy
<1>4. /\ store \in [1..Slots -> SUBSET (Document \union {Malformed})]
      /\ loads \subseteq [1..Slots -> SUBSET (Document \union {Malformed})]
  BY ListedType DEF PolicyInv, StoreInv
<1> QED
  BY <1>1, <1>2, <1>3, <1>4 DEF TypeOK, TypeInv, Statuses, PolicyInv, Policy

(* The state has the shape the code gives it; a tenant has at most one     *)
(* entry in the policy.                                                    *)
THEOREM RegistryTypes == Spec => []TypeOK
<1>1. Init => TypeInv
  BY PolicyAssumption, RegistryAssumption DEF Init, PolicyInit, TypeInv, Statuses
<1>2. PolicyInv /\ StoreInv /\ TypeInv /\ [Next]_vars => TypeInv'
  BY TypeInvStep
<1>3. PolicyInv /\ StoreInv /\ TypeInv => TypeOK
  BY InvsImplyTypeOK
<1> QED
  BY <1>1, <1>2, <1>3, RegistryInvHolds, PTL DEF Spec
=============================================================================
