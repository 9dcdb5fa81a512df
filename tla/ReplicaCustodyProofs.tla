------------------------ MODULE ReplicaCustodyProofs ------------------------
(***************************************************************************)
(* With fenced failover, ReplicaCustody keeps at most one live primary,    *)
(* every live copy of the lineage holds what an acknowledged state held,   *)
(* and no live replica loses a released change, for every set of changes   *)
(* and whatever the bounds on serials, boots and transfers are.            *)
(***************************************************************************)
EXTENDS ReplicaCustody, TLAPS

(* A custody transfer that its recipient would still accept. *)
Current(t) ==
    LET c == Other(t.by) IN
    up[c] /\ boot[c] = t.toBoot /\ state[c].status = "inactive"

(* A sync that its recipient would accept, now or after it is re-keyed. *)
Deliverable(m) ==
    LET c == Other(m.by) IN
    /\ up[c]
    /\ boot[c] = m.toBoot
    /\ \/ state[c].status = "inactive"
       \/ role[c] = "custodian" /\ m.state.serial > state[c].serial

(* The changes a primary has, or may at any moment have, as acknowledged. *)
Secured ==
    {c \in Change : c \in safe \/ \E r \in Replica :
                       commit[r] = "acknowledged" /\ c \in state[r].changes}

-----------------------------------------------------------------------------
(* The inductive invariant. *)

HoldersKeep == \A r \in Replica : Holder(r) => Secured \subseteq state[r].changes

TransfersKeep ==
    \A t \in serving \cup bundles : Current(t) => Secured \subseteq t.state.changes

SyncsKeep == \A m \in syncs : Deliverable(m) => Secured \subseteq m.state.changes

RevertKeeps ==
    \A r \in Replica : commit[r] # "idle" =>
        /\ safe \subseteq previous[r].changes
        /\ previous[r].status # "inactive"

CommitByPrimary ==
    \A r \in Replica : commit[r] # "idle" => Holder(r) /\ role[r] = "primary"

DownIsFresh == \A r \in Replica : ~up[r] => state[r] = Fresh

(* Every address names a boot that has happened. *)
AddressesKnown ==
    /\ \A r \in Replica : peer[r] <= boot[Other(r)]
    /\ \A t \in serving \cup bundles :
         t.toBoot <= boot[Other(t.by)] /\ t.byBoot <= boot[t.by]
    /\ \A m \in syncs : m.toBoot <= boot[Other(m.by)]

(* What travels is the state of a replica that holds the lineage. *)
TravelsHeld ==
    /\ \A t \in serving \cup bundles : t.state.status # "inactive"
    /\ \A m \in syncs : m.state.status # "inactive"

(* A transfer gives its recipient the role its sender does not have. *)
TransferRole ==
    \A t \in serving \cup bundles :
        Current(t) /\ Holder(t.by) => role[t.by] # t.role

OneRecipient ==
    \A t, u \in serving \cup bundles : Current(t) /\ Current(u) => t.by = u.by

(* A live replica with syncs under way is a primary that has not yet had a *)
(* later serial, and the serial of its commit names the state it pushed.   *)
SyncsOfPrimary ==
    \A m \in syncs : up[m.by] =>
        /\ Holder(m.by)
        /\ role[m.by] = "primary"
        /\ m.state.serial <= state[m.by].serial
        /\ commit[m.by] = "replicating" /\ m.state.serial = state[m.by].serial
           => m.state = state[m.by]

FenceHolds ==
    \A r \in Replica : failover[r] # "none" => ~up[Other(r)]

CoreInv ==
    /\ OnePrimary
    /\ HoldersKeep
    /\ TransfersKeep
    /\ SyncsKeep
    /\ RevertKeeps
    /\ CommitByPrimary
    /\ DownIsFresh
    /\ AddressesKnown
    /\ TravelsHeld
    /\ TransferRole
    /\ OneRecipient
    /\ SyncsOfPrimary

IInv == TypeOK /\ CoreInv /\ FenceHolds

-----------------------------------------------------------------------------
(* The other replica is the only other one. *)
LEMMA OtherReplica ==
    ASSUME NEW r \in Replica
    PROVE  /\ Other(r) \in Replica
           /\ Other(r) # r
           /\ Other(Other(r)) = r
           /\ \A s \in Replica : s = r \/ s = Other(r)
BY ReplicaAssumption DEF Replica, Other

(* The state a commit pushes is a snapshot. *)
LEMMA CommittedType ==
    ASSUME TypeOK, NEW r \in Replica, NEW cs \in SUBSET Change, NEW to \in Status
    PROVE  Committed(r, cs, to) \in Snapshot
BY DEF TypeOK, Committed, Snapshot

(* Every action keeps the variables in their types. *)
LEMMA TypeStep == TypeOK /\ [Next]_vars => TypeOK'
<1> SUFFICES ASSUME TypeOK, [Next]_vars PROVE TypeOK'
  OBVIOUS
<1> USE OtherReplica, BoundAssumption, ModeAssumption DEF TypeOK, Role, NoPeer
<1>0. Fresh \in Snapshot /\ \A r : LaunchRole(r) \in Role
  BY DEF Fresh, Snapshot, Status, LaunchRole
<1>1. ASSUME NEW r \in Replica, NEW c \in Change, NEW to \in Status,
             CommitAlone(r, c, to)
      PROVE  TypeOK'
  BY <1>1, CommittedType DEF CommitAlone, network
<1>2. ASSUME NEW r \in Replica, NEW cs \in SUBSET Change, NEW to \in Status,
             StartCommit(r, cs, to),
             UNCHANGED <<up, boot, role, peer, heard, serving, bundles, link,
                         failover, history>>,
             due' \in [Replica -> BOOLEAN]
      PROVE  TypeOK'
  BY <1>2, CommittedType DEF StartCommit, Sync, history
<1>3. ASSUME NEW r \in Replica, NEW c \in Change, NEW to \in Status,
             CommitBegin(r, c, to)
      PROVE  TypeOK'
  BY <1>2, <1>3 DEF CommitBegin
<1>4. ASSUME NEW r \in Replica, BackgroundSync(r)
      PROVE  TypeOK'
  BY <1>2, <1>4 DEF BackgroundSync, Snapshot
<1>5. ASSUME NEW r \in Replica, CommitAcknowledged(r)
      PROVE  TypeOK'
  BY <1>0, <1>5 DEF CommitAcknowledged, network, Snapshot
<1>6. ASSUME NEW r \in Replica, CommitFail(r)
      PROVE  TypeOK'
  BY <1>0, <1>6 DEF CommitFail, network, history, Snapshot
<1>7. ASSUME NEW m \in syncs, SyncReceive(m)
      PROVE  TypeOK'
  BY <1>7 DEF SyncReceive, Sync, Snapshot
<1>8. ASSUME NEW r \in Replica, Heartbeat(r)
      PROVE  TypeOK'
  BY <1>8 DEF Heartbeat, network, history
<1>9. ASSUME NEW r \in Replica, ServeCustody(r)
      PROVE  TypeOK'
  BY <1>9 DEF ServeCustody, local, history, Transfer, OppositeRole
<1>10. ASSUME NEW t \in serving, RecordPeer(t)
       PROVE  TypeOK'
  BY <1>10 DEF RecordPeer, history, Transfer
<1>11. ASSUME NEW t \in bundles, ApplyCustody(t)
       PROVE  TypeOK'
  BY <1>11 DEF ApplyCustody, history, Transfer
<1>12. ASSUME NEW r \in Replica, Lose(r), failover' \in [Replica -> {"none", "started", "cleared"}],
              UNCHANGED <<boot, link, released, safe, replicated>>
       PROVE  TypeOK'
  BY <1>0, <1>12 DEF Lose
<1>13. ASSUME NEW r \in Replica, Stop(r)
       PROVE  TypeOK'
  BY <1>12, <1>13 DEF Stop
<1>14. ASSUME NEW r \in Replica, Boot(r)
       PROVE  TypeOK'
  BY <1>14 DEF Boot, history
<1>15. CASE Partition
  BY <1>15 DEF Partition, local, history
<1>16. ASSUME NEW r \in Replica, FailoverStart(r)
       PROVE  TypeOK'
  BY <1>12, <1>16 DEF FailoverStart, local, network, history
<1>17. ASSUME NEW r \in Replica, Quiet(r)
       PROVE  TypeOK'
  BY <1>17 DEF Quiet, network, history
<1>18. ASSUME NEW r \in Replica, ProbePrimary(r) \/ FailoverAbandon(r)
       PROVE  TypeOK'
  BY <1>18 DEF ProbePrimary, FailoverAbandon, local, network, history
<1>19. ASSUME NEW r \in Replica, Promote(r)
       PROVE  TypeOK'
  BY <1>19 DEF Promote, network
<1>20. ASSUME NEW r \in Replica, CommitRefused(r)
       PROVE  TypeOK'
  BY <1>20, CommittedType DEF CommitRefused, network, history, Snapshot
<1>21. CASE UNCHANGED vars
  BY <1>21 DEF vars
<1>22. QED
  BY <1>1, <1>3, <1>4, <1>5, <1>6, <1>7, <1>8, <1>9, <1>10, <1>11, <1>13,
     <1>14, <1>15, <1>16, <1>17, <1>18, <1>19, <1>20, <1>21 DEF Next

(* The initial state is well typed. *)
LEMMA InitType == Init => TypeOK
<1> SUFFICES ASSUME Init PROVE TypeOK
  OBVIOUS
<1>1. state \in [Replica -> Snapshot] /\ previous \in [Replica -> Snapshot]
  BY DEF Init, Fresh, Snapshot, Status
<1>2. role \in [Replica -> Role] /\ peer \in [Replica -> Nat]
  BY DEF Init, Role, LaunchRole, NoPeer
<1>3. boot \in [Replica -> Nat \ {0}]
  BY DEF Init
<1>4. QED
  BY <1>1, <1>2, <1>3 DEF Init, TypeOK

(* Every variable keeps its type, whatever the workflow and the network do. *)
THEOREM TypeCorrect == Spec => []TypeOK
  BY InitType, TypeStep, PTL DEF Spec

-----------------------------------------------------------------------------
(* CoreInv does not speak of the other variables. *)
LEMMA CoreFrame ==
    ASSUME CoreInv,
           UNCHANGED <<up, boot, role, state, peer, commit, previous, serving,
                       bundles, syncs, safe>>
    PROVE  CoreInv'
<1>1. OnePrimary' /\ HoldersKeep' /\ RevertKeeps' /\ CommitByPrimary' /\ DownIsFresh'
  BY DEF CoreInv, OnePrimary, HoldersKeep, RevertKeeps, CommitByPrimary,
     DownIsFresh, Holder, Secured
<1>2. TransfersKeep' /\ SyncsKeep'
  BY DEF CoreInv, TransfersKeep, SyncsKeep, Current, Deliverable, Secured
<1>3. AddressesKnown' /\ TravelsHeld' /\ SyncsOfPrimary'
  BY DEF CoreInv, AddressesKnown, TravelsHeld, SyncsOfPrimary, Holder
<1>4. TransferRole' /\ OneRecipient'
  BY DEF CoreInv, TransferRole, OneRecipient, Current, Holder
<1>5. QED
  BY <1>1, <1>2, <1>3, <1>4 DEF CoreInv

(* A commit that pushes nothing takes the only primary to a later serial   *)
(* and perhaps adds a change: no copy loses anything, and the syncs under  *)
(* way from it now have lower serials.                                     *)
LEMMA AdvanceKeeps ==
    ASSUME IInv, TypeOK', NEW r \in Replica, NEW cs \in SUBSET Change,
           NEW to \in Status, to # "inactive",
           Holder(r), role[r] = "primary", commit[r] = "idle",
           state' = [state EXCEPT ![r] = Committed(r, cs, to)],
           UNCHANGED <<up, boot, role, peer, commit, previous, serving,
                       bundles, syncs, safe>>
    PROVE  CoreInv'
<1> USE OtherReplica
<1>1. /\ UNCHANGED <<up, boot, role, peer, commit, previous, serving, bundles, syncs, safe>>
      /\ \A s \in Replica : s # r => state'[s] = state[s]
      /\ state'[r] = Committed(r, cs, to)
      /\ role[r] = "primary" /\ Holder(r) /\ commit[r] = "idle"
  BY DEF IInv, TypeOK
<1>2. /\ state'[r].status = to
      /\ state'[r].serial = state[r].serial + 1
      /\ state'[r].changes = state[r].changes \cup cs
  BY <1>1 DEF Committed
<1>3. \A s \in Replica : Holder(s)' <=> Holder(s)
  BY <1>1, <1>2 DEF Holder
<1>4. Secured' = Secured
  BY <1>1 DEF Secured
<1>5. OnePrimary' /\ HoldersKeep' /\ RevertKeeps' /\ CommitByPrimary' /\ DownIsFresh'
  BY <1>1, <1>2, <1>3, <1>4 DEF IInv, CoreInv, OnePrimary, HoldersKeep, RevertKeeps,
     CommitByPrimary, DownIsFresh, Holder
<1>6. TransfersKeep'
  BY <1>1, <1>2, <1>4 DEF IInv, CoreInv, TransfersKeep, Current, Holder, TypeOK, Transfer
<1>7. SyncsKeep'
  BY <1>1, <1>2, <1>4 DEF IInv, CoreInv, SyncsKeep, Deliverable, Holder, TypeOK, Sync
<1>8. AddressesKnown' /\ TravelsHeld'
  BY <1>1 DEF IInv, CoreInv, AddressesKnown, TravelsHeld
<1>9. TransferRole' /\ OneRecipient'
  BY <1>1, <1>2, <1>3 DEF IInv, CoreInv, TransferRole, OneRecipient, Current, Holder,
     TypeOK, Transfer
<1>10. SyncsOfPrimary'
  BY <1>1, <1>2 DEF IInv, CoreInv, SyncsOfPrimary, Holder, TypeOK, Sync, Snapshot
<1>11. QED
  BY <1>5, <1>6, <1>7, <1>8, <1>9, <1>10 DEF CoreInv

(* A commit that pushes its state adds one sync, which holds everything the *)
(* primary does; the older syncs of the primary now have lower serials.     *)
LEMMA StartCommitKeeps ==
    ASSUME IInv, TypeOK', NEW r \in Replica, NEW cs \in SUBSET Change,
           NEW to \in Status, to # "inactive",
           Holder(r), role[r] = "primary", commit[r] = "idle",
           StartCommit(r, cs, to),
           UNCHANGED <<up, boot, role, peer, serving, bundles, safe>>
    PROVE  CoreInv'
<1> USE OtherReplica
<1> DEFINE new == [by |-> r, toBoot |-> peer[r], state |-> Committed(r, cs, to)]
<1>1. /\ \A s \in Replica : s # r =>
           /\ state'[s] = state[s]
           /\ commit'[s] = commit[s]
           /\ previous'[s] = previous[s]
      /\ state'[r] = Committed(r, cs, to)
      /\ commit'[r] = "replicating"
      /\ previous'[r] = state[r]
      /\ syncs' = syncs \cup {new}
  BY DEF StartCommit, IInv, TypeOK
<1>2. /\ state'[r].status = to
      /\ state'[r].serial = state[r].serial + 1
      /\ state'[r].changes = state[r].changes \cup cs
  BY <1>1 DEF Committed
<1>3. new.by = r /\ new.toBoot = peer[r] /\ new.state = state'[r]
  BY <1>1
<1>4. Secured' = Secured
  BY <1>1 DEF Secured
<1>5. safe \subseteq Secured
  BY DEF Secured, IInv, TypeOK
<1>6. OnePrimary' /\ HoldersKeep' /\ CommitByPrimary' /\ DownIsFresh'
  BY <1>1, <1>2, <1>4 DEF IInv, CoreInv, OnePrimary, HoldersKeep, CommitByPrimary,
     DownIsFresh, Holder
<1>7. RevertKeeps'
  BY <1>1, <1>5 DEF IInv, CoreInv, RevertKeeps, HoldersKeep, Holder
<1>8. TransfersKeep'
  BY <1>1, <1>2, <1>4 DEF IInv, CoreInv, TransfersKeep, Current, Holder, TypeOK, Transfer
<1>9. SyncsKeep'
  <2> SUFFICES ASSUME NEW m \in syncs', Deliverable(m)'
               PROVE  Secured \subseteq m.state.changes
    BY <1>4 DEF SyncsKeep
  <2>1. CASE m = new
    BY <2>1, <1>2, <1>3 DEF IInv, CoreInv, HoldersKeep
  <2>2. CASE m \in syncs
    BY <2>2, <1>1, <1>2 DEF IInv, CoreInv, SyncsKeep, Deliverable, Holder, TypeOK, Sync
  <2> QED
    BY <2>1, <2>2, <1>1
<1>10. AddressesKnown'
  BY <1>1, <1>3 DEF IInv, CoreInv, AddressesKnown
<1>11. TravelsHeld'
  BY <1>1, <1>2, <1>3 DEF IInv, CoreInv, TravelsHeld
<1>12. TransferRole' /\ OneRecipient'
  BY <1>1, <1>2 DEF IInv, CoreInv, TransferRole, OneRecipient, Current, Holder,
     TypeOK, Transfer
<1>13. SyncsOfPrimary'
  <2> SUFFICES ASSUME NEW m \in syncs', up'[m.by]
               PROVE  /\ Holder(m.by)'
                      /\ role'[m.by] = "primary"
                      /\ m.state.serial <= state'[m.by].serial
                      /\ commit'[m.by] = "replicating" /\ m.state.serial = state'[m.by].serial
                         => m.state = state'[m.by]
    BY DEF SyncsOfPrimary
  <2>1. CASE m = new
    BY <2>1, <1>2, <1>3 DEF Holder, IInv, TypeOK, Snapshot
  <2>2. CASE m \in syncs
    <3>1. m.by \in Replica /\ m.state.serial \in Nat /\ state[r].serial \in Nat
      BY <2>2 DEF IInv, TypeOK, Sync, Snapshot
    <3>2. /\ Holder(m.by) /\ role[m.by] = "primary"
          /\ m.state.serial <= state[m.by].serial
          /\ commit[m.by] = "replicating" /\ m.state.serial = state[m.by].serial
             => m.state = state[m.by]
      BY <2>2, <1>1 DEF IInv, CoreInv, SyncsOfPrimary
    <3>3. CASE m.by = r
      BY <3>1, <3>2, <3>3, <1>2 DEF Holder
    <3>4. CASE m.by # r
      BY <3>1, <3>2, <3>4, <1>1 DEF Holder
    <3> QED
      BY <3>3, <3>4
  <2> QED
    BY <2>1, <2>2, <1>1
<1>14. QED
  BY <1>6, <1>7, <1>8, <1>9, <1>10, <1>11, <1>12, <1>13 DEF CoreInv

(* Releasing a commit makes no change more secured than its receipt did. *)
LEMMA CommitAcknowledgedKeeps ==
    ASSUME IInv, TypeOK', NEW r \in Replica, CommitAcknowledged(r)
    PROVE  CoreInv'
<1> USE OtherReplica
<1>1. /\ UNCHANGED <<up, boot, role, state, peer, serving, bundles, syncs>>
      /\ commit[r] = "acknowledged" /\ commit'[r] = "idle"
      /\ safe' = safe \cup state[r].changes
      /\ \A s \in Replica : s # r => commit'[s] = commit[s] /\ previous'[s] = previous[s]
  BY DEF CommitAcknowledged, network, IInv, TypeOK
<1>2. Secured' = Secured
  BY <1>1 DEF Secured, IInv, TypeOK, Snapshot
<1>3. \A s \in Replica : s # r => commit[s] = "idle"
  BY <1>1 DEF IInv, CoreInv, CommitByPrimary, OnePrimary
<1>4. OnePrimary' /\ HoldersKeep' /\ RevertKeeps' /\ CommitByPrimary' /\ DownIsFresh'
  BY <1>1, <1>2, <1>3 DEF IInv, CoreInv, OnePrimary, HoldersKeep, RevertKeeps,
     CommitByPrimary, DownIsFresh, Holder
<1>5. TransfersKeep' /\ SyncsKeep'
  BY <1>1, <1>2 DEF IInv, CoreInv, TransfersKeep, SyncsKeep, Current, Deliverable
<1>6. AddressesKnown' /\ TravelsHeld' /\ TransferRole' /\ OneRecipient'
  BY <1>1 DEF IInv, CoreInv, AddressesKnown, TravelsHeld, TransferRole, OneRecipient,
     Current, Holder
<1>7. SyncsOfPrimary'
  BY <1>1 DEF IInv, CoreInv, SyncsOfPrimary, Holder, TypeOK, Sync
<1>8. QED
  BY <1>4, <1>5, <1>6, <1>7 DEF CoreInv

(* A failed commit may forget an acknowledgement that got lost, but what it *)
(* restores still holds everything an earlier commit had acknowledged.      *)
LEMMA CommitFailKeeps ==
    ASSUME IInv, TypeOK', NEW r \in Replica, CommitFail(r)
    PROVE  CoreInv'
<1> USE OtherReplica
<1>1. /\ UNCHANGED <<up, boot, role, peer, serving, bundles, syncs, safe>>
      /\ commit[r] # "idle" /\ commit'[r] = "idle"
      /\ \A s \in Replica : s # r => /\ commit'[s] = commit[s]
                                     /\ previous'[s] = previous[s]
                                     /\ state'[s] = state[s]
  BY DEF CommitFail, PushFailed, network, history, IInv, TypeOK
<1>2. /\ state'[r].status = previous[r].status
      /\ state'[r].changes = previous[r].changes
      /\ state'[r].serial = state[r].serial
  BY DEF CommitFail, IInv, TypeOK, Snapshot
<1>3. /\ \A s \in Replica : s # r => commit[s] = "idle"
      /\ Holder(r) /\ role[r] = "primary"
      /\ safe \subseteq previous[r].changes /\ previous[r].status # "inactive"
  BY <1>1 DEF IInv, CoreInv, CommitByPrimary, OnePrimary, RevertKeeps
<1>4. Secured' \subseteq Secured /\ Secured' \subseteq safe
  BY <1>1, <1>3 DEF Secured
<1>5. OnePrimary' /\ HoldersKeep' /\ RevertKeeps' /\ CommitByPrimary' /\ DownIsFresh'
  BY <1>1, <1>2, <1>3, <1>4 DEF IInv, CoreInv, OnePrimary, HoldersKeep, RevertKeeps,
     CommitByPrimary, DownIsFresh, Holder
<1>6. TransfersKeep'
  BY <1>1, <1>2, <1>3, <1>4 DEF IInv, CoreInv, TransfersKeep, Current, Holder, TypeOK, Transfer
<1>7. SyncsKeep'
  BY <1>1, <1>2, <1>3, <1>4 DEF IInv, CoreInv, SyncsKeep, Deliverable, Holder, TypeOK, Sync
<1>8. AddressesKnown' /\ TravelsHeld'
  BY <1>1 DEF IInv, CoreInv, AddressesKnown, TravelsHeld
<1>9. TransferRole' /\ OneRecipient'
  BY <1>1, <1>2, <1>3 DEF IInv, CoreInv, TransferRole, OneRecipient, Current, Holder,
     TypeOK, Transfer
<1>10. SyncsOfPrimary'
  BY <1>1, <1>2, <1>3 DEF IInv, CoreInv, SyncsOfPrimary, Holder, TypeOK, Sync, Snapshot
<1>11. QED
  BY <1>5, <1>6, <1>7, <1>8, <1>9, <1>10 DEF CoreInv

(* The custodian that applies a sync holds all that the primary may count   *)
(* as acknowledged by it; no earlier sync can then be accepted after it.    *)
LEMMA SyncReceiveKeeps ==
    ASSUME IInv, TypeOK', NEW m \in syncs, SyncReceive(m)
    PROVE  CoreInv'
<1> USE OtherReplica
<1> DEFINE p == m.by
           c == Other(m.by)
           acked == commit[p] = "replicating" /\ state[p].serial = m.state.serial
<1>1. /\ p \in Replica /\ c \in Replica /\ c # p /\ Other(c) = p
      /\ m \in Sync /\ m.state \in Snapshot
      /\ \A s \in Replica : s = p \/ s = c
  BY DEF IInv, TypeOK, Sync
<1>2. /\ UNCHANGED <<up, boot, role, peer, previous, serving, bundles, safe>>
      /\ Holder(c) /\ role[c] = "custodian" /\ boot[c] = m.toBoot
      /\ commit[c] = "idle" /\ commit'[c] = "idle"
      /\ m.state.serial > state[c].serial
      /\ state'[c] = m.state /\ state'[p] = state[p]
      /\ commit'[p] = IF acked THEN "acknowledged" ELSE commit[p]
      /\ syncs' = syncs \ {m}
  BY <1>1 DEF SyncReceive, Newer, IInv, TypeOK
<1>3. Secured \subseteq m.state.changes /\ m.state.status # "inactive"
  BY <1>1, <1>2 DEF IInv, CoreInv, SyncsKeep, Deliverable, TravelsHeld, Holder
<1>4. acked => /\ Holder(p) /\ role[p] = "primary"
               /\ m.state = state[p]
  BY <1>1 DEF IInv, CoreInv, CommitByPrimary, SyncsOfPrimary, Holder
<1>5. Secured' \subseteq IF acked THEN m.state.changes ELSE Secured
  BY <1>1, <1>2, <1>3, <1>4 DEF Secured
<1>6. \A s \in Replica : Holder(s)' <=> Holder(s)
  BY <1>1, <1>2, <1>3 DEF Holder
<1>7. OnePrimary' /\ RevertKeeps' /\ CommitByPrimary' /\ DownIsFresh'
  BY <1>1, <1>2, <1>3, <1>4 DEF IInv, CoreInv, OnePrimary, RevertKeeps, CommitByPrimary,
     DownIsFresh, Holder
<1>8. HoldersKeep'
  BY <1>1, <1>2, <1>3, <1>4, <1>5, <1>6 DEF IInv, CoreInv, HoldersKeep
<1>9. TransfersKeep'
  <2> SUFFICES ASSUME NEW t \in serving \cup bundles, Current(t)'
               PROVE  Secured' \subseteq t.state.changes
    BY <1>2 DEF TransfersKeep
  <2>1. t.by \in Replica
    BY DEF IInv, TypeOK, Transfer
  <2>2. Other(t.by) = p /\ Current(t)
    BY <2>1, <1>1, <1>2, <1>3 DEF Current
  <2>3. ~acked
    BY <2>2, <1>2, <1>4 DEF Current, Holder
  <2> QED
    BY <2>2, <2>3, <1>5 DEF IInv, CoreInv, TransfersKeep
<1>10. SyncsKeep'
  <2> SUFFICES ASSUME NEW n \in syncs, Deliverable(n)'
               PROVE  Secured' \subseteq n.state.changes
    BY <1>2 DEF SyncsKeep
  <2>1. n.by \in Replica /\ n.state.serial \in Nat /\ m.state.serial \in Nat
        /\ state[c].serial \in Nat
    BY <1>1 DEF IInv, TypeOK, Sync, Snapshot
  <2>2. Deliverable(n)
    BY <2>1, <1>1, <1>2, <1>3 DEF Deliverable, Holder
  <2>3. ~acked
    <3> SUFFICES ASSUME acked PROVE FALSE
      OBVIOUS
    <3>1. Other(n.by) = c /\ n.state.serial > m.state.serial
      BY <2>1, <1>1, <1>2, <1>3, <1>4 DEF Deliverable, Holder
    <3>2. n.by = p
      BY <3>1, <2>1, <1>1
    <3>3. n.state.serial <= state[p].serial
      BY <3>2, <1>4 DEF IInv, CoreInv, SyncsOfPrimary, Holder
    <3> QED
      BY <3>1, <3>3, <2>1
  <2> QED
    BY <2>2, <2>3, <1>5 DEF IInv, CoreInv, SyncsKeep
<1>11. AddressesKnown' /\ TravelsHeld'
  BY <1>2 DEF IInv, CoreInv, AddressesKnown, TravelsHeld
<1>12. TransferRole' /\ OneRecipient'
  BY <1>1, <1>2, <1>3 DEF IInv, CoreInv, TransferRole, OneRecipient, Current, Holder,
     TypeOK, Transfer
<1>13. SyncsOfPrimary'
  <2> SUFFICES ASSUME NEW n \in syncs, up[n.by]
               PROVE  /\ Holder(n.by)'
                      /\ role[n.by] = "primary"
                      /\ n.state.serial <= state'[n.by].serial
                      /\ commit'[n.by] = "replicating" /\ n.state.serial = state'[n.by].serial
                         => n.state = state'[n.by]
    BY <1>2 DEF SyncsOfPrimary
  <2>1. /\ Holder(n.by) /\ role[n.by] = "primary"
        /\ n.state.serial <= state[n.by].serial
        /\ commit[n.by] = "replicating" /\ n.state.serial = state[n.by].serial
           => n.state = state[n.by]
    BY DEF IInv, CoreInv, SyncsOfPrimary
  <2>2. n.by = p
    BY <2>1, <1>1, <1>2 DEF IInv, TypeOK, Sync
  <2> QED
    BY <2>1, <2>2, <1>2, <1>6, <1>1
<1>14. QED
  BY <1>7, <1>8, <1>9, <1>10, <1>11, <1>12, <1>13 DEF CoreInv

(* A transfer is a copy of a live holder's state, made between its commits. *)
LEMMA ServeCustodyKeeps ==
    ASSUME IInv, NEW r \in Replica, ServeCustody(r)
    PROVE  CoreInv'
<1> USE OtherReplica
<1> DEFINE new == [by |-> r, byBoot |-> boot[r], toBoot |-> boot[Other(r)],
                   role |-> OppositeRole(role[r]), state |-> state[r]]
<1>1. /\ UNCHANGED <<up, boot, role, state, peer, commit, previous, bundles, syncs, safe>>
      /\ serving' = serving \cup {new}
      /\ Holder(r)
  BY DEF ServeCustody, MayServe, local, history, KeyHolder, Holder
<1>2. /\ new.by = r /\ new.byBoot = boot[r] /\ new.toBoot = boot[Other(r)]
      /\ new.role = OppositeRole(role[r]) /\ new.state = state[r]
  OBVIOUS
<1> HIDE DEF new
<1>3. Secured' = Secured
  BY <1>1 DEF Secured
<1>4. OnePrimary' /\ HoldersKeep' /\ RevertKeeps' /\ CommitByPrimary' /\ DownIsFresh'
  BY <1>1, <1>3 DEF IInv, CoreInv, OnePrimary, HoldersKeep, RevertKeeps,
     CommitByPrimary, DownIsFresh, Holder
<1>5. TransfersKeep'
  BY <1>1, <1>2, <1>3 DEF IInv, CoreInv, TransfersKeep, HoldersKeep, Current
<1>6. SyncsKeep' /\ SyncsOfPrimary'
  BY <1>1, <1>3 DEF IInv, CoreInv, SyncsKeep, SyncsOfPrimary, Deliverable, Holder
<1>7. AddressesKnown' /\ TravelsHeld'
  BY <1>1, <1>2 DEF IInv, CoreInv, AddressesKnown, TravelsHeld, Holder, TypeOK
<1>8. TransferRole'
  BY <1>1, <1>2 DEF IInv, CoreInv, TransferRole, OppositeRole, Current, Holder, TypeOK, Role
<1>9. OneRecipient'
  <2>1. \A t \in serving' \cup bundles' : Current(t)' => t.by = r
    BY <1>1, <1>2 DEF Current, Holder, IInv, TypeOK, Transfer
  <2> QED
    BY <2>1 DEF OneRecipient
<1>10. QED
  BY <1>4, <1>5, <1>6, <1>7, <1>8, <1>9 DEF CoreInv

(* Recording the recipient as the peer names a boot that has happened. *)
LEMMA RecordPeerKeeps ==
    ASSUME IInv, NEW t \in serving, RecordPeer(t)
    PROVE  CoreInv'
<1>1. /\ UNCHANGED <<up, boot, role, state, commit, previous, syncs, safe>>
      /\ serving' \cup bundles' \subseteq serving \cup bundles
  BY DEF RecordPeer, history
<1>2. \A r \in Replica : peer'[r] <= boot'[Other(r)]
  BY <1>1 DEF RecordPeer, IInv, CoreInv, AddressesKnown, TypeOK, Transfer
<1>3. Secured' = Secured
  BY <1>1 DEF Secured
<1>4. OnePrimary' /\ HoldersKeep' /\ RevertKeeps' /\ CommitByPrimary' /\ DownIsFresh'
  BY <1>1, <1>3 DEF IInv, CoreInv, OnePrimary, HoldersKeep, RevertKeeps,
     CommitByPrimary, DownIsFresh, Holder
<1>5. TransfersKeep' /\ TransferRole' /\ OneRecipient'
  BY <1>1, <1>3 DEF IInv, CoreInv, TransfersKeep, TransferRole, OneRecipient, Current, Holder
<1>6. SyncsKeep' /\ SyncsOfPrimary'
  BY <1>1, <1>3 DEF IInv, CoreInv, SyncsKeep, SyncsOfPrimary, Deliverable, Holder
<1>7. AddressesKnown' /\ TravelsHeld'
  BY <1>1, <1>2 DEF IInv, CoreInv, AddressesKnown, TravelsHeld
<1>8. QED
  BY <1>4, <1>5, <1>6, <1>7 DEF CoreInv

(* The re-keyed replica holds what the transfer held, in the role its sender *)
(* does not have; no other transfer can be applied after it.                 *)
LEMMA ApplyCustodyKeeps ==
    ASSUME IInv, TypeOK', NEW t \in bundles, ApplyCustody(t)
    PROVE  CoreInv'
<1> USE OtherReplica
<1> DEFINE r == Other(t.by)
<1>1. t.by \in Replica /\ r \in Replica /\ t.by # r /\ Other(r) = t.by
      /\ \A s \in Replica : s = t.by \/ s = r
  BY DEF IInv, TypeOK, Transfer
<1>2. /\ UNCHANGED <<up, boot, commit, previous, serving, syncs, safe>>
      /\ Current(t) /\ commit[r] = "idle"
      /\ state'[r] = t.state /\ role'[r] = t.role /\ peer'[r] = t.byBoot
      /\ state'[t.by] = state[t.by] /\ role'[t.by] = role[t.by] /\ peer'[t.by] = peer[t.by]
      /\ bundles' \subseteq bundles
  BY <1>1 DEF ApplyCustody, Current, history, IInv, TypeOK
<1>3. /\ t.state.status # "inactive"
      /\ Secured \subseteq t.state.changes
      /\ Holder(t.by) => role[t.by] # t.role
  BY <1>2 DEF IInv, CoreInv, TransfersKeep, TravelsHeld, TransferRole
<1>4. Secured' = Secured
  BY <1>1, <1>2 DEF Secured
<1>5. \A u \in serving' \cup bundles' : ~Current(u)'
  <2> SUFFICES ASSUME NEW u \in serving \cup bundles, Current(u)' PROVE FALSE
    BY <1>2
  <2>1. u.by \in Replica
    BY DEF IInv, TypeOK, Transfer
  <2>2. u.by = r /\ Current(u)
    BY <2>1, <1>1, <1>2, <1>3 DEF Current
  <2> QED
    BY <2>2, <1>1, <1>2 DEF IInv, CoreInv, OneRecipient
<1>6. OnePrimary' /\ HoldersKeep' /\ RevertKeeps' /\ CommitByPrimary' /\ DownIsFresh'
  BY <1>1, <1>2, <1>3, <1>4 DEF IInv, CoreInv, OnePrimary, HoldersKeep, RevertKeeps,
     CommitByPrimary, DownIsFresh, Holder, Current
<1>7. TransfersKeep' /\ TransferRole' /\ OneRecipient'
  BY <1>5 DEF TransfersKeep, TransferRole, OneRecipient
<1>8. SyncsKeep'
  BY <1>1, <1>2, <1>3, <1>4 DEF IInv, CoreInv, SyncsKeep, Deliverable, Current, TypeOK, Sync
<1>9. SyncsOfPrimary'
  BY <1>1, <1>2 DEF IInv, CoreInv, SyncsOfPrimary, Holder, Current, TypeOK, Sync
<1>10. AddressesKnown'
  BY <1>1, <1>2 DEF IInv, CoreInv, AddressesKnown
<1>11. TravelsHeld'
  BY <1>2 DEF IInv, CoreInv, TravelsHeld
<1>12. QED
  BY <1>6, <1>7, <1>8, <1>9, <1>10, <1>11 DEF CoreInv

(* A replica that ends takes its state with it and nothing of the other's. *)
LEMMA LoseKeeps ==
    ASSUME IInv, TypeOK', NEW r \in Replica, Lose(r),
           UNCHANGED <<boot, safe>>
    PROVE  CoreInv'
<1> USE OtherReplica
<1>1. /\ UNCHANGED <<boot, safe>>
      /\ up'[r] = FALSE /\ state'[r] = Fresh /\ commit'[r] = "idle" /\ peer'[r] = NoPeer
      /\ \A s \in Replica : s # r =>
           /\ up'[s] = up[s] /\ role'[s] = role[s] /\ state'[s] = state[s]
           /\ peer'[s] = peer[s] /\ commit'[s] = commit[s] /\ previous'[s] = previous[s]
      /\ serving' \subseteq serving /\ bundles' \subseteq bundles
      /\ syncs' = {m \in syncs : m.by = r}
  BY DEF Lose, IInv, TypeOK
<1>2. Secured' \subseteq Secured
  BY <1>1 DEF Secured
<1>3. OnePrimary' /\ HoldersKeep' /\ RevertKeeps' /\ CommitByPrimary' /\ DownIsFresh'
  BY <1>1, <1>2 DEF IInv, CoreInv, OnePrimary, HoldersKeep, RevertKeeps,
     CommitByPrimary, DownIsFresh, Holder
<1>4. \A t \in serving' \cup bundles' :
        Current(t)' => t.by = r /\ Current(t)
  BY <1>1 DEF Current, IInv, TypeOK, Transfer
<1>5. TransfersKeep' /\ OneRecipient'
  BY <1>1, <1>2, <1>4 DEF IInv, CoreInv, TransfersKeep, OneRecipient
<1>6. TransferRole'
  BY <1>1, <1>4 DEF TransferRole, Holder
<1>7. SyncsKeep'
  BY <1>1, <1>2 DEF IInv, CoreInv, SyncsKeep, Deliverable, TypeOK, Sync
<1>8. SyncsOfPrimary'
  BY <1>1 DEF SyncsOfPrimary
<1>9. AddressesKnown'
  BY <1>1 DEF IInv, CoreInv, AddressesKnown, NoPeer, TypeOK
<1>10. TravelsHeld'
  BY <1>1 DEF IInv, CoreInv, TravelsHeld
<1>11. QED
  BY <1>3, <1>5, <1>6, <1>7, <1>8, <1>9, <1>10 DEF CoreInv

(* A new boot has a key that nothing on its way is sealed to. *)
LEMMA BootKeeps ==
    ASSUME IInv, TypeOK', NEW r \in Replica, Boot(r)
    PROVE  CoreInv'
<1> USE OtherReplica
<1>1. /\ UNCHANGED <<role, state, peer, commit, previous, serving, bundles, safe>>
      /\ ~up[r] /\ up'[r] /\ boot'[r] = boot[r] + 1
      /\ \A s \in Replica : s # r => up'[s] = up[s] /\ boot'[s] = boot[s]
      /\ syncs' = {m \in syncs : m.by # r}
  BY DEF Boot, history, IInv, TypeOK
<1>2. state[r].status = "inactive" /\ commit[r] = "idle"
  BY <1>1 DEF IInv, CoreInv, DownIsFresh, CommitByPrimary, Holder, Fresh
<1>3. Secured' = Secured
  BY <1>1 DEF Secured
<1>4. OnePrimary' /\ HoldersKeep' /\ RevertKeeps' /\ CommitByPrimary' /\ DownIsFresh'
  BY <1>1, <1>2, <1>3 DEF IInv, CoreInv, OnePrimary, HoldersKeep, RevertKeeps,
     CommitByPrimary, DownIsFresh, Holder
<1>5. AddressesKnown'
  <2>1. \A s \in Replica : /\ boot[s] \in Nat /\ boot'[s] \in Nat
                            /\ boot[s] <= boot'[s] /\ peer[s] \in Nat
    BY <1>1 DEF IInv, TypeOK
  <2>2. \A s \in Replica : peer[s] <= boot'[Other(s)]
    BY <2>1 DEF IInv, CoreInv, AddressesKnown
  <2>3. ASSUME NEW t \in serving \cup bundles
        PROVE  t.toBoot <= boot'[Other(t.by)] /\ t.byBoot <= boot'[t.by]
    <3>1. t.by \in Replica /\ t.toBoot \in Nat /\ t.byBoot \in Nat
      BY DEF IInv, TypeOK, Transfer
    <3> QED
      BY <2>1, <3>1 DEF IInv, CoreInv, AddressesKnown
  <2>4. ASSUME NEW m \in syncs
        PROVE  m.toBoot <= boot'[Other(m.by)]
    <3>1. m.by \in Replica /\ m.toBoot \in Nat
      BY DEF IInv, TypeOK, Sync
    <3> QED
      BY <2>1, <3>1 DEF IInv, CoreInv, AddressesKnown
  <2> QED
    BY <2>2, <2>3, <2>4, <1>1 DEF AddressesKnown
<1>6. \A t \in serving' \cup bundles' :
        Current(t)' => t.by = r /\ Current(t)
  <2> SUFFICES ASSUME NEW t \in serving \cup bundles, Current(t)'
               PROVE  t.by = r /\ Current(t)
    BY <1>1
  <2>1. t.by \in Replica /\ t.toBoot \in Nat /\ t.toBoot <= boot[Other(t.by)]
        /\ boot[r] \in Nat
    BY DEF IInv, CoreInv, AddressesKnown, TypeOK, Transfer
  <2>2. Other(t.by) # r
    BY <2>1, <1>1 DEF Current
  <2> QED
    BY <2>1, <2>2, <1>1 DEF Current
<1>7. TransfersKeep' /\ OneRecipient'
  BY <1>1, <1>3, <1>6 DEF IInv, CoreInv, TransfersKeep, OneRecipient
<1>8. TransferRole'
  BY <1>1, <1>2, <1>6 DEF TransferRole, Holder
<1>9. SyncsKeep'
  <2> SUFFICES ASSUME NEW m \in syncs, m.by # r, Deliverable(m)' PROVE FALSE
    BY <1>1 DEF SyncsKeep
  <2>1. m.by \in Replica /\ m.toBoot \in Nat /\ m.toBoot <= boot[Other(m.by)]
        /\ boot[r] \in Nat
    BY DEF IInv, CoreInv, AddressesKnown, TypeOK, Sync
  <2> QED
    BY <2>1, <1>1 DEF Deliverable
<1>10. SyncsOfPrimary'
  BY <1>1 DEF IInv, CoreInv, SyncsOfPrimary, Holder, TypeOK, Sync
<1>11. TravelsHeld'
  BY <1>1 DEF IInv, CoreInv, TravelsHeld
<1>12. QED
  BY <1>4, <1>5, <1>7, <1>8, <1>9, <1>10, <1>11 DEF CoreInv

(* The other replica is stopped when the custodian is promoted: it is the  *)
(* only one that holds the lineage, whatever its role.                     *)
LEMMA PromoteKeeps ==
    ASSUME IInv, TypeOK', NEW r \in Replica, Promote(r)
    PROVE  CoreInv'
<1> USE OtherReplica
<1>1. /\ UNCHANGED <<up, boot, state, commit, previous, serving, bundles, syncs, safe>>
      /\ up[r] /\ role[r] = "custodian" /\ state[r].status = "active"
      /\ commit[r] = "idle" /\ peer'[r] = NoPeer
      /\ \A s \in Replica : s # r => role'[s] = role[s] /\ peer'[s] = peer[s]
  BY DEF Promote, network, IInv, TypeOK
<1>2. ~up[Other(r)]
  BY DEF Promote, IInv, FenceHolds
<1>3. Secured' = Secured
  BY <1>1 DEF Secured
<1>4. OnePrimary' /\ HoldersKeep' /\ RevertKeeps' /\ CommitByPrimary' /\ DownIsFresh'
  BY <1>1, <1>2, <1>3 DEF IInv, CoreInv, OnePrimary, HoldersKeep, RevertKeeps,
     CommitByPrimary, DownIsFresh, Holder
<1>5. TransfersKeep' /\ OneRecipient'
  BY <1>1, <1>3 DEF IInv, CoreInv, TransfersKeep, OneRecipient, Current
<1>6. TransferRole'
  BY <1>1, <1>2 DEF TransferRole, Current, IInv, TypeOK, Transfer
<1>7. SyncsKeep'
  BY <1>1, <1>2, <1>3 DEF IInv, CoreInv, SyncsKeep, Deliverable, TypeOK, Sync
<1>8. SyncsOfPrimary'
  BY <1>1, <1>2 DEF IInv, CoreInv, SyncsOfPrimary, Holder, TypeOK, Sync
<1>9. AddressesKnown'
  BY <1>1 DEF IInv, CoreInv, AddressesKnown, NoPeer, TypeOK
<1>10. TravelsHeld'
  BY <1>1 DEF IInv, CoreInv, TravelsHeld
<1>11. QED
  BY <1>4, <1>5, <1>6, <1>7, <1>8, <1>9, <1>10 DEF CoreInv

(* While a failover is under way the replica it replaces stays stopped. *)
LEMMA FenceStep ==
    ASSUME IInv, Fenced, Next
    PROVE  FenceHolds'
<1> USE OtherReplica DEF IInv, TypeOK, FenceHolds
<1>1. ASSUME UNCHANGED <<up, failover>>
      PROVE  FenceHolds'
  BY <1>1
<1>2. ASSUME NEW r \in Replica, NEW c \in Change, NEW to \in Status,
             CommitAlone(r, c, to) \/ CommitBegin(r, c, to)
      PROVE  FenceHolds'
  BY <1>1, <1>2 DEF CommitAlone, CommitBegin, network, history
<1>3. ASSUME NEW r \in Replica,
             \/ CommitRefused(r) \/ BackgroundSync(r)
             \/ CommitAcknowledged(r) \/ CommitFail(r)
             \/ Heartbeat(r) \/ ServeCustody(r) \/ Quiet(r)
      PROVE  FenceHolds'
  BY <1>1, <1>3 DEF CommitRefused, BackgroundSync, CommitAcknowledged, CommitFail, Heartbeat,
     ServeCustody, Quiet, local, network, history
<1>4. ASSUME NEW r \in Replica, Stop(r)
      PROVE  FenceHolds'
  BY <1>4 DEF Stop, Lose
<1>5. ASSUME NEW r \in Replica, Boot(r)
      PROVE  FenceHolds'
  BY <1>5 DEF Boot, history
<1>6. ASSUME NEW r \in Replica, FailoverStart(r)
      PROVE  FenceHolds'
  BY <1>6 DEF FailoverStart, Lose
<1>7. ASSUME NEW r \in Replica, ProbePrimary(r) \/ Promote(r) \/ FailoverAbandon(r)
      PROVE  FenceHolds'
  BY <1>7 DEF ProbePrimary, Promote, FailoverAbandon, local, network, history
<1>8. ASSUME NEW m \in syncs, SyncReceive(m)
      PROVE  FenceHolds'
  BY <1>1, <1>8 DEF SyncReceive
<1>9. ASSUME NEW t \in serving \cup bundles, RecordPeer(t) \/ ApplyCustody(t)
      PROVE  FenceHolds'
  BY <1>1, <1>9 DEF RecordPeer, ApplyCustody, history
<1>10. CASE Partition
  BY <1>1, <1>10 DEF Partition, local, history
<1>11. QED
  BY <1>2, <1>3, <1>4, <1>5, <1>6, <1>7, <1>8, <1>9, <1>10 DEF Next

-----------------------------------------------------------------------------
(* The invariant holds at first: A alone holds the lineage. *)
LEMMA InitInv == Init /\ TypeOK => IInv
<1> SUFFICES ASSUME Init, TypeOK PROVE CoreInv /\ FenceHolds
  BY DEF IInv
<1>1. /\ serving = {} /\ bundles = {} /\ syncs = {} /\ safe = {}
      /\ \A r \in Replica : /\ up[r] /\ commit[r] = "idle" /\ failover[r] = "none"
                            /\ peer[r] = NoPeer /\ boot[r] = 1
                            /\ role[r] = LaunchRole(r)
                            /\ r # A => state[r] = Fresh
  BY DEF Init
<1>2. Secured = {}
  BY <1>1 DEF Secured
<1>3. OnePrimary /\ HoldersKeep /\ RevertKeeps /\ CommitByPrimary /\ DownIsFresh
  BY <1>1, <1>2 DEF OnePrimary, HoldersKeep, RevertKeeps, CommitByPrimary, DownIsFresh,
     Holder, LaunchRole
<1>4. TransfersKeep /\ SyncsKeep /\ TravelsHeld /\ TransferRole /\ OneRecipient
      /\ SyncsOfPrimary
  BY <1>1 DEF TransfersKeep, SyncsKeep, TravelsHeld, TransferRole, OneRecipient,
     SyncsOfPrimary
<1>5. AddressesKnown
  BY <1>1, OtherReplica DEF AddressesKnown, NoPeer
<1>6. FenceHolds
  BY <1>1 DEF FenceHolds
<1>7. QED
  BY <1>3, <1>4, <1>5, <1>6 DEF CoreInv

(* Every step keeps the invariant. *)
LEMMA InvStep == Fenced /\ IInv /\ [Next]_vars => IInv'
<1> SUFFICES ASSUME Fenced, IInv, [Next]_vars PROVE IInv'
  OBVIOUS
<1>1. TypeOK'
  BY TypeStep DEF IInv
<1>2. CASE UNCHANGED vars
  <2>1. CoreInv'
    BY <1>2, CoreFrame DEF IInv, vars
  <2>2. FenceHolds'
    BY <1>2 DEF IInv, FenceHolds, vars
  <2> QED
    BY <1>1, <2>1, <2>2 DEF IInv
<1>3. CASE Next
  <2> USE DEF Holder
  <2>1. ASSUME NEW r \in Replica, NEW c \in Change, NEW to \in Status,
               CommitAlone(r, c, to)
        PROVE  CoreInv'
    <3>1. to # "inactive"
      BY <2>1, MovesAssumption DEF CommitAlone, StatusMove
    <3>2. Holder(r) /\ role[r] = "primary" /\ commit[r] = "idle"
      BY <2>1 DEF CommitAlone, MayCommit, KeyHolder
    <3>3. /\ state' = [state EXCEPT ![r] = Committed(r, {c}, to)]
          /\ UNCHANGED <<up, boot, role, peer, commit, previous, serving,
                         bundles, syncs, safe>>
      BY <2>1 DEF CommitAlone, network
    <3> QED
      BY <1>1, <3>1, <3>2, <3>3, AdvanceKeeps
  <2>2. ASSUME NEW r \in Replica, NEW c \in Change, NEW to \in Status,
               CommitBegin(r, c, to)
        PROVE  CoreInv'
    <3>1. to # "inactive"
      BY <2>2, MovesAssumption DEF CommitBegin, StatusMove
    <3>2. Holder(r) /\ role[r] = "primary" /\ commit[r] = "idle"
      BY <2>2 DEF CommitBegin, MayCommit, KeyHolder
    <3>3. StartCommit(r, {c}, to)
          /\ UNCHANGED <<up, boot, role, peer, serving, bundles, safe>>
      BY <2>2 DEF CommitBegin, history
    <3> QED
      BY <1>1, <3>1, <3>2, <3>3, StartCommitKeeps
  <2>3. ASSUME NEW r \in Replica, BackgroundSync(r)
        PROVE  CoreInv'
    <3>1. state[r].status \in Status /\ state[r].status # "inactive"
      BY <2>3 DEF BackgroundSync, IInv, TypeOK, Snapshot
    <3>2. Holder(r) /\ role[r] = "primary" /\ commit[r] = "idle"
      BY <2>3 DEF BackgroundSync
    <3>3. StartCommit(r, {}, state[r].status)
          /\ UNCHANGED <<up, boot, role, peer, serving, bundles, safe>>
      BY <2>3 DEF BackgroundSync, history
    <3> QED
      BY <1>1, <3>1, <3>2, <3>3, StartCommitKeeps
  <2>4. ASSUME NEW r \in Replica, CommitAcknowledged(r) \/ CommitFail(r)
        PROVE  CoreInv'
    BY <1>1, <2>4, CommitAcknowledgedKeeps, CommitFailKeeps
  <2>5. ASSUME NEW r \in Replica, ServeCustody(r)
        PROVE  CoreInv'
    BY <2>5, ServeCustodyKeeps
  <2>6. ASSUME NEW r \in Replica,
               Heartbeat(r) \/ Quiet(r) \/ ProbePrimary(r) \/ FailoverAbandon(r)
        PROVE  CoreInv'
    BY <2>6, CoreFrame DEF IInv, Heartbeat, Quiet, ProbePrimary, FailoverAbandon,
       local, network, history
  <2>7. ASSUME NEW r \in Replica, Lose(r), UNCHANGED <<boot, link, released, safe, replicated>>
        PROVE  CoreInv'
    BY <1>1, <2>7, LoseKeeps
  <2>8. ASSUME NEW r \in Replica, Stop(r) \/ FailoverStart(r)
        PROVE  CoreInv'
    BY <2>7, <2>8, OtherReplica DEF Stop, FailoverStart
  <2>9. ASSUME NEW r \in Replica, Boot(r)
        PROVE  CoreInv'
    BY <1>1, <2>9, BootKeeps
  <2>10. ASSUME NEW r \in Replica, Promote(r)
         PROVE  CoreInv'
    BY <1>1, <2>10, PromoteKeeps
  <2>11. ASSUME NEW m \in syncs, SyncReceive(m)
         PROVE  CoreInv'
    BY <1>1, <2>11, SyncReceiveKeeps
  <2>12. ASSUME NEW t \in serving, RecordPeer(t)
         PROVE  CoreInv'
    BY <2>12, RecordPeerKeeps
  <2>13. ASSUME NEW t \in bundles, ApplyCustody(t)
         PROVE  CoreInv'
    BY <1>1, <2>13, ApplyCustodyKeeps
  <2>14. ASSUME Partition
         PROVE  CoreInv'
    BY <2>14, CoreFrame DEF IInv, Partition, local, history
  <2>15. ASSUME NEW r \in Replica, CommitRefused(r)
         PROVE  CoreInv'
    <3>1. state[r].status \in Status /\ state[r].status # "inactive"
      BY <2>15 DEF CommitRefused, IInv, TypeOK, Snapshot
    <3>2. role[r] = "primary" /\ commit[r] = "idle"
      BY <2>15 DEF CommitRefused
    <3>3. /\ state' = [state EXCEPT ![r] = Committed(r, {}, state[r].status)]
          /\ UNCHANGED <<up, boot, role, peer, commit, previous, serving,
                         bundles, syncs, safe>>
      BY <2>15 DEF CommitRefused, network, history
    <3> QED
      BY <1>1, <2>15, <3>1, <3>2, <3>3, AdvanceKeeps DEF CommitRefused
  <2>16. CoreInv'
    BY <1>3, <2>1, <2>2, <2>3, <2>4, <2>5, <2>6, <2>8, <2>9, <2>10, <2>11, <2>12,
       <2>13, <2>14, <2>15 DEF Next
  <2> QED
    BY <1>1, <1>3, <2>16, FenceStep DEF IInv
<1>4. QED
  BY <1>2, <1>3

(* With fenced failover the invariant holds of every behaviour. *)
LEMMA InvHolds ==
    ASSUME Fenced
    PROVE  Spec => []IInv
<1>1. Init => IInv
  BY InitInv, InitType
<1>2. IInv /\ [Next]_vars => IInv'
  BY InvStep
<1>3. QED
  BY <1>1, <1>2, PTL DEF Spec

(* With fenced failover, whatever restarts, promotions, lost answers, late *)
(* syncs and late custody bundles do, every live copy of the lineage holds *)
(* all that some acknowledged state contained.                             *)
THEOREM AcknowledgedAlwaysSurvives ==
    ASSUME Fenced
    PROVE  Spec => []AcknowledgedSurvives
<1>1. IInv => AcknowledgedSurvives
  BY DEF IInv, CoreInv, HoldersKeep, Secured, AcknowledgedSurvives, TypeOK
<1>2. QED
  BY <1>1, InvHolds, PTL

(* With fenced failover there is never a second live primary. *)
THEOREM AtMostOnePrimary ==
    ASSUME Fenced
    PROVE  Spec => []OnePrimary
<1>1. IInv => OnePrimary
  BY DEF IInv, CoreInv
<1>2. QED
  BY <1>1, InvHolds, PTL

-----------------------------------------------------------------------------
(* Released changes: the copies and messages that may become a replica's    *)
(* state keep their order.                                                  *)

(* The changes that stay whatever becomes of the commit under way. *)
Settled(r) == IF commit[r] = "idle" THEN state[r].changes ELSE previous[r].changes

(* The changes of a commit under way are not released. *)
RevertKeepsReleased ==
    \A r \in Replica : commit[r] # "idle" =>
        /\ previous[r].changes \subseteq state[r].changes
        /\ released \cap state[r].changes \subseteq previous[r].changes

(* What the custodian, a sync or a transfer has of the released changes,    *)
(* the primary has.                                                         *)
CustodianWithin ==
    \A p \in Replica : Holder(p) /\ role[p] = "primary" /\ Holder(Other(p)) =>
        released \cap state[Other(p)].changes \subseteq Settled(p)

SyncsWithin ==
    \A m \in syncs : up[m.by] /\ Deliverable(m) =>
        released \cap m.state.changes \subseteq Settled(m.by)

TransfersWithin ==
    \A t \in serving \cup bundles :
        Holder(t.by) /\ role[t.by] = "primary" /\ Current(t) =>
        released \cap t.state.changes \subseteq Settled(t.by)

(* A sync has the released changes of every state its recipient may have    *)
(* when it accepts it: the one it holds, one it may be re-keyed with, one   *)
(* of an earlier sync.                                                      *)
SyncsAfterState ==
    \A m \in syncs : Deliverable(m) /\ Holder(Other(m.by)) =>
        released \cap state[Other(m.by)].changes \subseteq m.state.changes

SyncsAfterTransfers ==
    \A m \in syncs, t \in serving \cup bundles :
        /\ Deliverable(m) /\ Current(t)
        /\ t.by = m.by
        /\ t.state.serial < m.state.serial
        => released \cap t.state.changes \subseteq m.state.changes

SyncsInOrder ==
    \A m, n \in syncs :
        /\ Deliverable(m) /\ Deliverable(n)
        /\ n.by = m.by
        /\ n.state.serial < m.state.serial
        => released \cap n.state.changes \subseteq m.state.changes

(* A primary with a sync under way has a peer, so it releases nothing alone. *)
SyncsHavePeer ==
    /\ \A m \in syncs : up[m.by] /\ Deliverable(m) => peer[m.by] # NoPeer
    /\ \A t \in serving \cup bundles : t.toBoot # NoPeer

(* A custodian changes nothing while the primary it re-keys is inactive. *)
PrimaryTransferIsState ==
    \A t \in serving \cup bundles :
        Current(t) /\ Holder(t.by) /\ t.role = "primary" => t.state = state[t.by]

KeepInv ==
    /\ RevertKeepsReleased
    /\ CustodianWithin
    /\ SyncsWithin
    /\ TransfersWithin
    /\ SyncsAfterState
    /\ SyncsAfterTransfers
    /\ SyncsInOrder
    /\ SyncsHavePeer
    /\ PrimaryTransferIsState

(* The invariant does not speak of the other variables. *)
LEMMA KeepFrame ==
    ASSUME KeepInv,
           UNCHANGED <<up, boot, role, state, peer, commit, previous, serving,
                       bundles, syncs, released>>
    PROVE  KeepInv'
<1>1. RevertKeepsReleased' /\ CustodianWithin'
  BY DEF KeepInv, RevertKeepsReleased, CustodianWithin, Settled, Holder
<1>2. SyncsWithin' /\ TransfersWithin'
  BY DEF KeepInv, SyncsWithin, TransfersWithin, Settled, Deliverable, Current, Holder
<1>3. SyncsAfterState' /\ SyncsAfterTransfers' /\ SyncsInOrder'
  BY DEF KeepInv, SyncsAfterState, SyncsAfterTransfers, SyncsInOrder, Deliverable,
     Current, Holder
<1>4. SyncsHavePeer' /\ PrimaryTransferIsState'
  BY DEF KeepInv, SyncsHavePeer, PrimaryTransferIsState, Deliverable, Current, Holder
<1>5. QED
  BY <1>1, <1>2, <1>3, <1>4 DEF KeepInv

(* A sync that can still be delivered by a live replica comes from the only *)
(* primary, and no serial of it is ahead of the primary's own.              *)
LEMMA DeliverableSync ==
    ASSUME IInv, NEW m \in syncs, Deliverable(m)
    PROVE  /\ m.by \in Replica
           /\ m.state \in Snapshot
           /\ up[m.by] => /\ Holder(m.by)
                          /\ role[m.by] = "primary"
                          /\ m.state.serial <= state[m.by].serial
           /\ ~(Holder(Other(m.by)) /\ role[Other(m.by)] = "primary")
<1>1. m.by \in Replica /\ m.state \in Snapshot
  BY DEF IInv, TypeOK, Sync
<1>2. up[m.by] => /\ Holder(m.by)
                  /\ role[m.by] = "primary"
                  /\ m.state.serial <= state[m.by].serial
  BY DEF IInv, CoreInv, SyncsOfPrimary
<1>3. ~(Holder(Other(m.by)) /\ role[Other(m.by)] = "primary")
  BY DEF Deliverable, Holder
<1>4. QED
  BY <1>1, <1>2, <1>3

(* A commit that pushes nothing adds to the only primary, which has synced  *)
(* nobody, a change that no other copy has.                                 *)
LEMMA AdvanceKeepsReleased ==
    ASSUME IInv, KeepInv, TypeOK', NEW r \in Replica, NEW cs \in SUBSET Change,
           NEW to \in Status, to # "inactive",
           Holder(r), role[r] = "primary", commit[r] = "idle",
           cs = {} \/ peer[r] = NoPeer,
           state' = [state EXCEPT ![r] = Committed(r, cs, to)],
           released' = released \cup cs,
           UNCHANGED <<up, boot, role, peer, commit, previous, serving,
                       bundles, syncs>>
    PROVE  KeepInv'
<1> USE OtherReplica
<1>1. /\ \A s \in Replica : s # r => state'[s] = state[s]
      /\ state'[r].status = to
      /\ state'[r].serial = state[r].serial + 1
      /\ state'[r].changes = state[r].changes \cup cs
      /\ commit[r] = "idle"
  BY DEF IInv, TypeOK, Committed
<1>2. \A s \in Replica : Holder(s)' <=> Holder(s)
  BY <1>1 DEF Holder
<1>3. \A s \in Replica : s # r => ~(Holder(s) /\ role[s] = "primary") /\ commit[s] = "idle"
  BY <1>1 DEF IInv, CoreInv, OnePrimary, CommitByPrimary
<1>4. \A t \in serving \cup bundles : t.by \in Replica /\ (Current(t)' => Current(t))
  BY <1>1 DEF Current, Holder, IInv, TypeOK, Transfer
<1>5. \A m \in syncs : Deliverable(m)' => Deliverable(m) /\ m.by = r
  <2> SUFFICES ASSUME NEW m \in syncs, Deliverable(m)'
               PROVE  Deliverable(m) /\ m.by = r
    OBVIOUS
  <2>1. m.by \in Replica
    BY DEF IInv, TypeOK, Sync
  <2>2. Other(m.by) # r
    BY <2>1, <1>1 DEF Deliverable, Holder
  <2> QED
    BY <2>1, <2>2, <1>1 DEF Deliverable
<1>6. \A m \in syncs : Deliverable(m)' => cs = {}
  BY <1>5 DEF KeepInv, SyncsHavePeer, Holder
<1>7. RevertKeepsReleased'
  BY <1>1, <1>3 DEF KeepInv, RevertKeepsReleased
<1>8. CustodianWithin' /\ SyncsWithin' /\ TransfersWithin'
  <2>1. Settled(r)' = Settled(r) \cup cs
    BY <1>1 DEF Settled
  <2>2. CustodianWithin'
    BY <2>1, <1>1, <1>2, <1>3 DEF KeepInv, CustodianWithin
  <2>3. SyncsWithin'
    BY <2>1, <1>5 DEF KeepInv, SyncsWithin
  <2>4. TransfersWithin'
    BY <2>1, <1>2, <1>3, <1>4 DEF KeepInv, TransfersWithin
  <2> QED
    BY <2>2, <2>3, <2>4
<1>9. SyncsAfterState' /\ SyncsAfterTransfers' /\ SyncsInOrder'
  <2>1. SyncsAfterState'
    BY <1>1, <1>2, <1>5, <1>6 DEF KeepInv, SyncsAfterState
  <2>2. SyncsAfterTransfers'
    BY <1>4, <1>5, <1>6 DEF KeepInv, SyncsAfterTransfers
  <2>3. SyncsInOrder'
    BY <1>5, <1>6 DEF KeepInv, SyncsInOrder
  <2> QED
    BY <2>1, <2>2, <2>3
<1>10. SyncsHavePeer'
  BY <1>5 DEF KeepInv, SyncsHavePeer
<1>11. PrimaryTransferIsState'
  BY <1>1, <1>2, <1>4 DEF KeepInv, PrimaryTransferIsState, IInv, CoreInv, TransferRole
<1>12. QED
  BY <1>7, <1>8, <1>9, <1>10, <1>11 DEF KeepInv

(* The state a commit pushes contains every other copy of the released      *)
(* changes, and its own changes are not released yet.                       *)
LEMMA StartCommitKeepsReleased ==
    ASSUME IInv, KeepInv, TypeOK', NEW r \in Replica, NEW cs \in SUBSET Change,
           NEW to \in Status, to # "inactive",
           Holder(r), role[r] = "primary", commit[r] = "idle",
           cs \cap released = {},
           StartCommit(r, cs, to),
           UNCHANGED <<up, boot, role, peer, serving, bundles, released>>
    PROVE  KeepInv'
<1> USE OtherReplica
<1> DEFINE new == [by |-> r, toBoot |-> peer[r], state |-> Committed(r, cs, to)]
<1>1. /\ \A s \in Replica : s # r =>
           /\ state'[s] = state[s]
           /\ commit'[s] = commit[s]
           /\ previous'[s] = previous[s]
      /\ state'[r] = Committed(r, cs, to)
      /\ commit'[r] = "replicating" /\ commit[r] = "idle"
      /\ previous'[r] = state[r]
      /\ syncs' = syncs \cup {new}
      /\ peer[r] # NoPeer
  BY DEF StartCommit, IInv, TypeOK
<1>2. /\ state'[r].status = to
      /\ state'[r].serial = state[r].serial + 1
      /\ state'[r].changes = state[r].changes \cup cs
      /\ state[r].serial \in Nat
  BY <1>1 DEF Committed, IInv, TypeOK, Snapshot
<1>3. new.by = r /\ new.toBoot = peer[r] /\ new.state = state'[r]
  BY <1>1
<1> HIDE DEF new
<1>4. \A s \in Replica : Holder(s)' <=> Holder(s)
  BY <1>1, <1>2 DEF Holder
<1>5. \A s \in Replica : s # r => ~(Holder(s) /\ role[s] = "primary") /\ commit[s] = "idle"
  BY <1>1 DEF IInv, CoreInv, OnePrimary, CommitByPrimary
<1>6. \A t \in serving \cup bundles : t.by \in Replica /\ (Current(t)' => Current(t))
  BY <1>1, <1>2 DEF Current, Holder, IInv, TypeOK, Transfer
<1>7. \A m \in syncs : Deliverable(m)' =>
        /\ Deliverable(m) /\ m.by = r
        /\ m.state.serial \in Nat /\ m.state.serial <= state[r].serial
  <2> SUFFICES ASSUME NEW m \in syncs, Deliverable(m)'
               PROVE  /\ Deliverable(m) /\ m.by = r
                      /\ m.state.serial \in Nat /\ m.state.serial <= state[r].serial
    OBVIOUS
  <2>1. m.by \in Replica /\ m.state.serial \in Nat
    BY DEF IInv, TypeOK, Sync, Snapshot
  <2>2. Other(m.by) # r
    BY <2>1, <1>1, <1>2 DEF Deliverable, Holder
  <2>3. m.by = r /\ Deliverable(m)
    BY <2>1, <2>2, <1>1 DEF Deliverable
  <2> QED
    BY <2>1, <2>3, DeliverableSync DEF Holder
<1>8. Settled(r)' = state[r].changes /\ Settled(r) = state[r].changes
  BY <1>1 DEF Settled
<1>9. RevertKeepsReleased'
  BY <1>1, <1>2, <1>5 DEF RevertKeepsReleased
<1>10. CustodianWithin'
  BY <1>1, <1>4, <1>5, <1>8 DEF KeepInv, CustodianWithin
<1>11. SyncsWithin'
  <2> SUFFICES ASSUME NEW m \in syncs', up[m.by], Deliverable(m)'
               PROVE  released \cap m.state.changes \subseteq Settled(m.by)'
    BY DEF SyncsWithin
  <2>1. CASE m = new
    BY <2>1, <1>2, <1>3, <1>8
  <2>2. CASE m \in syncs
    BY <2>2, <1>7, <1>8 DEF KeepInv, SyncsWithin
  <2> QED
    BY <2>1, <2>2, <1>1
<1>12. TransfersWithin'
  BY <1>4, <1>5, <1>6, <1>8 DEF KeepInv, TransfersWithin
<1>13. SyncsAfterState'
  <2> SUFFICES ASSUME NEW m \in syncs', Deliverable(m)', Holder(Other(m.by))'
               PROVE  released \cap state'[Other(m.by)].changes \subseteq m.state.changes
    BY DEF SyncsAfterState
  <2>1. CASE m = new
    BY <2>1, <1>1, <1>2, <1>3, <1>4, <1>8 DEF KeepInv, CustodianWithin
  <2>2. CASE m \in syncs
    BY <2>2, <1>1, <1>4, <1>7 DEF KeepInv, SyncsAfterState
  <2> QED
    BY <2>1, <2>2, <1>1
<1>14. SyncsAfterTransfers'
  <2> SUFFICES ASSUME NEW m \in syncs', NEW t \in serving \cup bundles,
                      Deliverable(m)', Current(t)', t.by = m.by,
                      t.state.serial < m.state.serial
               PROVE  released \cap t.state.changes \subseteq m.state.changes
    BY DEF SyncsAfterTransfers
  <2>1. CASE m = new
    BY <2>1, <1>2, <1>3, <1>6, <1>8 DEF KeepInv, TransfersWithin
  <2>2. CASE m \in syncs
    BY <2>2, <1>6, <1>7 DEF KeepInv, SyncsAfterTransfers
  <2> QED
    BY <2>1, <2>2, <1>1
<1>15. SyncsInOrder'
  <2> SUFFICES ASSUME NEW m \in syncs', NEW n \in syncs',
                      Deliverable(m)', Deliverable(n)', n.by = m.by,
                      n.state.serial < m.state.serial
               PROVE  released \cap n.state.changes \subseteq m.state.changes
    BY DEF SyncsInOrder
  <2>1. CASE n = new
    BY <2>1, <1>1, <1>2, <1>3, <1>7
  <2>2. CASE n \in syncs /\ m = new
    BY <2>2, <1>2, <1>3, <1>7, <1>8 DEF KeepInv, SyncsWithin, Holder
  <2>3. CASE n \in syncs /\ m \in syncs
    BY <2>3, <1>7 DEF KeepInv, SyncsInOrder
  <2> QED
    BY <2>1, <2>2, <2>3, <1>1
<1>16. SyncsHavePeer'
  BY <1>1, <1>3, <1>7 DEF KeepInv, SyncsHavePeer
<1>17. PrimaryTransferIsState'
  BY <1>1, <1>4, <1>6 DEF KeepInv, PrimaryTransferIsState, IInv, CoreInv, TransferRole
<1>18. QED
  BY <1>9, <1>10, <1>11, <1>12, <1>13, <1>14, <1>15, <1>16, <1>17 DEF KeepInv

(* A change is released only when every sync under way already carries it.  *)
LEMMA CommitAcknowledgedKeepsReleased ==
    ASSUME IInv, KeepInv, TypeOK', NEW r \in Replica, CommitAcknowledged(r)
    PROVE  KeepInv'
<1> USE OtherReplica
<1>1. /\ UNCHANGED <<up, boot, role, state, peer, serving, bundles, syncs>>
      /\ commit[r] = "acknowledged" /\ commit'[r] = "idle"
      /\ released' = released \cup (state[r].changes \ previous[r].changes)
      /\ \A s \in Replica : s # r => commit'[s] = commit[s] /\ previous'[s] = previous[s]
  BY DEF CommitAcknowledged, network, IInv, TypeOK
<1>2. /\ Holder(r) /\ role[r] = "primary"
      /\ \A s \in Replica : s # r =>
           ~(Holder(s) /\ role[s] = "primary") /\ commit[s] = "idle"
  BY <1>1 DEF IInv, CoreInv, OnePrimary, CommitByPrimary
<1>3. state[r].changes \subseteq Secured
  BY <1>1 DEF Secured, IInv, TypeOK, Snapshot
<1>4. \A m \in syncs : Deliverable(m) => released' \ released \subseteq m.state.changes
  BY <1>1, <1>3 DEF IInv, CoreInv, SyncsKeep
<1>5. Settled(r) \subseteq state[r].changes /\ Settled(r)' = state[r].changes
  BY <1>1 DEF Settled, KeepInv, RevertKeepsReleased
<1>6. released' \ released \subseteq state[r].changes
  BY <1>1
<1>7. \A t \in serving \cup bundles : t.by \in Replica /\ (Current(t)' <=> Current(t))
  BY <1>1 DEF Current, IInv, TypeOK, Transfer
<1>8. \A m \in syncs : /\ m.by \in Replica
                       /\ Deliverable(m)' <=> Deliverable(m)
                       /\ Deliverable(m) => m.by = r
  <2> SUFFICES ASSUME NEW m \in syncs
               PROVE  /\ m.by \in Replica
                      /\ Deliverable(m)' <=> Deliverable(m)
                      /\ Deliverable(m) => m.by = r
    OBVIOUS
  <2>1. m.by \in Replica
    BY DEF IInv, TypeOK, Sync
  <2>2. Deliverable(m) => Other(m.by) # r
    BY <2>1, <1>2 DEF Deliverable, Holder
  <2> QED
    BY <2>1, <2>2, <1>1 DEF Deliverable
<1>9. RevertKeepsReleased'
  BY <1>1, <1>2 DEF RevertKeepsReleased
<1>10. CustodianWithin'
  BY <1>1, <1>2, <1>5, <1>6 DEF KeepInv, CustodianWithin, Holder
<1>11. SyncsWithin'
  BY <1>1, <1>5, <1>6, <1>8 DEF KeepInv, SyncsWithin
<1>12. TransfersWithin'
  BY <1>1, <1>2, <1>5, <1>6, <1>7 DEF KeepInv, TransfersWithin, Holder
<1>13. SyncsAfterState'
  BY <1>1, <1>4, <1>8 DEF KeepInv, SyncsAfterState, Holder
<1>14. SyncsAfterTransfers' /\ SyncsInOrder'
  BY <1>1, <1>4, <1>7, <1>8 DEF KeepInv, SyncsAfterTransfers, SyncsInOrder
<1>15. SyncsHavePeer' /\ PrimaryTransferIsState'
  BY <1>1, <1>7, <1>8 DEF KeepInv, SyncsHavePeer, PrimaryTransferIsState, Holder
<1>16. QED
  BY <1>9, <1>10, <1>11, <1>12, <1>13, <1>14, <1>15 DEF KeepInv

(* A revert goes back to what was settled before its commit. *)
LEMMA CommitFailKeepsReleased ==
    ASSUME IInv, KeepInv, TypeOK', NEW r \in Replica, CommitFail(r)
    PROVE  KeepInv'
<1> USE OtherReplica
<1>1. /\ UNCHANGED <<up, boot, role, peer, serving, bundles, syncs, released>>
      /\ commit[r] # "idle" /\ commit'[r] = "idle"
      /\ \A s \in Replica : s # r => /\ commit'[s] = commit[s]
                                     /\ previous'[s] = previous[s]
                                     /\ state'[s] = state[s]
  BY DEF CommitFail, PushFailed, network, history, IInv, TypeOK
<1>2. /\ state'[r].status = previous[r].status
      /\ state'[r].changes = previous[r].changes
      /\ state'[r].serial = state[r].serial
  BY DEF CommitFail, IInv, TypeOK, Snapshot
<1>3. /\ Holder(r) /\ role[r] = "primary" /\ previous[r].status # "inactive"
      /\ \A s \in Replica : s # r =>
           ~(Holder(s) /\ role[s] = "primary") /\ commit[s] = "idle"
  BY <1>1 DEF IInv, CoreInv, OnePrimary, CommitByPrimary, RevertKeeps
<1>4. \A s \in Replica : Holder(s)' <=> Holder(s)
  BY <1>1, <1>2, <1>3 DEF Holder
<1>5. \A s \in Replica : Settled(s)' = Settled(s)
  BY <1>1, <1>2 DEF Settled
<1>6. \A t \in serving \cup bundles : t.by \in Replica /\ (Current(t)' => Current(t))
  BY <1>1, <1>2, <1>3 DEF Current, Holder, IInv, TypeOK, Transfer
<1>7. \A m \in syncs : m.by \in Replica /\ (Deliverable(m)' => Deliverable(m) /\ m.by = r)
  <2> SUFFICES ASSUME NEW m \in syncs
               PROVE  m.by \in Replica /\ (Deliverable(m)' => Deliverable(m) /\ m.by = r)
    OBVIOUS
  <2>1. m.by \in Replica
    BY DEF IInv, TypeOK, Sync
  <2>2. Deliverable(m)' => Other(m.by) # r
    BY <2>1, <1>1, <1>2, <1>3 DEF Deliverable, Holder
  <2> QED
    BY <2>1, <2>2, <1>1 DEF Deliverable
<1>8. RevertKeepsReleased'
  BY <1>1, <1>3 DEF RevertKeepsReleased
<1>9. CustodianWithin'
  BY <1>1, <1>3, <1>4, <1>5 DEF KeepInv, CustodianWithin
<1>10. SyncsWithin' /\ TransfersWithin'
  BY <1>1, <1>4, <1>5, <1>6, <1>7 DEF KeepInv, SyncsWithin, TransfersWithin
<1>11. SyncsAfterState'
  BY <1>1, <1>4, <1>7 DEF KeepInv, SyncsAfterState
<1>12. SyncsAfterTransfers' /\ SyncsInOrder'
  BY <1>1, <1>6, <1>7 DEF KeepInv, SyncsAfterTransfers, SyncsInOrder
<1>13. SyncsHavePeer'
  BY <1>1, <1>7 DEF KeepInv, SyncsHavePeer
<1>14. PrimaryTransferIsState'
  BY <1>1, <1>3, <1>4, <1>6 DEF KeepInv, PrimaryTransferIsState, IInv, CoreInv, TransferRole
<1>15. QED
  BY <1>8, <1>9, <1>10, <1>11, <1>12, <1>13, <1>14 DEF KeepInv

(* The custodian takes a sync whose state follows all it had, and the syncs *)
(* still deliverable after it follow this one.                              *)
LEMMA SyncReceiveKeepsReleased ==
    ASSUME IInv, KeepInv, TypeOK', NEW m \in syncs, SyncReceive(m)
    PROVE  KeepInv'
<1> USE OtherReplica
<1> DEFINE p == m.by
           c == Other(m.by)
<1>1. /\ p \in Replica /\ c \in Replica /\ c # p /\ Other(c) = p
      /\ m.state \in Snapshot /\ state[c].serial \in Nat
      /\ \A s \in Replica : s = p \/ s = c
  BY DEF IInv, TypeOK, Sync, Snapshot
<1>2. /\ UNCHANGED <<up, boot, role, peer, previous, serving, bundles, released>>
      /\ Holder(c) /\ role[c] = "custodian" /\ boot[c] = m.toBoot
      /\ commit[c] = "idle" /\ commit'[c] = "idle"
      /\ m.state.serial > state[c].serial
      /\ state'[c] = m.state /\ state'[p] = state[p]
      /\ (commit'[p] = "idle") = (commit[p] = "idle")
      /\ syncs' = syncs \ {m}
  BY <1>1 DEF SyncReceive, Newer, IInv, TypeOK
<1>3. Deliverable(m) /\ m.state.status # "inactive"
  BY <1>1, <1>2 DEF IInv, CoreInv, Deliverable, TravelsHeld, Holder
<1>4. \A s \in Replica : Holder(s)' <=> Holder(s)
  BY <1>1, <1>2, <1>3 DEF Holder
<1>5. Settled(p)' = Settled(p)
  BY <1>2 DEF Settled
<1>6. \A t \in serving \cup bundles : Current(t)' => Current(t) /\ t.by = c
  BY <1>1, <1>2, <1>3 DEF Current, Holder, IInv, TypeOK, Transfer
<1>7. \A n \in syncs : Deliverable(n)' =>
        Deliverable(n) /\ n.by = p /\ n.state.serial > m.state.serial
  <2> SUFFICES ASSUME NEW n \in syncs, Deliverable(n)'
               PROVE  Deliverable(n) /\ n.by = p /\ n.state.serial > m.state.serial
    OBVIOUS
  <2>1. n.by \in Replica /\ n.state.serial \in Nat /\ m.state.serial \in Nat
    BY <1>1 DEF IInv, TypeOK, Sync, Snapshot
  <2>2. CASE n.by = p
    BY <2>1, <2>2, <1>1, <1>2, <1>3 DEF Deliverable
  <2>3. CASE n.by = c
    BY <2>3, <1>2 DEF IInv, CoreInv, SyncsOfPrimary, Holder
  <2> QED
    BY <2>1, <2>2, <2>3, <1>1
<1>8. RevertKeepsReleased'
  BY <1>1, <1>2 DEF KeepInv, RevertKeepsReleased
<1>9. CustodianWithin'
  BY <1>1, <1>2, <1>3, <1>4, <1>5 DEF KeepInv, CustodianWithin, SyncsWithin, Holder
<1>10. SyncsWithin'
  BY <1>1, <1>2, <1>5, <1>7 DEF KeepInv, SyncsWithin
<1>11. TransfersWithin'
  BY <1>1, <1>2, <1>6 DEF TransfersWithin
<1>12. SyncsAfterState'
  BY <1>1, <1>2, <1>3, <1>7 DEF KeepInv, SyncsAfterState, SyncsInOrder
<1>13. SyncsAfterTransfers' /\ SyncsInOrder'
  BY <1>1, <1>2, <1>6, <1>7 DEF KeepInv, SyncsAfterTransfers, SyncsInOrder
<1>14. SyncsHavePeer'
  BY <1>2, <1>7 DEF KeepInv, SyncsHavePeer
<1>15. PrimaryTransferIsState'
  <2> SUFFICES ASSUME NEW t \in serving \cup bundles, Current(t)' PROVE FALSE
    BY <1>2 DEF PrimaryTransferIsState
  <2>1. up[p] /\ state[p].status = "inactive"
    BY <1>1, <1>2, <1>6 DEF Current
  <2> QED
    BY <2>1 DEF IInv, CoreInv, SyncsOfPrimary, Holder
<1>16. QED
  BY <1>8, <1>9, <1>10, <1>11, <1>12, <1>13, <1>14, <1>15 DEF KeepInv

(* A custody transfer is a copy of a settled state; one that will make its  *)
(* recipient the primary is served by an idle custodian.                    *)
LEMMA ServeCustodyKeepsReleased ==
    ASSUME IInv, KeepInv, NEW r \in Replica, ServeCustody(r)
    PROVE  KeepInv'
<1> USE OtherReplica
<1> DEFINE new == [by |-> r, byBoot |-> boot[r], toBoot |-> boot[Other(r)],
                   role |-> OppositeRole(role[r]), state |-> state[r]]
<1>1. /\ UNCHANGED <<up, boot, role, state, peer, commit, previous, bundles,
                     syncs, released>>
      /\ serving' = serving \cup {new}
      /\ Holder(r) /\ commit[r] = "idle"
      /\ up[Other(r)] /\ state[Other(r)].status = "inactive"
  BY DEF ServeCustody, MayServe, local, history, KeyHolder, Holder
<1>2. new.by = r /\ new.toBoot = boot[Other(r)] /\ new.state = state[r]
  OBVIOUS
<1> HIDE DEF new
<1>3. RevertKeepsReleased' /\ CustodianWithin'
  BY <1>1 DEF KeepInv, RevertKeepsReleased, CustodianWithin, Settled, Holder
<1>4. SyncsWithin' /\ SyncsAfterState' /\ SyncsInOrder'
  BY <1>1 DEF KeepInv, SyncsWithin, SyncsAfterState, SyncsInOrder, Settled, Holder,
     Deliverable
<1>5. TransfersWithin'
  BY <1>1, <1>2 DEF KeepInv, TransfersWithin, Settled, Holder, Current
<1>6. SyncsAfterTransfers'
  <2> SUFFICES ASSUME NEW m \in syncs, Deliverable(m), m.by = r,
                      state[r].serial < m.state.serial
               PROVE  FALSE
    BY <1>1, <1>2 DEF KeepInv, SyncsAfterTransfers, Deliverable, Current
  <2>1. m.state.serial \in Nat /\ state[r].serial \in Nat
    BY DEF IInv, TypeOK, Sync, Snapshot
  <2> QED
    BY <2>1, <1>1, DeliverableSync DEF Holder
<1>7. SyncsHavePeer'
  BY <1>1, <1>2 DEF KeepInv, SyncsHavePeer, Deliverable, IInv, TypeOK, NoPeer
<1>8. PrimaryTransferIsState'
  BY <1>1, <1>2 DEF KeepInv, PrimaryTransferIsState, Current, Holder
<1>9. QED
  BY <1>3, <1>4, <1>5, <1>6, <1>7, <1>8 DEF KeepInv

(* The recorded peer is a boot. *)
LEMMA RecordPeerKeepsReleased ==
    ASSUME IInv, KeepInv, NEW t \in serving, RecordPeer(t)
    PROVE  KeepInv'
<1>1. /\ UNCHANGED <<up, boot, role, state, commit, previous, syncs, released>>
      /\ serving' \cup bundles' \subseteq serving \cup bundles
  BY DEF RecordPeer, history
<1>2. RevertKeepsReleased' /\ CustodianWithin'
  BY <1>1 DEF KeepInv, RevertKeepsReleased, CustodianWithin, Settled, Holder
<1>3. SyncsWithin' /\ TransfersWithin'
  BY <1>1 DEF KeepInv, SyncsWithin, TransfersWithin, Settled, Holder, Deliverable, Current
<1>4. SyncsAfterState' /\ SyncsAfterTransfers' /\ SyncsInOrder'
  BY <1>1 DEF KeepInv, SyncsAfterState, SyncsAfterTransfers, SyncsInOrder, Holder,
     Deliverable, Current
<1>5. SyncsHavePeer'
  <2>1. \A m \in syncs : m.by \in Replica
    BY DEF IInv, TypeOK, Sync
  <2>2. \A r \in Replica : peer[r] # NoPeer => peer'[r] # NoPeer
    BY DEF RecordPeer, KeepInv, SyncsHavePeer, IInv, TypeOK
  <2> QED
    BY <1>1, <2>1, <2>2 DEF KeepInv, SyncsHavePeer, Deliverable
<1>6. PrimaryTransferIsState'
  BY <1>1 DEF KeepInv, PrimaryTransferIsState, Current, Holder
<1>7. QED
  BY <1>2, <1>3, <1>4, <1>5, <1>6 DEF KeepInv

(* A re-keyed custodian is not ahead of any sync it will still accept; a    *)
(* re-keyed primary has what the custodian that served it has.              *)
LEMMA ApplyCustodyKeepsReleased ==
    ASSUME IInv, KeepInv, TypeOK', NEW t \in bundles, ApplyCustody(t)
    PROVE  KeepInv'
<1> USE OtherReplica
<1> DEFINE s == t.by
           r == Other(t.by)
<1>1. /\ s \in Replica /\ r \in Replica /\ s # r /\ Other(r) = s
      /\ \A x \in Replica : x = s \/ x = r
  BY DEF IInv, TypeOK, Transfer
<1>2. /\ UNCHANGED <<up, boot, commit, previous, serving, syncs, released>>
      /\ Current(t) /\ commit[r] = "idle"
      /\ up[r] /\ boot[r] = t.toBoot /\ state[r].status = "inactive"
      /\ state'[r] = t.state /\ role'[r] = t.role
      /\ state'[s] = state[s] /\ role'[s] = role[s] /\ peer'[s] = peer[s]
      /\ bundles' \subseteq bundles
  BY <1>1 DEF ApplyCustody, Current, history, IInv, TypeOK
<1>3. /\ t.state.status # "inactive"
      /\ t.role = "primary" \/ t.role = "custodian"
      /\ Holder(s) => role[s] # t.role
  BY <1>2 DEF IInv, CoreInv, TransfersKeep, TravelsHeld, TransferRole, TypeOK,
     Transfer, Role
<1>4. \A u \in serving' \cup bundles' : ~Current(u)'
  <2> SUFFICES ASSUME NEW u \in serving \cup bundles, Current(u)' PROVE FALSE
    BY <1>2
  <2>1. u.by \in Replica
    BY DEF IInv, TypeOK, Transfer
  <2>2. u.by = r /\ Current(u)
    BY <2>1, <1>1, <1>2, <1>3 DEF Current
  <2> QED
    BY <2>2, <1>1, <1>2 DEF IInv, CoreInv, OneRecipient
<1>5. /\ Holder(s)' <=> Holder(s)
      /\ Holder(r)' /\ ~Holder(r)
  BY <1>2, <1>3 DEF Holder
<1>6. \A m \in syncs : Deliverable(m)' =>
        /\ Deliverable(m) /\ m.by = s
        /\ t.role = "custodian" /\ m.state.serial > t.state.serial
  <2> SUFFICES ASSUME NEW m \in syncs, Deliverable(m)'
               PROVE  /\ Deliverable(m) /\ m.by = s
                      /\ t.role = "custodian" /\ m.state.serial > t.state.serial
    OBVIOUS
  <2>1. CASE m.by = s
    BY <2>1, <1>2, <1>3 DEF Deliverable
  <2>2. CASE m.by = r
    BY <2>2, <1>2 DEF IInv, CoreInv, SyncsOfPrimary, Holder
  <2>3. m.by \in Replica
    BY DEF IInv, TypeOK, Sync
  <2> QED
    BY <2>1, <2>2, <2>3, <1>1
<1>7. RevertKeepsReleased'
  BY <1>1, <1>2 DEF KeepInv, RevertKeepsReleased
<1>8. CustodianWithin'
  <2>1. CASE t.role = "custodian"
    BY <2>1, <1>1, <1>2, <1>3, <1>5 DEF KeepInv, CustodianWithin, TransfersWithin,
       Settled
  <2>2. CASE t.role = "primary"
    <3>1. Holder(s) => state[s] = t.state
      BY <2>2, <1>2 DEF KeepInv, PrimaryTransferIsState
    <3> QED
      BY <3>1, <2>2, <1>1, <1>2, <1>3, <1>5 DEF CustodianWithin, Settled
  <2> QED
    BY <2>1, <2>2, <1>3
<1>9. SyncsWithin'
  <2>1. Settled(s)' = Settled(s)
    BY <1>2 DEF Settled
  <2> QED
    BY <2>1, <1>2, <1>6 DEF KeepInv, SyncsWithin
<1>10. TransfersWithin' /\ SyncsAfterTransfers' /\ PrimaryTransferIsState'
  BY <1>4 DEF TransfersWithin, SyncsAfterTransfers, PrimaryTransferIsState
<1>11. SyncsAfterState'
  <2> SUFFICES ASSUME NEW m \in syncs, Deliverable(m)'
               PROVE  released \cap state'[Other(m.by)].changes \subseteq m.state.changes
    BY <1>2 DEF SyncsAfterState
  <2>1. t.state.serial < m.state.serial
    <3>1. t.state.serial \in Nat /\ m.state.serial \in Nat
      BY DEF IInv, TypeOK, Sync, Transfer, Snapshot
    <3> QED
      BY <3>1, <1>6
  <2> QED
    BY <2>1, <1>2, <1>6 DEF KeepInv, SyncsAfterTransfers
<1>12. SyncsInOrder'
  BY <1>2, <1>6 DEF KeepInv, SyncsInOrder
<1>13. SyncsHavePeer'
  BY <1>2, <1>6 DEF KeepInv, SyncsHavePeer
<1>14. QED
  BY <1>7, <1>8, <1>9, <1>10, <1>11, <1>12, <1>13 DEF KeepInv

(* What a lost replica had sent keeps its order; the other one is alone. *)
LEMMA LoseKeepsReleased ==
    ASSUME IInv, KeepInv, TypeOK', NEW r \in Replica, Lose(r),
           UNCHANGED <<boot, released>>
    PROVE  KeepInv'
<1> USE OtherReplica
<1>1. /\ UNCHANGED <<boot, released>>
      /\ up'[r] = FALSE /\ state'[r] = Fresh /\ commit'[r] = "idle"
      /\ \A s \in Replica : s # r =>
           /\ up'[s] = up[s] /\ role'[s] = role[s] /\ state'[s] = state[s]
           /\ peer'[s] = peer[s] /\ commit'[s] = commit[s] /\ previous'[s] = previous[s]
      /\ serving' \subseteq serving /\ bundles' \subseteq bundles
      /\ syncs' = {m \in syncs : m.by = r}
  BY DEF Lose, IInv, TypeOK
<1>2. ~Holder(r)'
  BY <1>1 DEF Holder
<1>3. \A t \in serving' \cup bundles' : Current(t)' => t.by = r /\ Current(t)
  BY <1>1 DEF Current, IInv, TypeOK, Transfer
<1>4. \A m \in syncs' : m \in syncs /\ m.by = r /\ (Deliverable(m)' => Deliverable(m))
  BY <1>1 DEF Deliverable
<1>5. RevertKeepsReleased'
  BY <1>1 DEF KeepInv, RevertKeepsReleased
<1>6. CustodianWithin'
  BY <1>2 DEF CustodianWithin
<1>7. SyncsWithin' /\ TransfersWithin'
  BY <1>1, <1>2, <1>3, <1>4 DEF SyncsWithin, TransfersWithin
<1>8. SyncsAfterState'
  BY <1>1, <1>4 DEF KeepInv, SyncsAfterState, Holder
<1>9. SyncsAfterTransfers' /\ SyncsInOrder'
  BY <1>1, <1>3, <1>4 DEF KeepInv, SyncsAfterTransfers, SyncsInOrder
<1>10. SyncsHavePeer' /\ PrimaryTransferIsState'
  BY <1>1, <1>2, <1>3, <1>4 DEF KeepInv, SyncsHavePeer, PrimaryTransferIsState
<1>11. QED
  BY <1>5, <1>6, <1>7, <1>8, <1>9, <1>10 DEF KeepInv

(* Nothing on its way is sealed to a new boot. *)
LEMMA BootKeepsReleased ==
    ASSUME IInv, KeepInv, TypeOK', NEW r \in Replica, Boot(r)
    PROVE  KeepInv'
<1> USE OtherReplica
<1>1. /\ UNCHANGED <<role, state, peer, commit, previous, serving, bundles, released>>
      /\ ~up[r] /\ up'[r] /\ boot'[r] = boot[r] + 1
      /\ \A s \in Replica : s # r => up'[s] = up[s] /\ boot'[s] = boot[s]
      /\ syncs' = {m \in syncs : m.by # r}
  BY DEF Boot, history, IInv, TypeOK
<1>2. state[r].status = "inactive" /\ commit[r] = "idle"
  BY <1>1 DEF IInv, CoreInv, DownIsFresh, CommitByPrimary, Holder, Fresh
<1>3. \A s \in Replica : Holder(s)' <=> Holder(s)
  BY <1>1, <1>2 DEF Holder
<1>4. \A t \in serving \cup bundles : Current(t)' => t.by = r /\ Current(t)
  <2> SUFFICES ASSUME NEW t \in serving \cup bundles, Current(t)'
               PROVE  t.by = r /\ Current(t)
    OBVIOUS
  <2>1. t.by \in Replica /\ t.toBoot \in Nat /\ t.toBoot <= boot[Other(t.by)]
        /\ boot[r] \in Nat
    BY DEF IInv, CoreInv, AddressesKnown, TypeOK, Transfer
  <2>2. Other(t.by) # r
    BY <2>1, <1>1 DEF Current
  <2> QED
    BY <2>1, <2>2, <1>1 DEF Current
<1>5. \A m \in syncs' : ~Deliverable(m)'
  <2> SUFFICES ASSUME NEW m \in syncs, m.by # r, Deliverable(m)' PROVE FALSE
    BY <1>1
  <2>1. m.by \in Replica /\ m.toBoot \in Nat /\ m.toBoot <= boot[Other(m.by)]
        /\ boot[r] \in Nat
    BY DEF IInv, CoreInv, AddressesKnown, TypeOK, Sync
  <2> QED
    BY <2>1, <1>1 DEF Deliverable
<1>6. ~Holder(r)'
  BY <1>2, <1>3 DEF Holder
<1>7. RevertKeepsReleased' /\ CustodianWithin'
  BY <1>1, <1>3 DEF KeepInv, RevertKeepsReleased, CustodianWithin, Settled
<1>8. SyncsWithin' /\ SyncsAfterState' /\ SyncsAfterTransfers' /\ SyncsInOrder'
  BY <1>5 DEF SyncsWithin, SyncsAfterState, SyncsAfterTransfers, SyncsInOrder
<1>9. TransfersWithin' /\ PrimaryTransferIsState'
  BY <1>1, <1>4, <1>6 DEF TransfersWithin, PrimaryTransferIsState
<1>10. SyncsHavePeer'
  BY <1>1, <1>5 DEF KeepInv, SyncsHavePeer
<1>11. QED
  BY <1>7, <1>8, <1>9, <1>10 DEF KeepInv

(* Nobody else holds the lineage when a custodian is promoted, and what is  *)
(* still addressed to it is refused by a primary.                           *)
LEMMA PromoteKeepsReleased ==
    ASSUME IInv, KeepInv, TypeOK', NEW r \in Replica, Promote(r)
    PROVE  KeepInv'
<1> USE OtherReplica
<1>1. /\ UNCHANGED <<up, boot, state, commit, previous, serving, bundles, syncs, released>>
      /\ up[r] /\ role[r] = "custodian" /\ state[r].status = "active"
      /\ commit[r] = "idle" /\ role'[r] = "primary"
      /\ \A s \in Replica : s # r => role'[s] = role[s] /\ peer'[s] = peer[s]
  BY DEF Promote, network, IInv, TypeOK
<1>2. ~up[Other(r)]
  BY DEF Promote, IInv, FenceHolds
<1>3. \A t \in serving \cup bundles : t.by \in Replica /\ ~Current(t)'
  BY <1>1, <1>2 DEF Current, IInv, TypeOK, Transfer
<1>4. \A m \in syncs : ~Deliverable(m)'
  BY <1>1, <1>2 DEF Deliverable, IInv, TypeOK, Sync
<1>5. \A s \in Replica : Holder(s)' => s = r
  BY <1>1, <1>2 DEF Holder
<1>6. RevertKeepsReleased' /\ CustodianWithin'
  BY <1>1, <1>5 DEF KeepInv, RevertKeepsReleased, CustodianWithin
<1>7. SyncsWithin' /\ SyncsAfterState' /\ SyncsAfterTransfers' /\ SyncsInOrder'
  BY <1>1, <1>4 DEF SyncsWithin, SyncsAfterState, SyncsAfterTransfers, SyncsInOrder
<1>8. TransfersWithin' /\ PrimaryTransferIsState'
  BY <1>1, <1>3 DEF TransfersWithin, PrimaryTransferIsState
<1>9. SyncsHavePeer'
  BY <1>1, <1>4 DEF KeepInv, SyncsHavePeer
<1>10. QED
  BY <1>6, <1>7, <1>8, <1>9 DEF KeepInv

(* Every step keeps the invariant. *)
LEMMA KeepStep == Fenced /\ IInv /\ KeepInv /\ [Next]_vars => KeepInv'
<1> SUFFICES ASSUME Fenced, IInv, KeepInv, [Next]_vars PROVE KeepInv'
  OBVIOUS
<1> USE DEF Holder
<1>1. TypeOK'
  BY TypeStep DEF IInv
<1>2. CASE UNCHANGED vars
  BY <1>2, KeepFrame DEF vars
<1>3. ASSUME NEW r \in Replica, NEW c \in Change, NEW to \in Status,
             CommitAlone(r, c, to)
      PROVE  KeepInv'
  <2>1. to # "inactive"
    BY <1>3, MovesAssumption DEF CommitAlone, StatusMove
  <2>2. Holder(r) /\ role[r] = "primary" /\ commit[r] = "idle" /\ peer[r] = NoPeer
    BY <1>3 DEF CommitAlone, MayCommit, KeyHolder
  <2>3. /\ state' = [state EXCEPT ![r] = Committed(r, {c}, to)]
        /\ released' = released \cup {c}
        /\ UNCHANGED <<up, boot, role, peer, commit, previous, serving, bundles, syncs>>
    BY <1>3 DEF CommitAlone, network
  <2> QED
    BY <1>1, <2>1, <2>2, <2>3, AdvanceKeepsReleased
<1>4. ASSUME NEW r \in Replica, NEW c \in Change, NEW to \in Status,
             CommitBegin(r, c, to)
      PROVE  KeepInv'
  <2>1. to # "inactive"
    BY <1>4, MovesAssumption DEF CommitBegin, StatusMove
  <2>2. Holder(r) /\ role[r] = "primary" /\ commit[r] = "idle"
    BY <1>4 DEF CommitBegin, MayCommit, KeyHolder
  <2>3. /\ StartCommit(r, {c}, to) /\ {c} \cap released = {}
        /\ UNCHANGED <<up, boot, role, peer, serving, bundles, released>>
    BY <1>4 DEF CommitBegin, history
  <2> QED
    BY <1>1, <2>1, <2>2, <2>3, StartCommitKeepsReleased
<1>5. ASSUME NEW r \in Replica, BackgroundSync(r)
      PROVE  KeepInv'
  <2>1. state[r].status \in Status /\ state[r].status # "inactive"
    BY <1>5 DEF BackgroundSync, IInv, TypeOK, Snapshot
  <2>2. Holder(r) /\ role[r] = "primary" /\ commit[r] = "idle"
    BY <1>5 DEF BackgroundSync
  <2>3. /\ StartCommit(r, {}, state[r].status)
        /\ UNCHANGED <<up, boot, role, peer, serving, bundles, released>>
    BY <1>5 DEF BackgroundSync, history
  <2> QED
    BY <1>1, <2>1, <2>2, <2>3, StartCommitKeepsReleased
<1>6. ASSUME NEW r \in Replica, CommitRefused(r)
      PROVE  KeepInv'
  <2>1. state[r].status \in Status /\ state[r].status # "inactive"
    BY <1>6 DEF CommitRefused, IInv, TypeOK, Snapshot
  <2>2. /\ state' = [state EXCEPT ![r] = Committed(r, {}, state[r].status)]
        /\ Holder(r) /\ role[r] = "primary" /\ commit[r] = "idle"
        /\ UNCHANGED <<up, boot, role, peer, commit, previous, serving, bundles,
                       syncs, released>>
    BY <1>6 DEF CommitRefused, network, history
  <2>3. released' = released \cup {}
    BY <2>2
  <2> QED
    BY <1>1, <2>1, <2>2, <2>3, AdvanceKeepsReleased
<1>7. ASSUME NEW r \in Replica, CommitAcknowledged(r) \/ CommitFail(r)
      PROVE  KeepInv'
  BY <1>1, <1>7, CommitAcknowledgedKeepsReleased, CommitFailKeepsReleased
<1>8. ASSUME NEW r \in Replica, ServeCustody(r)
      PROVE  KeepInv'
  BY <1>8, ServeCustodyKeepsReleased
<1>9. ASSUME NEW r \in Replica,
             Heartbeat(r) \/ Quiet(r) \/ ProbePrimary(r) \/ FailoverAbandon(r)
      PROVE  KeepInv'
  BY <1>9, KeepFrame DEF Heartbeat, Quiet, ProbePrimary, FailoverAbandon, local,
     network, history
<1>10. ASSUME NEW r \in Replica, Stop(r) \/ FailoverStart(r)
       PROVE  KeepInv'
  <2>1. PICK s \in Replica : Lose(s) /\ UNCHANGED <<boot, released>>
    BY <1>10, OtherReplica DEF Stop, FailoverStart
  <2> QED
    BY <2>1, <1>1, LoseKeepsReleased
<1>11. ASSUME NEW r \in Replica, Boot(r) \/ Promote(r)
       PROVE  KeepInv'
  BY <1>1, <1>11, BootKeepsReleased, PromoteKeepsReleased
<1>12. ASSUME NEW m \in syncs, SyncReceive(m)
       PROVE  KeepInv'
  BY <1>1, <1>12, SyncReceiveKeepsReleased
<1>13. ASSUME NEW t \in serving, RecordPeer(t)
       PROVE  KeepInv'
  BY <1>13, RecordPeerKeepsReleased
<1>14. ASSUME NEW t \in bundles, ApplyCustody(t)
       PROVE  KeepInv'
  BY <1>1, <1>14, ApplyCustodyKeepsReleased
<1>15. CASE Partition
  BY <1>15, KeepFrame DEF Partition, local, history
<1>16. QED
  BY <1>2, <1>3, <1>4, <1>5, <1>6, <1>7, <1>8, <1>9, <1>10, <1>11, <1>12, <1>13,
     <1>14, <1>15 DEF Next

(* A step that keeps the replica's boot takes no released change from it.   *)
LEMMA StepKeepsReleased ==
    ASSUME IInv, KeepInv, TypeOK', [Next]_vars, NEW r \in Replica,
           Holder(r), up'[r], boot'[r] = boot[r]
    PROVE  released \cap state[r].changes \subseteq state'[r].changes
<1> USE OtherReplica
<1>1. CASE state'[r] = state[r]
  BY <1>1
<1>2. ASSUME NEW s \in Replica, NEW cs \in SUBSET Change, NEW to \in Status,
             state' = [state EXCEPT ![s] = Committed(s, cs, to)]
      PROVE  released \cap state[r].changes \subseteq state'[r].changes
  BY <1>2 DEF Committed, IInv, TypeOK
<1>3. ASSUME NEW s \in Replica, NEW c \in Change, NEW to \in Status,
             CommitAlone(s, c, to) \/ CommitBegin(s, c, to)
      PROVE  released \cap state[r].changes \subseteq state'[r].changes
  BY <1>2, <1>3 DEF CommitAlone, CommitBegin, StartCommit
<1>4. ASSUME NEW s \in Replica, BackgroundSync(s) \/ CommitRefused(s)
      PROVE  released \cap state[r].changes \subseteq state'[r].changes
  BY <1>2, <1>4 DEF BackgroundSync, CommitRefused, StartCommit, IInv, TypeOK, Snapshot
<1>5. ASSUME NEW s \in Replica, CommitFail(s)
      PROVE  released \cap state[r].changes \subseteq state'[r].changes
  BY <1>5 DEF CommitFail, PushFailed, KeepInv, RevertKeepsReleased, IInv, TypeOK, Snapshot
<1>6. ASSUME NEW m \in syncs, SyncReceive(m)
      PROVE  released \cap state[r].changes \subseteq state'[r].changes
  <2>1. Deliverable(m)
    BY <1>6 DEF SyncReceive, Newer, Deliverable, Holder
  <2>2. m.by \in Replica
    BY DEF IInv, TypeOK, Sync
  <2>3. CASE r = Other(m.by)
    BY <2>1, <2>2, <2>3, <1>6 DEF SyncReceive, KeepInv, SyncsAfterState, IInv, TypeOK
  <2>4. CASE r # Other(m.by)
    BY <2>2, <2>4, <1>1, <1>6 DEF SyncReceive, IInv, TypeOK
  <2> QED
    BY <2>3, <2>4
<1>7. ASSUME NEW t \in bundles, ApplyCustody(t)
      PROVE  released \cap state[r].changes \subseteq state'[r].changes
  BY <1>1, <1>7 DEF ApplyCustody, Holder, IInv, TypeOK, Transfer
<1>8. ASSUME NEW s \in Replica, Lose(s)
      PROVE  released \cap state[r].changes \subseteq state'[r].changes
  BY <1>1, <1>8 DEF Lose, IInv, TypeOK
<1>9. ASSUME NEW s \in Replica,
             \/ CommitAcknowledged(s) \/ Heartbeat(s) \/ ServeCustody(s)
             \/ Boot(s) \/ Quiet(s) \/ ProbePrimary(s) \/ Promote(s) \/ FailoverAbandon(s)
      PROVE  released \cap state[r].changes \subseteq state'[r].changes
  BY <1>1, <1>9 DEF CommitAcknowledged, Heartbeat, ServeCustody, Boot, Quiet,
     ProbePrimary, Promote, FailoverAbandon, local
<1>10. ASSUME NEW s \in Replica, Stop(s) \/ FailoverStart(s)
       PROVE  released \cap state[r].changes \subseteq state'[r].changes
  BY <1>1, <1>8, <1>10 DEF Stop, FailoverStart, local
<1>11. CASE UNCHANGED vars \/ Partition \/ \E t \in serving : RecordPeer(t)
  BY <1>1, <1>11 DEF vars, Partition, RecordPeer, local
<1>12. QED
  BY <1>3, <1>4, <1>5, <1>6, <1>7, <1>9, <1>10, <1>11 DEF Next

(* With fenced failover, no step but the loss of a replica takes a released *)
(* change away from it: neither a late or reordered sync on the custodian   *)
(* (applyReplicaSync) nor the revert of an unacknowledged commit on the     *)
(* primary (withGovernanceCommit).                                          *)
THEOREM ReleasedIsKept ==
    ASSUME Fenced
    PROVE  Spec => ReplicaKeepsReleased
<1> DEFINE KeepAction ==
      \A r \in Replica :
         Holder(r) /\ up'[r] /\ boot'[r] = boot[r]
         => released \cap state[r].changes \subseteq state'[r].changes
<1>1. Init => KeepInv
  BY OtherReplica DEF Init, KeepInv, RevertKeepsReleased, CustodianWithin, SyncsWithin,
     TransfersWithin, SyncsAfterState, SyncsAfterTransfers, SyncsInOrder,
     SyncsHavePeer, PrimaryTransferIsState, Settled
<1>2. IInv /\ KeepInv /\ [Next]_vars => KeepInv'
  BY KeepStep
<1>3. Init => IInv
  BY InitInv, InitType
<1>4. IInv /\ [Next]_vars => IInv'
  BY InvStep
<1>5. IInv /\ KeepInv /\ [Next]_vars => [KeepAction]_vars
  BY StepKeepsReleased, TypeStep DEF IInv
<1>6. QED
  BY <1>1, <1>2, <1>3, <1>4, <1>5, PTL DEF Spec, ReplicaKeepsReleased

-----------------------------------------------------------------------------
(* Custody of uncommitted changes, with or without a fence. *)

Certain == released \cup replicated

(* What an idle replica holds is released or replicated; what a commit     *)
(* would restore is; what a transfer carries is.                           *)
NoDirtyInv ==
    /\ \A r \in Replica :
         IF commit[r] = "idle" THEN state[r].changes \subseteq Certain
                               ELSE previous[r].changes \subseteq Certain
    /\ NoDirtyTransfer

LEMMA NoDirtyStep == TypeOK /\ NoDirtyInv /\ [Next]_vars => NoDirtyInv'
<1> SUFFICES ASSUME TypeOK, NoDirtyInv, [Next]_vars PROVE NoDirtyInv'
  OBVIOUS
<1> USE OtherReplica DEF NoDirtyInv, NoDirtyTransfer, Certain, TypeOK, Snapshot
<1>1. ASSUME NEW r \in Replica, NEW c \in Change, NEW to \in Status,
             CommitAlone(r, c, to)
      PROVE  NoDirtyInv'
  BY <1>1 DEF CommitAlone, MayCommit, Committed, network
<1>2. ASSUME NEW r \in Replica, NEW cs, NEW to, StartCommit(r, cs, to),
             commit[r] = "idle", UNCHANGED <<serving, bundles, history>>
      PROVE  NoDirtyInv'
  BY <1>2 DEF StartCommit, history
<1>3. ASSUME NEW r \in Replica, NEW c \in Change, NEW to \in Status,
             CommitBegin(r, c, to)
      PROVE  NoDirtyInv'
  BY <1>2, <1>3 DEF CommitBegin, MayCommit
<1>4. ASSUME NEW r \in Replica, BackgroundSync(r)
      PROVE  NoDirtyInv'
  BY <1>2, <1>4 DEF BackgroundSync
<1>5. ASSUME NEW r \in Replica, CommitRefused(r)
      PROVE  NoDirtyInv'
  BY <1>5 DEF CommitRefused, Committed, network, history
<1>6. ASSUME NEW r \in Replica, CommitAcknowledged(r)
      PROVE  NoDirtyInv'
  BY <1>6 DEF CommitAcknowledged, network
<1>7. ASSUME NEW r \in Replica, CommitFail(r)
      PROVE  NoDirtyInv'
  BY <1>7 DEF CommitFail, PushFailed, network, history
<1>8. ASSUME NEW m \in syncs, SyncReceive(m)
      PROVE  NoDirtyInv'
  BY <1>8 DEF SyncReceive, Sync
<1>9. ASSUME NEW r \in Replica, ServeCustody(r)
      PROVE  NoDirtyInv'
  BY <1>9 DEF ServeCustody, MayServe, local, history
<1>10. ASSUME NEW t \in serving, RecordPeer(t)
       PROVE  NoDirtyInv'
  BY <1>10 DEF RecordPeer, history
<1>11. ASSUME NEW t \in bundles, ApplyCustody(t)
       PROVE  NoDirtyInv'
  BY <1>11 DEF ApplyCustody, history
<1>12. ASSUME NEW r \in Replica, Lose(r), UNCHANGED <<released, replicated>>
       PROVE  NoDirtyInv'
  BY <1>12 DEF Lose, Fresh
<1>13. ASSUME NEW r \in Replica, Stop(r)
       PROVE  NoDirtyInv'
  BY <1>12, <1>13 DEF Stop
<1>14. ASSUME NEW r \in Replica, FailoverStart(r)
       PROVE  NoDirtyInv'
  BY <1>12, <1>14 DEF FailoverStart, local, network, history
<1>15. ASSUME NEW r \in Replica, Boot(r) \/ Heartbeat(r) \/ Quiet(r)
       PROVE  NoDirtyInv'
  BY <1>15 DEF Boot, Heartbeat, Quiet, network, history
<1>16. ASSUME NEW r \in Replica, ProbePrimary(r) \/ FailoverAbandon(r) \/ Promote(r)
       PROVE  NoDirtyInv'
  BY <1>16 DEF ProbePrimary, FailoverAbandon, Promote, local, network, history
<1>17. CASE Partition \/ UNCHANGED vars
  BY <1>17 DEF Partition, local, history, vars
<1>18. QED
  BY <1>1, <1>3, <1>4, <1>5, <1>6, <1>7, <1>8, <1>9, <1>10, <1>11, <1>13, <1>14,
     <1>15, <1>16, <1>17 DEF Next

(* A custody transfer carries only changes that were released or that a    *)
(* custodian had applied: never one whose commit is reverted later         *)
(* (serveCustodyRequest exports under the governance lock).  No fence is   *)
(* needed.                                                                 *)
THEOREM TransfersAreClean == Spec => []NoDirtyTransfer
<1>1. Init => NoDirtyInv
  BY DEF Init, NoDirtyInv, NoDirtyTransfer, Certain, Fresh
<1>2. NoDirtyInv => NoDirtyTransfer
  BY DEF NoDirtyInv
<1>3. QED
  BY <1>1, <1>2, NoDirtyStep, TypeCorrect, PTL DEF Spec
=============================================================================
