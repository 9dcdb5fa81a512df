--------------------------- MODULE ReplicaCustody ---------------------------
(***************************************************************************)
(* Two replicas of one image hold the lineage key of one governance        *)
(* lineage (src/src/governance-replica-custody.js and the commit and       *)
(* replica sections of src/src/governance-state.js).  The primary commits  *)
(* governance changes and releases each of them only after the custodian   *)
(* acknowledged a copy of its whole state; a restarted replica has lost    *)
(* everything and pulls the key and the state from the other one; the      *)
(* failover workflow promotes the custodian of a lost primary.             *)
(*                                                                         *)
(* A governance change is a member of Change; a replica's state is the set *)
(* of changes it contains, its status and its replica serial.  Each boot   *)
(* of a replica has an activation key of its own, named by the boot's      *)
(* number: a message is addressed to a boot, not to a machine.             *)
(***************************************************************************)
EXTENDS Integers, FiniteSets

CONSTANTS
    A, B,        \* the two replica slots; A's launch role is primary
    Change,      \* the governance changes clients may ask for
    Fenced,      \* whether failover stops the lost primary before promoting
    Cuts,        \* whether the network between the replicas may be cut
    Moves,       \* the status changes a commit makes here, of StatusMove
    MaxTransfer, \* bound on the custody transfers under way at once
    MaxSerial,   \* bound on the replica serial (unbounded in the code)
    MaxBoot      \* bound on the boots of each replica

(* The status changes one commit makes: an ordinary record, certifying a   *)
(* successor, recording its proof, aborting and retiring.                  *)
StatusMove == { <<"active", "active">>,
                <<"active", "activating_successor">>,
                <<"activating_successor", "activating_successor">>,
                <<"activating_successor", "active">>,
                <<"activating_successor", "retired">> }

ASSUME ReplicaAssumption == A # B
ASSUME ModeAssumption == Fenced \in BOOLEAN /\ Cuts \in BOOLEAN
ASSUME MovesAssumption == Moves \subseteq StatusMove
ASSUME BoundAssumption == {MaxTransfer, MaxSerial, MaxBoot} \subseteq Nat

VARIABLES
    up,          \* up[r]: the replica's process runs
    boot,        \* boot[r]: number of its current boot, so its activation key
    role,        \* role[r]: replicaRole
    state,       \* state[r]: what exportReplicaSnapshot would return
    peer,        \* peer[r]: activation key in replicaPeer, NoPeer if null
    commit,      \* commit[r]: the commit that holds the governance lock
    previous,    \* previous[r]: what a failing commit restores
    due,         \* due[r]: backgroundSyncDue
    heard,       \* heard[r]: a primary contact within PROMOTION_QUIET_MS
    serving,     \* custody transfers built, peer not recorded yet
    bundles,     \* custody bundles on their way to the replica that asked
    syncs,       \* sync bundles sent and not received
    link,        \* the two replicas can reach each other
    failover,    \* failover[r]: how far the workflow promoting r has come
    released,    \* history: changes whose commit succeeded
    safe,        \* history: changes some acknowledged state contained
    replicated   \* history: changes in some state a custodian applied

local == <<up, boot, role, state, peer, commit, previous, due, heard>>
network == <<serving, bundles, syncs, link>>
history == <<released, safe, replicated>>
vars == <<up, boot, role, state, peer, commit, previous, due, heard,
          serving, bundles, syncs, link, failover, released, safe, replicated>>

Replica == {A, B}
Other(r) == IF r = A THEN B ELSE A
Role == {"primary", "custodian"}

(* Mutants: the sender's own role; a launch role taken as configured. *)
SameRole(x) == x
UncheckedLaunchRole(r) == IF r = A THEN "primary" ELSE "standby"

OppositeRole(x) == IF x = "primary" THEN "custodian" ELSE "primary"
LaunchRole(r) == IF r = A THEN "primary" ELSE "custodian"

Status == {"inactive", "active", "activating_successor", "retired"}
NoPeer == 0

Snapshot == [status: Status, serial: Nat, changes: SUBSET Change]
Fresh == [status |-> "inactive", serial |-> 0, changes |-> {}]

(* A custody transfer in preparation or in flight: from boot byBoot of the *)
(* replica that serves it to boot toBoot of the other one.                 *)
Transfer == [by: Replica, byBoot: Nat, toBoot: Nat, role: Role, state: Snapshot]
Sync == [by: Replica, toBoot: Nat, state: Snapshot]

KeyHolder(r) == up[r] /\ state[r].status \in {"active", "activating_successor"}
(* A replica that holds a copy of the lineage's state, retired included. *)
Holder(r) == up[r] /\ state[r].status # "inactive"

-----------------------------------------------------------------------------
(* A's genesis has just committed; B booted and holds nothing. *)
Init ==
    /\ up = [r \in Replica |-> TRUE]
    /\ boot = [r \in Replica |-> 1]
    /\ role = [r \in Replica |-> LaunchRole(r)]
    /\ state = [r \in Replica |->
                  IF r = A THEN [Fresh EXCEPT !.status = "active", !.serial = 1]
                           ELSE Fresh]
    /\ peer = [r \in Replica |-> NoPeer]
    /\ commit = [r \in Replica |-> "idle"]
    /\ previous = [r \in Replica |-> Fresh]
    /\ due = [r \in Replica |-> FALSE]
    /\ heard = [r \in Replica |-> FALSE]
    /\ serving = {}
    /\ bundles = {}
    /\ syncs = {}
    /\ link = TRUE
    /\ failover = [r \in Replica |-> "none"]
    /\ released = {}
    /\ safe = {}
    /\ replicated = {}

-----------------------------------------------------------------------------
(* Commits: withGovernanceCommit with the replicator replicateToCustodian. *)

(* The state after a commit of `changes` that moves the status to `to`. *)
Committed(r, changes, to) ==
    [status |-> to, serial |-> state[r].serial + 1,
     changes |-> state[r].changes \cup changes]

MayCommit(r) ==
    /\ role[r] = "primary"
    /\ KeyHolder(r)
    /\ commit[r] = "idle"
    /\ state[r].serial < MaxSerial

(* A primary with no custodian recorded has nobody to replicate to: its    *)
(* commit is released at once.                                             *)
CommitAlone(r, c, to) ==
    /\ MayCommit(r)
    /\ peer[r] = NoPeer
    /\ c \notin released \cup state[r].changes
    /\ <<state[r].status, to>> \in Moves
    /\ state' = [state EXCEPT ![r] = Committed(r, {c}, to)]
    /\ released' = released \cup {c}
    /\ UNCHANGED <<up, boot, role, peer, commit, previous, due, heard,
                   network, failover, safe, replicated>>

(* The mutation throws: everything but the serial is restored. *)
CommitRefused(r) ==
    /\ Holder(r)
    /\ role[r] = "primary"
    /\ commit[r] = "idle"
    /\ state[r].serial < MaxSerial
    /\ state' = [state EXCEPT ![r] = Committed(r, {}, state[r].status)]
    /\ UNCHANGED <<up, boot, role, peer, commit, previous, due, heard,
                   network, failover, history>>

(* Mutant: the state pushed is the one from before the mutation. *)
StartCommitStale(r, changes, to) ==
    /\ peer[r] # NoPeer
    /\ state' = [state EXCEPT ![r] = Committed(r, changes, to)]
    /\ previous' = [previous EXCEPT ![r] = state[r]]
    /\ commit' = [commit EXCEPT ![r] = "replicating"]
    /\ syncs' = syncs \cup
         {[by |-> r, toBoot |-> peer[r], state |-> Committed(r, {}, to)]}

(* The mutation is applied, then the whole new state is pushed to the      *)
(* custodian's recorded boot; the lock is held until that answers.         *)
StartCommit(r, changes, to) ==
    /\ peer[r] # NoPeer
    /\ state' = [state EXCEPT ![r] = Committed(r, changes, to)]
    /\ previous' = [previous EXCEPT ![r] = state[r]]
    /\ commit' = [commit EXCEPT ![r] = "replicating"]
    /\ syncs' = syncs \cup
         {[by |-> r, toBoot |-> peer[r], state |-> Committed(r, changes, to)]}

CommitBegin(r, c, to) ==
    /\ MayCommit(r)
    /\ c \notin released \cup state[r].changes
    /\ <<state[r].status, to>> \in Moves
    /\ StartCommit(r, {c}, to)
    /\ UNCHANGED <<up, boot, role, peer, due, heard, serving, bundles, link,
                   failover, history>>

(* superviseOnce: a commit that changes nothing and brings the custodian   *)
(* up to date; a retired primary still makes it.                           *)
BackgroundSync(r) ==
    /\ Holder(r)
    /\ role[r] = "primary"
    /\ due[r]
    /\ commit[r] = "idle"
    /\ state[r].serial < MaxSerial
    /\ StartCommit(r, {}, state[r].status)
    /\ due' = [due EXCEPT ![r] = FALSE]
    /\ UNCHANGED <<up, boot, role, peer, heard, serving, bundles, link,
                   failover, history>>

(* The custodian received the acknowledged serial: the commit is released. *)
CommitAcknowledged(r) ==
    /\ commit[r] = "acknowledged"
    /\ commit' = [commit EXCEPT ![r] = "idle"]
    /\ previous' = [previous EXCEPT ![r] = Fresh]
    /\ released' = released \cup (state[r].changes \ previous[r].changes)
    /\ safe' = safe \cup state[r].changes
    /\ UNCHANGED <<up, boot, role, state, peer, due, heard, network, failover,
                   replicated>>

(* Mutant: no timeout, a push fails only by the custodian's refusal. *)
PushRefused(r) == commit[r] # "idle" /\ link /\ up[Other(r)]

(* The push was refused, could not be sent or timed out; its answer may be *)
(* the one that got lost.                                                  *)
PushFailed(r) == commit[r] # "idle"

(* Everything but the serial is restored. *)
CommitFail(r) ==
    /\ PushFailed(r)
    /\ commit' = [commit EXCEPT ![r] = "idle"]
    /\ state' = [state EXCEPT ![r] = [previous[r] EXCEPT !.serial = state[r].serial]]
    /\ previous' = [previous EXCEPT ![r] = Fresh]
    /\ due' = [due EXCEPT ![r] = @ \/ previous[r].changes = state[r].changes]
    /\ UNCHANGED <<up, boot, role, peer, heard, network, failover, history>>

(* Mutant: no serial check. *)
AnySerial(m, c) == TRUE

(* applyReplicaSync takes only a serial it has not seen. *)
Newer(m, c) == m.state.serial > state[c].serial

(* receiveSyncBundle and applyReplicaSync on the replica it was sent to: a *)
(* refused bundle changes nothing there, so only the accepted ones are     *)
(* steps.  The answer reaches a sender that still waits for this serial.   *)
SyncReceive(m) ==
    LET c == Other(m.by) IN
    /\ link
    /\ Holder(c)
    /\ role[c] = "custodian"
    /\ boot[c] = m.toBoot
    /\ commit[c] = "idle"
    /\ Newer(m, c)
    /\ state' = [state EXCEPT ![c] = m.state]
    /\ heard' = [heard EXCEPT ![c] = TRUE]
    /\ commit' = [commit EXCEPT ![m.by] =
         IF @ = "replicating" /\ state[m.by].serial = m.state.serial
         THEN "acknowledged" ELSE @]
    /\ syncs' = syncs \ {m}
    /\ replicated' = replicated \cup m.state.changes
    /\ UNCHANGED <<up, boot, role, peer, previous, due, serving, bundles, link,
                   failover, released, safe>>

(* Mutant: the heartbeat's reply is not looked at. *)
NeverBehind(c, r) == FALSE

(* The custodian's serial, in the reply, is behind the primary's. *)
Behind(c, r) == state[c].serial < state[r].serial

(* sendHeartbeatToPeer and receiveHeartbeat: the custodian learns that the *)
(* primary lives, the primary whether the custodian is current.            *)
Heartbeat(r) ==
    LET c == Other(r) IN
    /\ link
    /\ Holder(r)
    /\ role[r] = "primary"
    /\ Holder(c)
    /\ role[c] = "custodian"
    /\ peer[r] = boot[c]
    /\ heard' = [heard EXCEPT ![c] = TRUE]
    /\ due' = [due EXCEPT ![r] = @ \/ Behind(c, r)]
    /\ UNCHANGED <<up, boot, role, state, peer, commit, previous, network,
                   failover, history>>

-----------------------------------------------------------------------------
(* Custody: pullCustodyFromPeer on the replica that restarted and          *)
(* serveCustodyRequest on the live one.                                    *)

(* Mutants: the snapshot is taken without the lock; only a primary serves. *)
MayServeUnlocked(r) == KeyHolder(r)
MayServeAsPrimary(r) == KeyHolder(r) /\ commit[r] = "idle" /\ role[r] = "primary"

MayServe(r) == KeyHolder(r) /\ commit[r] = "idle"

(* Under the lock the live replica exports its state and seals it to the   *)
(* boot whose attestation answered its challenge.                          *)
ServeCustody(r) ==
    LET s == Other(r) IN
    /\ link
    /\ MayServe(r)
    /\ up[s]
    /\ state[s].status = "inactive"
    /\ Cardinality(serving \cup bundles) < MaxTransfer
    /\ serving' = serving \cup
         {[by |-> r, byBoot |-> boot[r], toBoot |-> boot[s],
           role |-> OppositeRole(role[r]), state |-> state[r]]}
    /\ UNCHANGED <<local, bundles, syncs, link, failover, history>>

(* Signing and attesting the bundle took time and no lock; only now is the *)
(* recipient recorded as the peer and the bundle answered, to nobody if    *)
(* the boot that asked has ended meanwhile.                                *)
RecordPeer(t) ==
    /\ serving' = serving \ {t}
    /\ bundles' = bundles \cup
         {x \in {t} : up[Other(t.by)] /\ boot[Other(t.by)] = t.toBoot}
    /\ peer' = [peer EXCEPT ![t.by] = t.toBoot]
    /\ UNCHANGED <<up, boot, role, state, commit, previous, due, heard, syncs,
                   link, failover, history>>

(* applyReplicaCustodyTransfer: only a fresh inactive replica accepts it.  *)
ApplyCustody(t) ==
    LET r == Other(t.by) IN
    /\ up[r]
    /\ state[r].status = "inactive"
    /\ boot[r] = t.toBoot
    /\ commit[r] = "idle"
    /\ state' = [state EXCEPT ![r] = t.state]
    /\ role' = [role EXCEPT ![r] = t.role]
    /\ peer' = [peer EXCEPT ![r] = t.byBoot]
    /\ heard' = [heard EXCEPT ![r] = @ \/ t.role = "custodian"]
    /\ bundles' = bundles \ {t}
    /\ UNCHANGED <<up, boot, commit, previous, due, serving, syncs, link,
                   failover, history>>

-----------------------------------------------------------------------------
(* Failures and restarts. *)

(* The process ends: nothing was persisted.  What it was serving ends, and *)
(* what was sent to it cannot be opened again.  Bundles it answered and    *)
(* syncs it sent may still be applied, syncs only until it runs again: a   *)
(* request that has arrived is handled long before a machine has booted.   *)
Lose(r) ==
    /\ up' = [up EXCEPT ![r] = FALSE]
    /\ role' = [role EXCEPT ![r] = LaunchRole(r)]
    /\ state' = [state EXCEPT ![r] = Fresh]
    /\ peer' = [peer EXCEPT ![r] = NoPeer]
    /\ commit' = [commit EXCEPT ![r] = "idle"]
    /\ previous' = [previous EXCEPT ![r] = Fresh]
    /\ due' = [due EXCEPT ![r] = FALSE]
    /\ heard' = [heard EXCEPT ![r] = FALSE]
    /\ serving' = {t \in serving : t.by # r}
    /\ bundles' = {t \in bundles : t.by = r}
    /\ syncs' = {m \in syncs : m.by = r}

Stop(r) ==
    /\ up[r]
    /\ Lose(r)
    /\ failover' = [failover EXCEPT ![r] = "none"]
    /\ UNCHANGED <<boot, link, released, safe, replicated>>

(* main: a fresh key, inactive, the launch role.  The operator does not    *)
(* start the replica that a failover in progress has just stopped.         *)
Boot(r) ==
    /\ ~up[r]
    /\ boot[r] < MaxBoot
    /\ ~(Fenced /\ failover[Other(r)] # "none")
    /\ up' = [up EXCEPT ![r] = TRUE]
    /\ boot' = [boot EXCEPT ![r] = @ + 1]
    /\ syncs' = {m \in syncs : m.by # r}
    /\ UNCHANGED <<role, state, peer, commit, previous, due, heard, serving,
                   bundles, link, failover, history>>

(* The private network between the replicas is cut or comes back.  A single *)
(* request may be lost without a cut: nothing forces its receipt.           *)
Partition ==
    /\ Cuts
    /\ link' = ~link
    /\ UNCHANGED <<local, serving, bundles, syncs, failover, history>>

-----------------------------------------------------------------------------
(* Failover: .github/workflows/replica-failover.yml and promoteToPrimary.  *)

(* The workflow finds an active custodian and stops the lost primary. *)
FailoverStart(r) ==
    /\ up[r]
    /\ role[r] = "custodian"
    /\ state[r].status = "active"
    /\ \A s \in Replica : failover[s] = "none"
    /\ failover' = [failover EXCEPT ![r] = "started"]
    /\ IF Fenced
       THEN Lose(Other(r)) /\ UNCHANGED <<boot, link, released, safe, replicated>>
       ELSE UNCHANGED <<local, network, history>>

(* PROMOTION_QUIET_MS pass with no sync and no heartbeat from a primary:   *)
(* it is down, cut off, or has another boot recorded as its peer.  An      *)
(* answer it still waited for has come or timed out (PEER_TIMEOUT_MS).     *)
Quiet(r) ==
    LET p == Other(r) IN
    /\ heard[r]
    /\ ~(link /\ Holder(p) /\ role[p] = "primary" /\ peer[p] = boot[r])
    /\ commit[p] # "acknowledged"
    /\ heard' = [heard EXCEPT ![r] = FALSE]
    /\ UNCHANGED <<up, boot, role, state, peer, commit, previous, due, network,
                   failover, history>>

(* Silent for the quiet period, and no probe found an active primary. *)
ProbePrimary(r) ==
    LET p == Other(r) IN
    /\ up[r]
    /\ failover[r] = "started"
    /\ role[r] = "custodian"
    /\ ~heard[r]
    /\ ~(link /\ KeyHolder(p) /\ role[p] = "primary")
    /\ failover' = [failover EXCEPT ![r] = "cleared"]
    /\ UNCHANGED <<local, network, history>>

(* promoteReplicaToPrimary, after the probes and without looking again. *)
Promote(r) ==
    /\ up[r]
    /\ failover[r] = "cleared"
    /\ role[r] = "custodian"
    /\ state[r].status = "active"
    /\ commit[r] = "idle"
    /\ role' = [role EXCEPT ![r] = "primary"]
    /\ peer' = [peer EXCEPT ![r] = NoPeer]
    /\ failover' = [failover EXCEPT ![r] = "none"]
    /\ UNCHANGED <<up, boot, state, commit, previous, due, heard, network,
                   released, safe, replicated>>

(* The workflow gives up: promotion refused or its deadline passed. *)
FailoverAbandon(r) ==
    /\ failover[r] # "none"
    /\ failover' = [failover EXCEPT ![r] = "none"]
    /\ UNCHANGED <<local, network, history>>

-----------------------------------------------------------------------------
Next ==
    \/ \E r \in Replica, c \in Change, to \in Status :
         CommitAlone(r, c, to) \/ CommitBegin(r, c, to)
    \/ \E r \in Replica :
         \/ CommitRefused(r) \/ BackgroundSync(r)
         \/ CommitAcknowledged(r) \/ CommitFail(r)
         \/ Heartbeat(r) \/ ServeCustody(r)
         \/ Stop(r) \/ Boot(r)
         \/ FailoverStart(r) \/ Quiet(r) \/ ProbePrimary(r) \/ Promote(r)
         \/ FailoverAbandon(r)
    \/ \E m \in syncs : SyncReceive(m)
    \/ \E t \in serving : RecordPeer(t)
    \/ \E t \in bundles : ApplyCustody(t)
    \/ Partition

Spec == Init /\ [][Next]_vars

(* The supervisor's timer, the request timeouts and the promise queue of   *)
(* the lock keep these going; stops, boots, cuts and failovers need not    *)
(* happen.  Serving custody waits in the lock's queue, so it is reached    *)
(* even when commits keep coming.                                          *)
Fairness ==
    /\ \A r \in Replica :
         /\ WF_vars(BackgroundSync(r))
         /\ WF_vars(CommitAcknowledged(r) \/ CommitFail(r))
         /\ WF_vars(Heartbeat(r))
         /\ SF_vars(ServeCustody(r))
    /\ WF_vars(\E m \in syncs : SyncReceive(m))
    /\ WF_vars(\E t \in serving : RecordPeer(t))
    /\ WF_vars(\E t \in bundles : ApplyCustody(t))

FairSpec == Spec /\ Fairness

-----------------------------------------------------------------------------
TypeOK ==
    /\ up \in [Replica -> BOOLEAN]
    /\ boot \in [Replica -> Nat \ {0}]
    /\ role \in [Replica -> Role]
    /\ state \in [Replica -> Snapshot]
    /\ peer \in [Replica -> Nat]
    /\ commit \in [Replica -> {"idle", "replicating", "acknowledged"}]
    /\ previous \in [Replica -> Snapshot]
    /\ due \in [Replica -> BOOLEAN]
    /\ heard \in [Replica -> BOOLEAN]
    /\ serving \subseteq Transfer
    /\ bundles \subseteq Transfer
    /\ syncs \subseteq Sync
    /\ link \in BOOLEAN
    /\ failover \in [Replica -> {"none", "started", "cleared"}]
    /\ released \in SUBSET Change
    /\ safe \in SUBSET Change
    /\ replicated \in SUBSET Change

-----------------------------------------------------------------------------
(* Safety.                                                                 *)

(* What an acknowledged state contained is in every live copy of the       *)
(* lineage: promoting the custodian or re-keying a restarted replica loses *)
(* none of it (replicateToCustodian inside every commit, custody pulls).   *)
AcknowledgedSurvives ==
    \A r \in Replica : Holder(r) => safe \subseteq state[r].changes

(* "two primaries can never coexist" (replica-failover.yml): at most one   *)
(* live replica holds the lineage as primary, whichever of re-keying,      *)
(* stopping, failover and late custody bundles overlap.                    *)
OnePrimary ==
    \A r, s \in Replica :
        /\ Holder(r) /\ role[r] = "primary"
        /\ Holder(s) /\ role[s] = "primary"
        => r = s

(* The lock keeps uncommitted changes out of custody: a transfer holds     *)
(* only changes that were released or that a custodian had applied, never  *)
(* the change of a commit that is reverted later.                          *)
NoDirtyTransfer ==
    \A t \in serving \cup bundles : t.state.changes \subseteq released \cup replicated

(* No step but the loss of a replica takes a released change away from it: *)
(* neither a late or reordered sync on the custodian, nor the revert of an *)
(* unacknowledged commit on the primary.                                   *)
ReplicaKeepsReleased ==
    [][\A r \in Replica :
         Holder(r) /\ up'[r] /\ boot'[r] = boot[r]
         => released \cap state[r].changes \subseteq state'[r].changes]_vars

-----------------------------------------------------------------------------
(* Liveness.                                                               *)

(* The lock is never held for ever: a commit waiting for a custodian that  *)
(* is gone, cut off or refusing ends, and the next governance change runs. *)
CommitEnds == \A r \in Replica : commit[r] # "idle" ~> commit[r] = "idle"

(* A restarted replica is re-keyed once its peer stays a reachable key     *)
(* holder: the supervisor asks again until a bundle is applied.            *)
Rekeyable(r) == link /\ up[r] /\ KeyHolder(Other(r))

RestartedReplicaRekeyed ==
    \A r \in Replica : <>[]Rekeyable(r) => []<>Holder(r)

(* The two replicas are enrolled with each other. *)
Enrolled(p) ==
    LET c == Other(p) IN
    /\ Holder(p) /\ role[p] = "primary"
    /\ Holder(c) /\ role[c] = "custodian"
    /\ peer[p] = boot[c]

(* A change released while no custodian was recorded still reaches it: the *)
(* heartbeat's reply makes the primary sync in the background.  (Each try  *)
(* uses up a serial, so the bound on serials also ends the wait.)          *)
CustodianCatchesUp ==
    \A p \in Replica :
        <>[](link /\ Enrolled(p))
        => []<>(\/ released \cap state[p].changes \subseteq state[Other(p)].changes
                \/ state[p].serial = MaxSerial)

-----------------------------------------------------------------------------
(* What the documents say and the code does not do.                        *)

(* "whichever replica survives holds everything that was released"         *)
(* (governance-replica-custody.js:16-18): an enrolled custodian has it all. *)
SurvivorHoldsReleased ==
    \A p \in Replica : Enrolled(p) => released \subseteq state[Other(p)].changes

(* "the reply shows whether the custodian is current"                      *)
(* (governance-replica-custody.js:315-316): the serials of an enrolled     *)
(* pair agree only if their states do.                                     *)
EqualSerialMeansCurrent ==
    \A p \in Replica :
        /\ Enrolled(p)
        /\ commit[p] = "idle"
        /\ state[p].serial = state[Other(p)].serial
        => state[p] = state[Other(p)]
=============================================================================
