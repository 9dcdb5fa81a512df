------------------------- MODULE ActivationHandoff -------------------------
(***************************************************************************)
(* The successor handoff of src/src/governance-state.js: the predecessor   *)
(* offers an activation nonce to a candidate enclave, certifies it as its  *)
(* successor, sends it the sealed state, and retires on the candidate's    *)
(* activation proof, or goes back to active on the candidate's decline or  *)
(* on expiry.  scripts/activate-successor.mjs and the recovery workflow    *)
(* carry the messages; each of its calls can be repeated, delayed or never *)
(* made, and what one run saved another can send again.                    *)
(*                                                                         *)
(* Every change of the predecessor runs in withGovernanceCommit: its       *)
(* mutation is visible to unlocked reads while the custodian's answer is   *)
(* awaited, and is undone when that fails.  A predecessor that dies is     *)
(* restored from its custodian (ReplicaCustody), which may or may not have *)
(* got the change under way.                                               *)
(***************************************************************************)
EXTENDS Integers, FiniteSets

CONSTANTS
    Candidate,   \* the candidate enclaves, each with keys of its own
    Round,       \* tells the activation nonces of one candidate apart
    Ttl,         \* ttlMs of a successor certificate
    Grace,       \* ACTIVATION_ABORT_GRACE_MS
    ProvedSkew,  \* PROVED_AT_SKEW_MS
    Lag,         \* how far a candidate's clock may be behind
    ApplyDelay,  \* how long an apply may take, its wait for the lock included
    MaxRequests, \* bound on the activations requested
    MaxIssue,    \* bound on the times at which they are
    MaxTime      \* bound on time

ASSUME TimeAssumption ==
    {Ttl, Grace, ProvedSkew, Lag, ApplyDelay, MaxRequests, MaxIssue,
     MaxTime} \subseteq Nat

(* What the grace is for: by its end no apply that started in time runs.   *)
ASSUME GraceAssumption == Lag + ApplyDelay <= Grace

(* A nonce is bound to the keys of the candidate it was made for. *)
Nonce == [candidate: Candidate, round: Round]

(* A successor certificate: its nonce and the time its request arrived. *)
Cert == [nonce: Nonce, issued: Nat]
Expires(x) == x.issued + Ttl
Proof == [cert: Cert, at: Int]

VARIABLES
    now,         \* the predecessor's clock
    gov,         \* the predecessor's governance state
    saved,       \* its state before the commit under way, Ruling if none is
    lock,        \* the commit under way: its operation and certificate
    challenges,  \* pendingActivationChallenges
    completes,   \* activation-complete requests past their checks
    finals,      \* activation-finalize requests past theirs, with their stage
    bundles,     \* certificates whose bundle was returned
    proofs,      \* activation proofs the workflow has got
    declines,    \* nonces whose decline the workflow has got
    cand,        \* cand[c]: candidate c
    applies,     \* activation-apply requests past their checks
    offered,     \* history: nonces ever offered
    started,     \* history: activation requests ever made
    latest,      \* history: the certificate committed last, {} if none
    lapsed,      \* history: certificates taken back on expiry
    refused      \* history: certificates taken back on a decline

predecessor == <<gov, saved, lock, challenges, completes, finals>>
messages == <<bundles, proofs, declines>>
candidates == <<cand, applies>>
past == <<offered, started, latest, lapsed, refused>>
vars == <<now, gov, saved, lock, challenges, completes, finals, bundles, proofs,
          declines, cand, applies, offered, started, latest, lapsed, refused>>

Ruling == [status |-> "active", pending |-> {}, proved |-> FALSE,
           expired |-> {}, successor |-> {}]
Idle == [op |-> "idle", cert |-> {}]
Blank == [alive |-> TRUE, ready |-> {}, declined |-> {}, taken |-> {}]

Init ==
    /\ now = 0
    /\ gov = Ruling
    /\ saved = Ruling
    /\ lock = Idle
    /\ challenges = {}
    /\ completes = {}
    /\ finals = {}
    /\ bundles = {}
    /\ proofs = {}
    /\ declines = {}
    /\ cand = [c \in Candidate |-> Blank]
    /\ applies = {}
    /\ offered = {}
    /\ started = {}
    /\ latest = {}
    /\ lapsed = {}
    /\ refused = {}

(* What the predecessor answers for: without the commit under way. *)
Committed == IF lock = Idle THEN gov ELSE saved

-----------------------------------------------------------------------------
(* Commits. *)

Commit(op, x, new) ==
    /\ lock = Idle
    /\ lock' = [op |-> op, cert |-> {x}]
    /\ saved' = gov
    /\ gov' = new
    /\ UNCHANGED <<now, challenges, completes, finals, messages, candidates, past>>

(* The commit's certificate enters the history once its change stands. *)
Settle(op, certs) ==
    /\ latest' = IF op = "complete" THEN certs ELSE latest
    /\ lapsed' = IF op = "expire" THEN lapsed \cup certs ELSE lapsed
    /\ refused' = IF op = "decline" THEN refused \cup certs ELSE refused
    /\ UNCHANGED <<offered, started>>

(* The custodian acknowledged the change: the request goes on. *)
CommitDone ==
    /\ lock # Idle
    /\ lock' = Idle
    /\ Settle(lock.op, lock.cert)
    /\ bundles' = IF lock.op = "complete" THEN bundles \cup lock.cert ELSE bundles
    /\ finals' = IF lock.op = "record"
                 THEN finals \cup [cert: lock.cert, stage: {"retire"}] ELSE finals
    /\ challenges' =
         CASE lock.op = "retire" -> {}
           [] lock.op \in {"expire", "decline"} ->
                challenges \ {x.nonce : x \in lock.cert}
           [] OTHER -> challenges
    /\ saved' = Ruling
    /\ UNCHANGED <<now, gov, completes, proofs, declines, candidates>>

(* Mutant: the snapshot leaves the expired activation out. *)
RestoredPartly == [saved EXCEPT !.expired = gov.expired]

Restored == saved

CommitFailed ==
    /\ lock # Idle
    /\ lock' = Idle
    /\ gov' = Restored
    /\ saved' = Ruling
    /\ UNCHANGED <<now, challenges, completes, finals, messages,
                   candidates, past>>

(* The predecessor dies and is restored: requests and challenges are gone, *)
(* the commit under way may have reached the custodian or not.             *)
Recover ==
    /\ lock' = Idle
    /\ \/ gov' = Committed /\ UNCHANGED past
       \/ lock # Idle /\ gov' = gov /\ Settle(lock.op, lock.cert)
    /\ challenges' = {}
    /\ completes' = {}
    /\ finals' = {}
    /\ saved' = Ruling
    /\ UNCHANGED <<now, messages, candidates>>

-----------------------------------------------------------------------------
(* The predecessor.  Checks made before the lock is taken read gov as it   *)
(* is, with a commit under way or not.                                     *)

Offer(n) ==
    /\ gov.status = "active"
    /\ n \notin offered
    /\ cand[n.candidate].alive
    /\ challenges' = challenges \cup {n}
    /\ offered' = offered \cup {n}
    /\ UNCHANGED <<now, gov, saved, lock, completes, finals, messages, candidates,
                   started, latest, lapsed, refused>>

(* The challenge stays: another request for the same nonce may be under    *)
(* way.  What follows is the arbitration, which takes minutes.  (Bound: one *)
(* request a nonce and tick.)                                              *)
CompleteStart(n) ==
    /\ gov.status = "active"
    /\ n \in challenges
    /\ n \in cand[n.candidate].ready
    /\ now <= MaxIssue /\ Cardinality(started) < MaxRequests
    /\ LET x == [nonce |-> n, issued |-> now] IN
         /\ x \notin started
         /\ completes' = completes \cup {x}
         /\ started' = started \cup {x}
    /\ UNCHANGED <<now, gov, saved, lock, challenges, finals, messages, candidates,
                   offered, latest, lapsed, refused>>

(* The certificate's validity counts from the request's arrival. *)
Complete(x) ==
    /\ gov.status = "active"
    /\ lock = Idle
    /\ lock' = [op |-> "complete", cert |-> {x}]
    /\ saved' = gov
    /\ gov' = [gov EXCEPT !.status = "activating_successor", !.pending = {x},
                          !.proved = FALSE, !.expired = {}]
    /\ completes' = completes \ {x}
    /\ UNCHANGED <<now, challenges, finals, messages, candidates, past>>

(* The candidate applied while its certificate was valid, by its clock. *)
InTime(p) ==
    /\ p.cert.issued - ProvedSkew <= p.at
    /\ p.at <= Expires(p.cert) + ProvedSkew

(* Mutant: a recorded proof is refused. *)
FirstStageOnce(x) ==
    CASE gov.status = "active" /\ gov.expired = {x} -> {"reopen"}
      [] gov.status = "activating_successor" /\ gov.pending = {x} /\ ~gov.proved -> {"record"}
      [] OTHER -> {}

(* Unlocked: which certificate the proof is for, and whether the proof has *)
(* to be recorded first.                                                   *)
FirstStage(x) ==
    CASE gov.status = "active" /\ gov.expired = {x} -> {"reopen"}
      [] gov.status = "activating_successor" /\ gov.pending = {x} ->
           {IF gov.proved THEN "retire" ELSE "record"}
      [] OTHER -> {}

FinalizeStart(p) ==
    /\ InTime(p)
    /\ finals' = finals \cup [cert: {p.cert}, stage: FirstStage(p.cert)]
    /\ UNCHANGED <<now, gov, saved, lock, challenges, completes, messages,
                   candidates, past>>

Record(f) ==
    /\ f.stage = "record"
    /\ gov.status = "activating_successor"
    /\ gov.pending = {f.cert}
    /\ Commit("record", f.cert, [gov EXCEPT !.proved = TRUE])

(* A successor that expired may have applied unseen. *)
Reopen(f) ==
    /\ f.stage = "reopen"
    /\ gov.status = "active"
    /\ gov.expired = {f.cert}
    /\ Commit("record", f.cert,
              [gov EXCEPT !.status = "activating_successor", !.pending = {f.cert},
                          !.proved = TRUE, !.expired = {}])

Retire(f) ==
    /\ f.stage = "retire"
    /\ gov.status = "activating_successor"
    /\ gov.pending = {f.cert}
    /\ Commit("retire", f.cert,
              [gov EXCEPT !.status = "retired", !.pending = {}, !.proved = FALSE,
                          !.successor = {f.cert}])

(* Mutant: an abort after the proof was recorded. *)
MayAbortProved(x) == gov.status = "activating_successor" /\ gov.pending = {x}

MayAbort(x) ==
    gov.status = "activating_successor" /\ gov.pending = {x} /\ ~gov.proved

(* Mutant: back to the status of a fresh process. *)
InactiveAgain == "inactive"

ActiveAgain == "active"

AbortDeclined(x) ==
    /\ MayAbort(x)
    /\ x.nonce \in declines
    /\ Commit("decline", x, [gov EXCEPT !.status = ActiveAgain, !.pending = {}, !.expired = {}])

AbortableAt(x) == Expires(x) + Grace

AbortExpired(x) ==
    /\ MayAbort(x)
    /\ now >= AbortableAt(x)
    /\ Commit("expire", x, [gov EXCEPT !.status = ActiveAgain, !.pending = {}, !.expired = {x}])

-----------------------------------------------------------------------------
(* A candidate. *)

Ready(n) ==
    LET c == n.candidate IN
    /\ n \in offered
    /\ cand[c].alive
    /\ cand[c].taken = {}
    /\ n \notin cand[c].declined
    /\ cand' = [cand EXCEPT ![c].ready = @ \cup {n}]
    /\ UNCHANGED <<now, predecessor, messages, applies, past>>

(* The candidate refuses a nonce for good, unless it has applied already. *)
Decline(n) ==
    LET c == n.candidate IN
    /\ n \in offered
    /\ cand[c].alive
    /\ cand[c].taken = {}
    /\ cand' = [cand EXCEPT ![c].declined = @ \cup {n}]
    /\ declines' = declines \cup {n}
    /\ UNCHANGED <<now, predecessor, bundles, proofs, applies, past>>

(* A fresh candidate that is ready for the nonce and has not declined it. *)
MayApply(x) ==
    LET c == cand[x.nonce.candidate] IN
    c.alive /\ c.taken = {} /\ x.nonce \in c.ready /\ x.nonce \notin c.declined

(* The certificate is valid by the candidate's clock when its bundle comes. *)
ApplyStart(x) ==
    /\ MayApply(x)
    /\ \E lag \in 0..Lag :
         /\ now - lag < Expires(x)
         /\ applies' = applies \cup {[cert |-> x, at |-> now - lag, since |-> now]}
    /\ UNCHANGED <<now, predecessor, messages, cand, past>>

(* Mutant: the decline is not looked at again under the lock. *)
StillFresh(x) == cand[x.nonce.candidate].alive /\ cand[x.nonce.candidate].taken = {}

MayTake(x) == MayApply(x)

ApplyEnd(a) ==
    /\ cand' = IF MayTake(a.cert)
               THEN [cand EXCEPT ![a.cert.nonce.candidate].taken =
                                   {[cert |-> a.cert, at |-> a.at]}]
               ELSE cand
    /\ applies' = applies \ {a}
    /\ UNCHANGED <<now, predecessor, messages, past>>

(* The answer of the apply, or /governance/activation-proof later. *)
ServeProof(c) ==
    /\ cand[c].alive
    /\ cand[c].taken # {}
    /\ proofs' = proofs \cup cand[c].taken
    /\ UNCHANGED <<now, predecessor, bundles, declines, candidates, past>>

CandidateLost(c) ==
    /\ cand[c].alive
    /\ cand' = [cand EXCEPT ![c].alive = FALSE]
    /\ applies' = {a \in applies : a.cert.nonce.candidate # c}
    /\ UNCHANGED <<now, predecessor, messages, past>>

Tick ==
    /\ now < MaxTime
    /\ \A a \in applies : now - a.since < ApplyDelay
    /\ now' = now + 1
    /\ UNCHANGED <<predecessor, messages, candidates, past>>

-----------------------------------------------------------------------------
Next ==
    \/ CommitDone \/ CommitFailed \/ Recover \/ Tick
    \/ \E n \in Nonce : Offer(n) \/ CompleteStart(n) \/ Ready(n) \/ Decline(n)
    \/ \E x \in completes : Complete(x)
    \/ \E p \in proofs : FinalizeStart(p)
    \/ \E f \in finals : Record(f) \/ Reopen(f) \/ Retire(f)
    \/ \E x \in gov.pending : AbortDeclined(x) \/ AbortExpired(x)
    \/ \E x \in bundles : ApplyStart(x)
    \/ \E a \in applies : ApplyEnd(a)
    \/ \E c \in Candidate : ServeProof(c) \/ CandidateLost(c)

Spec == Init /\ [][Next]_vars

(* The recovery workflow is run until it succeeds: it finalizes with the   *)
(* proof it has, or aborts what expired; its commit is not refused for     *)
(* ever.  The lock serves its queue in order.                              *)
Fairness ==
    /\ WF_vars(Tick)
    /\ WF_vars(\E a \in applies : ApplyEnd(a))
    /\ WF_vars(CommitDone \/ CommitFailed)
    /\ WF_vars(\E p \in proofs : FinalizeStart(p))
    /\ SF_vars(\E f \in finals : Retire(f))
    /\ SF_vars(\E x \in gov.pending : AbortExpired(x))
    /\ SF_vars(lock.op \in {"retire", "expire"} /\ CommitDone)

FairSpec == Spec /\ Fairness

-----------------------------------------------------------------------------
TypeOK ==
    /\ now \in 0..MaxTime
    /\ {gov, saved} \subseteq
         [status: {"active", "activating_successor", "retired"}, pending: SUBSET Cert,
          proved: BOOLEAN, expired: SUBSET Cert, successor: SUBSET Cert]
    /\ lock \in [op: {"idle", "complete", "record", "retire", "decline", "expire"},
                 cert: SUBSET Cert]
    /\ challenges \subseteq Nonce /\ offered \subseteq Nonce /\ declines \subseteq Nonce
    /\ completes \subseteq Cert /\ bundles \subseteq Cert /\ started \subseteq Cert
    /\ latest \subseteq Cert /\ lapsed \subseteq Cert /\ refused \subseteq Cert
    /\ finals \subseteq [cert: Cert, stage: {"reopen", "record", "retire"}]
    /\ proofs \subseteq Proof
    /\ cand \in [Candidate -> [alive: BOOLEAN, ready: SUBSET Nonce,
                               declined: SUBSET Nonce, taken: SUBSET Proof]]
    /\ applies \subseteq [cert: Cert, at: Int, since: Nat]

-----------------------------------------------------------------------------
TakenProofs == UNION {cand[c].taken : c \in Candidate}

(* The office of LineageAuthority, read off the predecessor's committed    *)
(* state and the candidates.                                               *)
Authority == INSTANCE LineageAuthority WITH
    Certificate <- [nonce: Nonce, issued: 0..MaxIssue],
    office <- CASE Committed.status = "active" -> "held"
                [] Committed.status = "activating_successor" -> "offered"
                [] Committed.status = "retired" -> "passed",
    offer <- Committed.pending \cup Committed.successor,
    taken <- {p.cert : p \in TakenProofs}

(* The handoff implements LineageAuthority: with lost answers, repeated    *)
(* and concurrent requests, commits undone, a candidate's slow clock and   *)
(* restarts, it does nothing that changes who governs but what that allows. *)
ImplementsAuthority == Authority!Spec

(* "once the predecessor has seen the successor's proof it can only        *)
(* finalize, never abort into a fork" (governance-state.js:808-809): once  *)
(* the recorded proof is committed, the predecessor goes on with that      *)
(* certificate until it retires for it.                                    *)
ProofNeverAborted ==
    [][Committed.proved =>
         \/ Committed'.proved /\ Committed'.pending = Committed.pending
         \/ Committed'.successor = Committed.pending]_vars

(* A successor that applied the last certificate, seen or unseen, can be   *)
(* finalized by its proof until another is certified: the predecessor      *)
(* still knows the certificate, and the proof's time is acceptable.        *)
AppliedStaysFinalizable ==
    \A p \in TakenProofs :
        {p.cert} = latest =>
            /\ {p.cert} \in {Committed.pending, Committed.expired, Committed.successor}
            /\ InTime(p)

(* A handoff ends: the predecessor does not stay between the two statuses, *)
(* whichever message, candidate or commit was lost.                        *)
HandoffEnds ==
    gov.status = "activating_successor" ~> gov.status \in {"active", "retired"}
=============================================================================
