---------------------- MODULE ActivationHandoffProofs ----------------------
(***************************************************************************)
(* The successor handoff implements LineageAuthority, for all candidates,  *)
(* certificate lifetimes, clock lags and delays that satisfy the module's  *)
(* assumptions, and any number of requests, messages and restarts.         *)
(***************************************************************************)
EXTENDS ActivationHandoff, TLAPS

Governance == [status: {"active", "activating_successor", "retired"},
               pending: SUBSET Cert, proved: BOOLEAN, expired: SUBSET Cert,
               successor: SUBSET Cert]

Taken == {p.cert : p \in TakenProofs}

(* Requests are certified once: what one completes was never a bundle.     *)
RequestsInv ==
    /\ completes \cup bundles \cup latest \cup lapsed \cup refused \cup lock.cert
           \subseteq started
    /\ completes \cap (bundles \cup latest \cup lapsed \cup refused \cup lock.cert) = {}
    /\ \A x \in started : x.issued \in 0..MaxIssue /\ x.issued <= now

(* An apply under way began while its certificate was valid, and ends in   *)
(* time.                                                                   *)
AppliesInv ==
    \A a \in applies :
        /\ a.cert \in bundles
        /\ a.cert.issued - Lag <= a.at /\ a.at < Expires(a.cert)
        /\ a.since - Lag <= a.at /\ now <= a.since + ApplyDelay

(* A candidate takes a bundle made for it, in time, and not one whose      *)
(* nonce it declined.                                                      *)
TakenInv ==
    \A c \in Candidate : \A p \in cand[c].taken :
        /\ p.cert \in bundles /\ p.cert.nonce.candidate = c
        /\ p.cert.nonce \notin cand[c].declined
        /\ p.cert.issued - Lag <= p.at /\ p.at < Expires(p.cert)

(* What the workflow carries came from the candidates. *)
MessagesInv ==
    /\ proofs \subseteq TakenProofs
    /\ \A n \in declines : n \in cand[n.candidate].declined
    /\ \A f \in finals : f.cert \in Taken

(* The three statuses, by the certificate they are about. *)
ShapeInv ==
    \/ /\ Committed.status = "active"
       /\ Committed.pending = {} /\ Committed.successor = {} /\ ~Committed.proved
       /\ \A x \in Committed.expired :
             x \in lapsed /\ latest = {x} /\ Committed.expired = {x}
    \/ /\ Committed.status = "activating_successor"
       /\ Committed.expired = {} /\ Committed.successor = {}
       /\ \E x \in Cert : Committed.pending = {x} /\ latest = {x}
    \/ /\ Committed.status = "retired"
       /\ Committed.pending = {} /\ Committed.expired = {} /\ ~Committed.proved
       /\ \E x \in Taken : Committed.successor = {x} /\ latest = {x}

(* What became of each certificate. *)
FatesInv ==
    /\ \A x \in bundles :
          \/ {x} \in {Committed.pending, Committed.successor}
          \/ x \in lapsed \cup refused
    /\ \A x \in latest :
          /\ latest = {x}
          /\ {x} \in {Committed.pending, Committed.expired, Committed.successor}
                \/ x \in refused
    /\ \A x \in lapsed : now >= AbortableAt(x)
    /\ \A x \in refused : x.nonce \in declines

(* The commit under way, by its operation. *)
Completing(x) ==
    /\ lock.op = "complete" /\ saved.status = "active"
    /\ x \notin bundles \cup latest \cup lapsed \cup refused
    /\ gov = [saved EXCEPT !.status = "activating_successor", !.pending = {x},
                           !.proved = FALSE, !.expired = {}]

Recording(x) ==
    /\ lock.op = "record" /\ x \in Taken
    /\ \/ /\ saved.status = "activating_successor" /\ saved.pending = {x}
          /\ gov = [saved EXCEPT !.proved = TRUE]
       \/ /\ saved.status = "active" /\ saved.expired = {x}
          /\ gov = [saved EXCEPT !.status = "activating_successor", !.pending = {x},
                                 !.proved = TRUE, !.expired = {}]

Retiring(x) ==
    /\ lock.op = "retire" /\ x \in Taken
    /\ saved.status = "activating_successor" /\ saved.pending = {x}
    /\ gov = [saved EXCEPT !.status = "retired", !.pending = {}, !.proved = FALSE,
                           !.successor = {x}]

Aborting(x) ==
    /\ saved.status = "activating_successor" /\ saved.pending = {x} /\ ~saved.proved
    /\ \/ /\ lock.op = "decline" /\ x.nonce \in declines
          /\ gov = [saved EXCEPT !.status = "active", !.pending = {}, !.expired = {}]
       \/ /\ lock.op = "expire" /\ now >= AbortableAt(x)
          /\ gov = [saved EXCEPT !.status = "active", !.pending = {}, !.expired = {x}]

LockInv ==
    lock # Idle =>
        \E x \in Cert :
            /\ lock.cert = {x}
            /\ Completing(x) \/ Recording(x) \/ Retiring(x) \/ Aborting(x)

HandoffInv ==
    TypeOK /\ RequestsInv /\ AppliesInv /\ TakenInv /\ MessagesInv /\ ShapeInv /\ FatesInv
    /\ LockInv

-----------------------------------------------------------------------------
(* Every action keeps the variables in their types.                        *)
LEMMA CommitType ==
    ASSUME TypeOK, NEW op \in {"record", "retire", "decline", "expire"},
           NEW x \in Cert, NEW new \in Governance, Commit(op, x, new)
    PROVE  TypeOK'
BY DEF TypeOK, Commit, messages, candidates, past, Governance

LEMMA SettleType ==
    ASSUME TypeOK, Settle(lock.op, lock.cert)
    PROVE  /\ latest' \subseteq Cert /\ lapsed' \subseteq Cert /\ refused' \subseteq Cert
           /\ UNCHANGED <<offered, started>>
BY DEF TypeOK, Settle

LEMMA TypeStep == TypeOK /\ [Next]_vars => TypeOK'
<1> SUFFICES ASSUME TypeOK, [Next]_vars PROVE TypeOK'
  OBVIOUS
<1> USE TimeAssumption
<1>0. Ruling \in Governance /\ Idle \in [op: {"idle"}, cert: SUBSET Cert]
  BY DEF Ruling, Governance, Idle
<1>1. CASE CommitDone
  <2>1. finals' \subseteq [cert: Cert, stage: {"reopen", "record", "retire"}]
    BY <1>1 DEF CommitDone, TypeOK
  <2>2. challenges' \subseteq Nonce
    BY <1>1 DEF CommitDone, TypeOK
  <2>3. bundles' \subseteq Cert
    BY <1>1 DEF CommitDone, TypeOK
  <2>4. /\ latest' \subseteq Cert /\ lapsed' \subseteq Cert /\ refused' \subseteq Cert
        /\ UNCHANGED <<offered, started>>
    BY <1>1, SettleType DEF CommitDone
  <2> QED
    BY <1>0, <1>1, <2>1, <2>2, <2>3, <2>4
    DEF CommitDone, TypeOK, Governance, candidates
<1>2. CASE CommitFailed
  BY <1>0, <1>2 DEF CommitFailed, Restored, TypeOK, Governance, messages, candidates, past
<1>3. CASE Recover
  <2>1. gov' \in Governance
    BY <1>3 DEF Recover, Committed, TypeOK, Governance
  <2>2. /\ latest' \subseteq Cert /\ lapsed' \subseteq Cert /\ refused' \subseteq Cert
        /\ UNCHANGED <<offered, started>>
    BY <1>3, SettleType DEF Recover, past, TypeOK
  <2> QED
    BY <1>0, <1>3, <2>1, <2>2 DEF Recover, TypeOK, Governance, messages, candidates
<1>4. CASE Tick
  BY <1>4 DEF Tick, TypeOK, predecessor, messages, candidates, past
<1>5. ASSUME NEW n \in Nonce, Offer(n) \/ CompleteStart(n)
      PROVE  TypeOK'
  <2>1. [nonce |-> n, issued |-> now] \in Cert
    BY DEF TypeOK, Cert
  <2> QED
    BY <1>5, <2>1 DEF Offer, CompleteStart, TypeOK, messages, candidates
<1>6. ASSUME NEW n \in Nonce, Ready(n) \/ Decline(n)
      PROVE  TypeOK'
  <2>1. n.candidate \in Candidate
    BY DEF Nonce
  <2> QED
    BY <1>6, <2>1 DEF Ready, Decline, TypeOK, predecessor, messages, past
<1>7. ASSUME NEW x \in completes, Complete(x)
      PROVE  TypeOK'
  <2>1. x \in Cert
    BY DEF TypeOK
  <2>2. gov' \in Governance
    BY <1>7, <2>1 DEF Complete, TypeOK, Governance
  <2>3. lock' \in [op: {"complete"}, cert: SUBSET Cert]
    BY <1>7, <2>1 DEF Complete
  <2> QED
    BY <1>7, <2>2, <2>3 DEF Complete, TypeOK, Governance, messages, candidates, past
<1>8. ASSUME NEW p \in proofs, FinalizeStart(p)
      PROVE  TypeOK'
  <2>1. p.cert \in Cert
    BY DEF TypeOK, Proof
  <2>2. FirstStage(p.cert) \subseteq {"reopen", "record", "retire"}
    BY DEF FirstStage
  <2>3. finals' \subseteq [cert: Cert, stage: {"reopen", "record", "retire"}]
    BY <1>8, <2>1, <2>2 DEF FinalizeStart, TypeOK
  <2> QED
    BY <1>8, <2>3 DEF FinalizeStart, TypeOK, messages, candidates, past
<1>9. ASSUME NEW f \in finals, Record(f) \/ Reopen(f) \/ Retire(f)
      PROVE  TypeOK'
  <2>1. f.cert \in Cert
    BY DEF TypeOK
  <2>2. /\ [gov EXCEPT !.proved = TRUE] \in Governance
        /\ [gov EXCEPT !.status = "activating_successor", !.pending = {f.cert},
                       !.proved = TRUE, !.expired = {}] \in Governance
        /\ [gov EXCEPT !.status = "retired", !.pending = {}, !.proved = FALSE,
                       !.successor = {f.cert}] \in Governance
    BY <2>1 DEF TypeOK, Governance
  <2> QED
    BY <1>9, <2>1, <2>2, CommitType DEF Record, Reopen, Retire
<1>10. ASSUME NEW x \in gov.pending, AbortDeclined(x) \/ AbortExpired(x)
       PROVE  TypeOK'
  <2>1. x \in Cert
    BY DEF TypeOK
  <2>2. /\ [gov EXCEPT !.status = "active", !.pending = {}, !.expired = {}] \in Governance
        /\ [gov EXCEPT !.status = "active", !.pending = {}, !.expired = {x}] \in Governance
    BY <2>1 DEF TypeOK, Governance
  <2> QED
    BY <1>10, <2>1, <2>2, CommitType DEF AbortDeclined, AbortExpired, ActiveAgain
<1>11. ASSUME NEW x \in bundles, ApplyStart(x)
       PROVE  TypeOK'
  <2>1. PICK lag \in 0..Lag :
          applies' = applies \cup {[cert |-> x, at |-> now - lag, since |-> now]}
    BY <1>11 DEF ApplyStart
  <2>2. [cert |-> x, at |-> now - lag, since |-> now] \in [cert: Cert, at: Int, since: Nat]
    BY DEF TypeOK
  <2>3. applies' \subseteq [cert: Cert, at: Int, since: Nat]
    BY <2>1, <2>2 DEF TypeOK
  <2> QED
    BY <1>11, <2>3 DEF ApplyStart, TypeOK, predecessor, messages, past
<1>12. ASSUME NEW a \in applies, ApplyEnd(a)
       PROVE  TypeOK'
  <2>1. [cert |-> a.cert, at |-> a.at] \in Proof
    BY DEF TypeOK, Proof
  <2>2. cand' \in [Candidate -> [alive: BOOLEAN, ready: SUBSET Nonce,
                                 declined: SUBSET Nonce, taken: SUBSET Proof]]
    BY <1>12, <2>1 DEF ApplyEnd, TypeOK
  <2> QED
    BY <1>12, <2>2 DEF ApplyEnd, TypeOK, predecessor, messages, past
<1>13. ASSUME NEW c \in Candidate, ServeProof(c) \/ CandidateLost(c)
       PROVE  TypeOK'
  <2>1. CASE ServeProof(c)
    <3>1. cand[c].taken \subseteq Proof
      BY DEF TypeOK
    <3> QED
      BY <2>1, <3>1 DEF ServeProof, TypeOK, predecessor, candidates, past
  <2>2. CASE CandidateLost(c)
    BY <2>2 DEF CandidateLost, TypeOK, predecessor, messages, past
  <2> QED
    BY <1>13, <2>1, <2>2
<1>14. CASE UNCHANGED vars
  BY <1>14 DEF vars, TypeOK
<1> QED
  BY <1>1, <1>2, <1>3, <1>4, <1>5, <1>6, <1>7, <1>8, <1>9, <1>10, <1>11, <1>12, <1>13,
     <1>14 DEF Next

LEMMA InitType == Init => TypeOK
BY TimeAssumption DEF Init, TypeOK, Ruling, Idle, Blank

(* The predecessor, the messages and the candidates keep their types. *)
THEOREM HandoffTypes == Spec => []TypeOK
BY InitType, TypeStep, PTL DEF Spec

-----------------------------------------------------------------------------
(* What only grows. *)
KeepsTaken(c) ==
    cand[c].taken \subseteq cand'[c].taken /\ cand[c].declined \subseteq cand'[c].declined

Grows ==
    /\ now <= now' /\ now' \in Nat
    /\ declines \subseteq declines'
    /\ started \subseteq started'
    /\ \A c \in Candidate : KeepsTaken(c)
    /\ TakenProofs \subseteq TakenProofs' /\ Taken \subseteq Taken'

LEMMA TakenMeans ==
    /\ \A p : p \in TakenProofs <=> \E c \in Candidate : p \in cand[c].taken
    /\ \A x : x \in Taken <=> \E c \in Candidate : \E p \in cand[c].taken : x = p.cert
BY DEF TakenProofs, Taken

LEMMA TakenMeansNext ==
    /\ \A p : p \in TakenProofs' <=> \E c \in Candidate : p \in cand'[c].taken
    /\ \A x : x \in Taken' <=> \E c \in Candidate : \E p \in cand'[c].taken : x = p.cert
BY DEF TakenProofs, Taken

LEMMA Growth ==
    ASSUME TypeOK, [Next]_vars
    PROVE  Grows
<1> USE TimeAssumption
<1>1. now <= now' /\ now' \in Nat
  <2>1. now' = now \/ now' = now + 1
    BY DEF Next, vars, CommitDone, CommitFailed, Recover, Tick, Offer, CompleteStart, Ready,
           Decline, Complete, FinalizeStart, Record, Reopen, Retire, AbortDeclined,
           AbortExpired, ApplyStart, ApplyEnd, ServeProof, CandidateLost, Commit
  <2> QED
    BY <2>1 DEF TypeOK
<1>2. declines \subseteq declines' /\ started \subseteq started'
  BY DEF Next, vars, messages, past, Settle, CommitDone, CommitFailed, Recover, Tick, Offer,
         CompleteStart, Ready, Decline, Complete, FinalizeStart, Record, Reopen, Retire,
         AbortDeclined, AbortExpired, ApplyStart, ApplyEnd, ServeProof, CandidateLost, Commit
<1>3. \A c \in Candidate : KeepsTaken(c)
  <2>1. ASSUME NEW n \in Nonce, Ready(n) \/ Decline(n)
        PROVE  \A c \in Candidate : KeepsTaken(c)
    BY <2>1 DEF Ready, Decline, TypeOK, KeepsTaken
  <2>2. ASSUME NEW a \in applies, ApplyEnd(a)
        PROVE  \A c \in Candidate : KeepsTaken(c)
    BY <2>2 DEF ApplyEnd, MayTake, MayApply, TypeOK, KeepsTaken
  <2>3. ASSUME NEW d \in Candidate, CandidateLost(d)
        PROVE  \A c \in Candidate : KeepsTaken(c)
    BY <2>3 DEF CandidateLost, TypeOK, KeepsTaken
  <2>4. CASE UNCHANGED cand
    BY <2>4 DEF KeepsTaken
  <2> QED
    BY <2>1, <2>2, <2>3, <2>4
    DEF Next, vars, candidates, CommitDone, CommitFailed, Recover, Tick, Offer, CompleteStart,
        Complete, FinalizeStart, Record, Reopen, Retire, AbortDeclined, AbortExpired, ApplyStart,
        ServeProof, Commit
<1>4. TakenProofs \subseteq TakenProofs' /\ Taken \subseteq Taken'
  BY <1>3, TakenMeans, TakenMeansNext DEF KeepsTaken
<1> QED
  BY <1>1, <1>2, <1>3, <1>4 DEF Grows

-----------------------------------------------------------------------------
(* A step leaves what the predecessor answers for alone, or ends a commit. *)
Quiet == Committed' = Committed /\ UNCHANGED <<latest, lapsed, refused, bundles>>

Ends ==
    /\ lock # Idle /\ lock' = Idle /\ gov' = gov
    /\ Settle(lock.op, lock.cert)
    /\ \/ bundles' = bundles
       \/ lock.op = "complete" /\ bundles' = bundles \cup lock.cert
    /\ UNCHANGED <<now, cand, declines>>

LEMMA QuietOrEnds ==
    ASSUME TypeOK, [Next]_vars
    PROVE  Quiet \/ Ends
<1>1. CASE CommitDone
  BY <1>1 DEF CommitDone, Ends, candidates
<1>2. CASE CommitFailed
  BY <1>2 DEF CommitFailed, Restored, Quiet, Committed, messages, past
<1>3. CASE Recover
  <2>1. CASE gov' = Committed /\ UNCHANGED past
    BY <1>3, <2>1 DEF Recover, Quiet, Committed, messages, past
  <2>2. CASE lock # Idle /\ gov' = gov /\ Settle(lock.op, lock.cert)
    BY <1>3, <2>2 DEF Recover, Ends, messages, candidates
  <2> QED
    BY <1>3, <2>1, <2>2 DEF Recover
<1>4. ASSUME NEW x \in completes, Complete(x)
      PROVE  Quiet
  BY <1>4 DEF Complete, Idle, Quiet, Committed, messages, past
<1>5. ASSUME NEW op \in {"record", "retire", "decline", "expire"}, NEW x, NEW new,
             Commit(op, x, new)
      PROVE  Quiet
  BY <1>5 DEF Commit, Idle, Quiet, Committed, messages, past
<1>6. ASSUME NEW f \in finals, Record(f) \/ Reopen(f) \/ Retire(f)
      PROVE  Quiet
  BY <1>5, <1>6 DEF Record, Reopen, Retire
<1>7. ASSUME NEW x \in gov.pending, AbortDeclined(x) \/ AbortExpired(x)
      PROVE  Quiet
  BY <1>5, <1>7 DEF AbortDeclined, AbortExpired
<1>8. CASE UNCHANGED <<gov, saved, lock, bundles, latest, lapsed, refused>>
  BY <1>8 DEF Quiet, Committed
<1> QED
  BY <1>1, <1>2, <1>3, <1>4, <1>6, <1>7, <1>8
  DEF Next, vars, predecessor, messages, past, Tick, Offer, CompleteStart, Ready, Decline,
      FinalizeStart, ApplyStart, ApplyEnd, ServeProof, CandidateLost

-----------------------------------------------------------------------------
LEMMA RequestsStep ==
    ASSUME HandoffInv, [Next]_vars
    PROVE  RequestsInv'
<1> USE TimeAssumption DEF HandoffInv, RequestsInv
<1>0. Grows
  BY Growth
<1>1. ASSUME NEW n \in Nonce, CompleteStart(n)
      PROVE  RequestsInv'
  <2>1. PICK x \in Cert : /\ x = [nonce |-> n, issued |-> now] /\ x \notin started
                          /\ completes' = completes \cup {x} /\ started' = started \cup {x}
    BY <1>1 DEF CompleteStart, Cert, TypeOK
  <2>2. x.issued = now /\ now \in 0..MaxIssue
    BY <1>1, <2>1 DEF CompleteStart, TypeOK
  <2> QED
    BY <1>1, <2>1, <2>2 DEF CompleteStart, messages, candidates, TypeOK
<1>2. ASSUME UNCHANGED started, completes' \subseteq completes,
             bundles' \cup latest' \cup lapsed' \cup refused' \cup lock'.cert
                \subseteq bundles \cup latest \cup lapsed \cup refused \cup lock.cert
      PROVE  RequestsInv'
  <2>1. \A x \in started : x.issued <= now'
    BY <1>0 DEF Grows, TypeOK, Cert
  <2> QED
    BY <1>2, <2>1
<1>3. ASSUME NEW x \in completes, Complete(x)
      PROVE  RequestsInv'
  <2>1. lock'.cert = {x} /\ lock.cert = {}
    BY <1>3 DEF Complete, Idle
  <2> QED
    BY <1>3, <2>1 DEF Complete, messages, candidates, past
<1>4. ASSUME NEW op \in {"record", "retire", "decline", "expire"}, NEW x \in started, NEW new,
             Commit(op, x, new), x \notin completes
      PROVE  RequestsInv'
  <2>1. lock'.cert = {x} /\ lock.cert = {}
    BY <1>4 DEF Commit, Idle
  <2> QED
    BY <1>4, <2>1 DEF Commit, messages, candidates, past
<1>5. ASSUME NEW f \in finals, Record(f) \/ Reopen(f) \/ Retire(f)
      PROVE  RequestsInv'
  <2>1. f.cert \in bundles
    BY TakenMeans DEF MessagesInv, TakenInv
  <2> QED
    BY <1>4, <1>5, <2>1 DEF Record, Reopen, Retire
<1>6. ASSUME NEW x \in gov.pending, AbortDeclined(x) \/ AbortExpired(x)
      PROVE  RequestsInv'
  <2>1. lock = Idle
    BY <1>6 DEF AbortDeclined, AbortExpired, Commit
  <2>2. x \in latest
    BY <2>1 DEF ShapeInv, Committed
  <2> QED
    BY <1>4, <1>6, <2>2 DEF AbortDeclined, AbortExpired
<1>7. CASE CommitDone
  BY <1>2, <1>7 DEF CommitDone, Settle, Idle
<1>8. CASE CommitFailed
  BY <1>2, <1>8 DEF CommitFailed, messages, past, Idle
<1>9. CASE Recover
  BY <1>2, <1>9 DEF Recover, Settle, messages, past, Idle
<1>10. CASE UNCHANGED <<lock, completes, bundles, latest, lapsed, refused, started>>
  BY <1>2, <1>10
<1> QED
  BY <1>1, <1>3, <1>5, <1>6, <1>7, <1>8, <1>9, <1>10
  DEF Next, vars, predecessor, messages, candidates, past, Tick, Offer, Ready, Decline,
      FinalizeStart, ApplyStart, ApplyEnd, ServeProof, CandidateLost

LEMMA AppliesStep ==
    ASSUME HandoffInv, [Next]_vars
    PROVE  AppliesInv'
<1> USE TimeAssumption DEF HandoffInv, AppliesInv
<1>0. bundles \subseteq bundles'
  BY QuietOrEnds DEF Quiet, Ends
<1>1. CASE Tick
  BY <1>1 DEF Tick, messages, candidates, TypeOK
<1>2. ASSUME NEW x \in bundles, ApplyStart(x)
      PROVE  AppliesInv'
  <2>1. PICK lag \in 0..Lag :
          /\ now - lag < Expires(x)
          /\ applies' = applies \cup {[cert |-> x, at |-> now - lag, since |-> now]}
    BY <1>2 DEF ApplyStart
  <2>2. x \in Cert /\ x.issued <= now /\ now \in Nat /\ x.issued \in Nat
    BY DEF RequestsInv, TypeOK, Cert
  <2>3. /\ x.issued - Lag <= now - lag /\ now - Lag <= now - lag
        /\ now <= now + ApplyDelay
    BY <2>2
  <2> QED
    BY <1>2, <2>1, <2>3 DEF ApplyStart, messages
<1>3. CASE UNCHANGED now /\ applies' \subseteq applies
  BY <1>0, <1>3
<1> QED
  BY <1>1, <1>2, <1>3
  DEF Next, vars, candidates, CommitDone, CommitFailed, Recover, Offer, CompleteStart, Ready,
      Decline, Complete, FinalizeStart, Record, Reopen, Retire, AbortDeclined, AbortExpired,
      ApplyEnd, ServeProof, CandidateLost, Commit

LEMMA TakenStep ==
    ASSUME HandoffInv, [Next]_vars
    PROVE  TakenInv'
<1> USE DEF HandoffInv, TakenInv
<1>0. bundles \subseteq bundles'
  BY QuietOrEnds DEF Quiet, Ends
<1>1. ASSUME NEW n \in Nonce, Ready(n) \/ Decline(n)
      PROVE  TakenInv'
  <2>1. n.candidate \in Candidate /\ cand[n.candidate].taken = {}
    BY <1>1 DEF Nonce, Ready, Decline
  <2>2. \A c \in Candidate :
          /\ cand'[c].taken = cand[c].taken
          /\ c # n.candidate => cand'[c].declined = cand[c].declined
    BY <1>1, <2>1 DEF Ready, Decline, TypeOK
  <2> QED
    BY <1>0, <2>1, <2>2
<1>2. ASSUME NEW a \in applies, ApplyEnd(a)
      PROVE  TakenInv'
  <2>1. CASE ~MayTake(a.cert)
    BY <1>0, <1>2, <2>1 DEF ApplyEnd
  <2>2. CASE MayTake(a.cert)
    <3> DEFINE d == a.cert.nonce.candidate
    <3>1. d \in Candidate
      BY DEF TypeOK, Cert, Nonce
    <3>2. /\ cand'[d].taken = {[cert |-> a.cert, at |-> a.at]}
          /\ cand'[d].declined = cand[d].declined
          /\ \A c \in Candidate : c # d => cand'[c] = cand[c]
      BY <1>2, <2>2, <3>1 DEF ApplyEnd, TypeOK
    <3>3. a.cert.nonce \notin cand[d].declined
      BY <2>2 DEF MayTake, MayApply
    <3> QED
      BY <1>0, <3>1, <3>2, <3>3 DEF AppliesInv
  <2> QED
    BY <2>1, <2>2
<1>3. ASSUME NEW d \in Candidate, CandidateLost(d)
      PROVE  TakenInv'
  <2>1. \A c \in Candidate : cand'[c].taken = cand[c].taken /\ cand'[c].declined = cand[c].declined
    BY <1>3 DEF CandidateLost, TypeOK
  <2> QED
    BY <1>0, <2>1
<1>4. CASE UNCHANGED cand
  BY <1>0, <1>4
<1> QED
  BY <1>1, <1>2, <1>3, <1>4
  DEF Next, vars, candidates, CommitDone, CommitFailed, Recover, Tick, Offer, CompleteStart,
      Complete, FinalizeStart, Record, Reopen, Retire, AbortDeclined, AbortExpired, ApplyStart,
      ServeProof, Commit

LEMMA MessagesStep ==
    ASSUME HandoffInv, [Next]_vars
    PROVE  MessagesInv'
<1> USE DEF HandoffInv, MessagesInv
<1>0. Grows
  BY Growth
<1>1. proofs' \subseteq TakenProofs'
  <2>1. proofs' \subseteq TakenProofs
    BY TakenMeans
    DEF Next, vars, messages, CommitDone, CommitFailed, Recover, Tick, Offer, CompleteStart,
        Ready, Decline, Complete, FinalizeStart, Record, Reopen, Retire, AbortDeclined,
        AbortExpired, ApplyStart, ApplyEnd, ServeProof, CandidateLost, Commit
  <2> QED
    BY <1>0, <2>1 DEF Grows
<1>2. \A n \in declines' : n \in cand'[n.candidate].declined
  <2>1. ASSUME NEW n \in Nonce, Decline(n)
        PROVE  declines' = declines \cup {n} /\ n \in cand'[n.candidate].declined
    BY <2>1 DEF Decline, TypeOK, Nonce
  <2>2. (\E n \in Nonce : Decline(n)) \/ UNCHANGED declines
    BY DEF Next, vars, messages, CommitDone, CommitFailed, Recover, Tick, Offer, CompleteStart,
           Ready, Complete, FinalizeStart, Record, Reopen, Retire, AbortDeclined,
           AbortExpired, ApplyStart, ApplyEnd, ServeProof, CandidateLost, Commit
  <2>3. \A n \in declines : n.candidate \in Candidate
    BY DEF TypeOK, Nonce
  <2> QED
    BY <1>0, <2>1, <2>2, <2>3 DEF Grows, KeepsTaken
<1>3. \A f \in finals' : f.cert \in Taken
  <2>1. ASSUME NEW p \in proofs, FinalizeStart(p)
        PROVE  \A f \in finals' : f.cert \in Taken
    <3>1. p.cert \in Taken
      BY TakenMeans
    <3> QED
      BY <2>1, <3>1 DEF FinalizeStart
  <2>2. CASE CommitDone
    <3>1. CASE lock.op = "record"
      <4>1. \A x \in lock.cert : x \in Taken
        BY <2>2, <3>1 DEF CommitDone, LockInv, Completing, Recording, Retiring, Aborting
      <4> QED
        BY <2>2, <3>1, <4>1 DEF CommitDone
    <3>2. CASE lock.op # "record"
      BY <2>2, <3>2 DEF CommitDone
    <3> QED
      BY <3>1, <3>2
  <2>3. CASE finals' \subseteq finals
    BY <2>3
  <2> QED
    BY <2>1, <2>2, <2>3
    DEF Next, vars, predecessor, CommitFailed, Recover, Tick, Offer, CompleteStart,
        Ready, Decline, Complete, Record, Reopen, Retire, AbortDeclined,
        AbortExpired, ApplyStart, ApplyEnd, ServeProof, CandidateLost, Commit
<1> QED
  BY <1>0, <1>1, <1>2, <1>3 DEF Grows

LEMMA LockStep ==
    ASSUME HandoffInv, [Next]_vars
    PROVE  LockInv'
<1> USE DEF HandoffInv
<1>0. Grows
  BY Growth
<1>1. CASE lock' = Idle
  BY <1>1 DEF LockInv
<1>2. ASSUME UNCHANGED <<lock, gov, saved>>, lock # Idle, Quiet
      PROVE  LockInv'
  <2>1. PICK x \in Cert :
          /\ lock.cert = {x}
          /\ Completing(x) \/ Recording(x) \/ Retiring(x) \/ Aborting(x)
    BY <1>2 DEF LockInv
  <2>2. x \in Taken => x \in Taken'
    BY <1>0 DEF Grows
  <2>3. x.nonce \in declines => x.nonce \in declines'
    BY <1>0 DEF Grows
  <2>4. now >= AbortableAt(x) => now' >= AbortableAt(x)
    BY <1>0, TimeAssumption DEF Grows, TypeOK, AbortableAt, Expires, Cert
  <2>5. Completing(x) => Completing(x)'
    BY <1>2 DEF Completing, Quiet
  <2>6. Recording(x) => Recording(x)'
    BY <1>2, <2>2 DEF Recording
  <2>7. Retiring(x) => Retiring(x)'
    BY <1>2, <2>2 DEF Retiring
  <2>8. Aborting(x) => Aborting(x)'
    BY <1>2, <2>3, <2>4 DEF Aborting
  <2> QED
    BY <1>2, <2>1, <2>5, <2>6, <2>7, <2>8 DEF LockInv
<1>3. ASSUME NEW x \in completes, Complete(x)
      PROVE  LockInv'
  <2>1. x \in Cert /\ x \notin bundles \cup latest \cup lapsed \cup refused
    BY DEF TypeOK, RequestsInv
  <2>2. Completing(x)'
    BY <1>3, <2>1 DEF Complete, Completing, messages, past
  <2> QED
    BY <1>3, <2>1, <2>2 DEF Complete, LockInv
<1>4. ASSUME NEW f \in finals, Record(f) \/ Reopen(f) \/ Retire(f)
      PROVE  LockInv'
  <2>1. f.cert \in Cert /\ f.cert \in Taken'
    BY <1>0 DEF TypeOK, MessagesInv, Grows
  <2>2. CASE Record(f)
    <3>1. Recording(f.cert)'
      BY <2>1, <2>2 DEF Record, Commit, Recording
    <3> QED
      BY <2>1, <2>2, <3>1 DEF Record, Commit, LockInv
  <2>3. CASE Reopen(f)
    <3>1. Recording(f.cert)'
      BY <2>1, <2>3 DEF Reopen, Commit, Recording
    <3> QED
      BY <2>1, <2>3, <3>1 DEF Reopen, Commit, LockInv
  <2>4. CASE Retire(f)
    <3>1. Retiring(f.cert)'
      BY <2>1, <2>4 DEF Retire, Commit, Retiring
    <3> QED
      BY <2>1, <2>4, <3>1 DEF Retire, Commit, LockInv
  <2> QED
    BY <1>4, <2>2, <2>3, <2>4
<1>5. ASSUME NEW x \in gov.pending, AbortDeclined(x) \/ AbortExpired(x)
      PROVE  LockInv'
  <2>1. x \in Cert
    BY DEF TypeOK
  <2>2. CASE AbortDeclined(x)
    <3>1. Aborting(x)'
      BY <2>2 DEF AbortDeclined, MayAbort, ActiveAgain, Commit, Aborting, messages
    <3> QED
      BY <2>1, <2>2, <3>1 DEF AbortDeclined, Commit, LockInv
  <2>3. CASE AbortExpired(x)
    <3>1. Aborting(x)'
      BY <2>3 DEF AbortExpired, MayAbort, ActiveAgain, Commit, Aborting
    <3> QED
      BY <2>1, <2>3, <3>1 DEF AbortExpired, Commit, LockInv
  <2> QED
    BY <1>5, <2>2, <2>3
<1>6. UNCHANGED <<lock, gov, saved>> /\ lock # Idle => Quiet
  BY QuietOrEnds DEF Ends
<1>7. CASE UNCHANGED <<lock, gov, saved>>
  BY <1>1, <1>2, <1>6, <1>7
<1> QED
  BY <1>1, <1>3, <1>4, <1>5, <1>7
  DEF Next, vars, predecessor, CommitDone, CommitFailed, Recover, Tick, Offer, CompleteStart,
      Ready, Decline, FinalizeStart, ApplyStart, ApplyEnd, ServeProof, CandidateLost

(* What the end of a commit does to the office, by its operation. *)
EndOf(x) ==
    /\ lock.cert = {x} /\ Committed = saved /\ Committed' = gov
    /\ UNCHANGED <<now, cand, declines>>
    /\ x \in started
    /\ \/ /\ Completing(x) /\ latest' = {x} /\ UNCHANGED <<lapsed, refused>>
          /\ bundles \subseteq bundles' /\ bundles' \subseteq bundles \cup {x}
       \/ /\ Recording(x) \/ Retiring(x)
          /\ UNCHANGED <<latest, lapsed, refused, bundles>>
       \/ /\ Aborting(x) /\ lock.op = "decline" /\ refused' = refused \cup {x}
          /\ UNCHANGED <<latest, lapsed, bundles>>
       \/ /\ Aborting(x) /\ lock.op = "expire" /\ lapsed' = lapsed \cup {x}
          /\ UNCHANGED <<latest, refused, bundles>>

LEMMA EndsByOperation ==
    ASSUME HandoffInv, [Next]_vars, Ends
    PROVE  \E x \in Cert : EndOf(x)
<1> USE DEF EndOf
<1>1. PICK x \in Cert :
        /\ lock.cert = {x}
        /\ Completing(x) \/ Recording(x) \/ Retiring(x) \/ Aborting(x)
  BY DEF HandoffInv, LockInv, Ends
<1>2. /\ Committed = saved /\ Committed' = gov /\ UNCHANGED <<now, cand, declines>>
      /\ x \in started
  BY <1>1 DEF Ends, Committed, HandoffInv, RequestsInv
<1>3. CASE Completing(x)
  BY <1>1, <1>2, <1>3 DEF Ends, Settle, Completing
<1>4. CASE Recording(x) \/ Retiring(x)
  <2>1. lock.op \in {"record", "retire"}
    BY <1>4 DEF Recording, Retiring
  <2> QED
    BY <1>1, <1>2, <1>4, <2>1 DEF Ends, Settle
<1>5. CASE Aborting(x)
  <2>1. lock.op \in {"decline", "expire"}
    BY <1>5 DEF Aborting
  <2> QED
    BY <1>1, <1>2, <1>5, <2>1 DEF Ends, Settle
<1> QED
  BY <1>1, <1>3, <1>4, <1>5

LEMMA ShapeStep ==
    ASSUME HandoffInv, [Next]_vars
    PROVE  ShapeInv'
<1>0. Grows
  BY Growth DEF HandoffInv
<1>1. CASE Quiet
  <2>1. Taken \subseteq Taken'
    BY <1>0 DEF Grows
  <2> QED
    BY <1>1, <2>1 DEF Quiet, HandoffInv, ShapeInv
<1>2. CASE Ends
  <2> USE DEF EndOf
  <2>1. PICK x \in Cert : EndOf(x)
    BY <1>2, EndsByOperation
  <2>2. saved \in Governance
    BY DEF HandoffInv, TypeOK, Governance
  <2>3. CASE Completing(x) /\ latest' = {x}
    BY <2>1, <2>2, <2>3 DEF Completing, ShapeInv, HandoffInv, Governance
  <2>4. CASE Recording(x) /\ UNCHANGED <<latest, lapsed>>
    BY <2>1, <2>2, <2>4 DEF Recording, ShapeInv, HandoffInv, Governance
  <2>5. CASE Retiring(x) /\ UNCHANGED <<latest, lapsed>>
    <3>1. x \in Taken'
      BY <1>0, <2>5 DEF Grows, Retiring
    <3> QED
      BY <2>1, <2>2, <2>5, <3>1 DEF Retiring, ShapeInv, HandoffInv, Governance
  <2>6. CASE Aborting(x) /\ lock.op = "decline" /\ UNCHANGED <<latest, lapsed>>
    BY <2>1, <2>2, <2>6 DEF Aborting, ShapeInv, HandoffInv, Governance
  <2>7. CASE Aborting(x) /\ lock.op = "expire" /\ UNCHANGED latest /\ lapsed' = lapsed \cup {x}
    BY <2>1, <2>2, <2>7 DEF Aborting, ShapeInv, HandoffInv, Governance
  <2> QED
    BY <2>1, <2>3, <2>4, <2>5, <2>6, <2>7
<1> QED
  BY <1>1, <1>2, QuietOrEnds DEF HandoffInv

LEMMA FatesStep ==
    ASSUME HandoffInv, [Next]_vars
    PROVE  FatesInv'
<1>0. Grows
  BY Growth DEF HandoffInv
<1>1. \A x \in Cert : now >= AbortableAt(x) => now' >= AbortableAt(x)
  BY <1>0, TimeAssumption DEF Grows, HandoffInv, TypeOK, AbortableAt, Expires, Cert
<1>2. lapsed \subseteq Cert /\ declines \subseteq declines'
  BY <1>0 DEF HandoffInv, TypeOK, Grows
<1>3. CASE Quiet
  BY <1>1, <1>2, <1>3 DEF Quiet, HandoffInv, FatesInv
<1>4. CASE Ends
  <2> USE DEF EndOf
  <2>1. PICK x \in Cert : EndOf(x)
    BY <1>4, EndsByOperation
  <2>2. saved \in Governance
    BY DEF HandoffInv, TypeOK, Governance
  <2>3. CASE Completing(x) /\ latest' = {x} /\ UNCHANGED <<lapsed, refused>>
             /\ bundles \subseteq bundles' /\ bundles' \subseteq bundles \cup {x}
    BY <1>1, <1>2, <2>1, <2>2, <2>3
    DEF Completing, ShapeInv, FatesInv, HandoffInv, Governance
  <2>4. CASE Recording(x) /\ UNCHANGED <<latest, lapsed, refused, bundles>>
    BY <1>1, <1>2, <2>1, <2>2, <2>4
    DEF Recording, ShapeInv, FatesInv, HandoffInv, Governance
  <2>5. CASE Retiring(x) /\ UNCHANGED <<latest, lapsed, refused, bundles>>
    BY <1>1, <1>2, <2>1, <2>2, <2>5
    DEF Retiring, ShapeInv, FatesInv, HandoffInv, Governance
  <2>6. CASE Aborting(x) /\ lock.op = "decline" /\ refused' = refused \cup {x}
             /\ UNCHANGED <<latest, lapsed, bundles>>
    BY <1>1, <1>2, <2>1, <2>2, <2>6
    DEF Aborting, ShapeInv, FatesInv, HandoffInv, Governance
  <2>7. CASE Aborting(x) /\ lock.op = "expire" /\ lapsed' = lapsed \cup {x}
             /\ UNCHANGED <<latest, refused, bundles>>
    BY <1>1, <1>2, <2>1, <2>2, <2>7
    DEF Aborting, ShapeInv, FatesInv, HandoffInv, Governance
  <2> QED
    BY <2>1, <2>3, <2>4, <2>5, <2>6, <2>7
<1> QED
  BY <1>3, <1>4, QuietOrEnds DEF HandoffInv

LEMMA HandoffInvInit == Init => HandoffInv
<1> SUFFICES ASSUME Init PROVE HandoffInv
  OBVIOUS
<1>1. \A c \in Candidate : cand[c].taken = {}
  BY DEF Init, Blank
<1>2. TakenProofs = {}
  BY <1>1, TakenMeans
<1> QED
  BY <1>1, <1>2, InitType
  DEF Init, Idle, Ruling, HandoffInv, RequestsInv, AppliesInv, TakenInv, MessagesInv, ShapeInv,
      FatesInv, LockInv, Committed

LEMMA HandoffInvStep == HandoffInv /\ [Next]_vars => HandoffInv'
BY TypeStep, RequestsStep, AppliesStep, TakenStep, MessagesStep, LockStep, ShapeStep, FatesStep
DEF HandoffInv

LEMMA HandoffInvHolds == Spec => []HandoffInv
BY HandoffInvInit, HandoffInvStep, PTL DEF Spec

-----------------------------------------------------------------------------
(* Every step is a step of LineageAuthority or changes nothing there. *)
LEMMA AbstractInit == Init => Authority!Init
<1> SUFFICES ASSUME Init PROVE Authority!Init
  OBVIOUS
<1>1. \A c \in Candidate : cand[c].taken = {}
  BY DEF Init, Blank
<1>2. Taken = {}
  BY <1>1, TakenMeans
<1>3. Committed = Ruling
  BY DEF Init, Committed
<1> QED
  BY <1>2, <1>3 DEF Init, Ruling, Taken, Authority!Init

LEMMA TakeStep ==
    ASSUME HandoffInv, NEW a \in applies, ApplyEnd(a), Quiet
    PROVE  [Authority!Next]_(Authority!vars)
<1> USE DEF HandoffInv
<1> DEFINE x == a.cert
           d == x.nonce.candidate
<1>1. CASE ~MayTake(x)
  <2>1. UNCHANGED TakenProofs
    BY <1>1 DEF ApplyEnd, TakenProofs
  <2> QED
    BY <2>1 DEF Quiet, Authority!vars
<1>2. CASE MayTake(x)
  <2>1. x \in Cert /\ d \in Candidate /\ x \in bundles
    BY DEF TypeOK, Cert, Nonce, AppliesInv
  <2>2. cand[d].taken = {} /\ x.nonce \notin cand[d].declined
    BY <1>2 DEF MayTake, MayApply
  <2>3. now < AbortableAt(x)
    BY <2>1, TimeAssumption, GraceAssumption
    DEF AppliesInv, TypeOK, Cert, AbortableAt, Expires
  <2>4. x \notin lapsed
    BY <2>1, <2>3, TimeAssumption DEF FatesInv, TypeOK, AbortableAt, Expires, Cert
  <2>5. x \notin refused
    BY <2>2 DEF FatesInv, MessagesInv
  <2>6. x \notin Taken
    BY <2>2, TakenMeans DEF TakenInv
  <2>7. Committed.status = "activating_successor" /\ Committed.pending = {x}
        /\ Committed.successor = {}
    BY <2>1, <2>4, <2>5, <2>6 DEF FatesInv, ShapeInv
  <2>8. Taken' = Taken \cup {x}
    <3>1. /\ cand'[d].taken = {[cert |-> x, at |-> a.at]}
          /\ \A c \in Candidate : c # d => cand'[c] = cand[c]
      BY <1>2, <2>1 DEF ApplyEnd, TypeOK
    <3> HIDE DEF d, x
    <3>2. \A y : (\E p \in cand'[d].taken : y = p.cert) <=> y = x
      BY <3>1
    <3>3. ~ \E p \in cand[d].taken : TRUE
      BY <2>2
    <3>4. ASSUME NEW y PROVE y \in Taken' <=> y \in Taken \/ y = x
      <4>1. y \in Taken' <=>
              y = x \/ \E c \in Candidate : c # d /\ \E p \in cand'[c].taken : y = p.cert
        BY <2>1, <3>2, TakenMeansNext
      <4>2. y \in Taken <=> \E c \in Candidate : c # d /\ \E p \in cand[c].taken : y = p.cert
        BY <3>3, TakenMeans
      <4> QED
        BY <3>1, <4>1, <4>2
    <3> QED
      BY <3>4
  <2>9. x \in [nonce: Nonce, issued: 0..MaxIssue]
    BY <2>1 DEF RequestsInv, Cert
  <2>10. Authority!Take(x)
    BY <2>7, <2>8 DEF Authority!Take, Taken, Quiet
  <2> QED
    BY <2>9, <2>10 DEF Authority!Next
<1> QED
  BY <1>1, <1>2

LEMMA EndsStep ==
    ASSUME HandoffInv, [Next]_vars, Ends
    PROVE  [Authority!Next]_(Authority!vars)
<1> USE DEF HandoffInv
<1> USE DEF EndOf
<1>1. PICK x \in Cert : EndOf(x)
  BY EndsByOperation
<1>2. Taken' = Taken
  BY <1>1 DEF Taken, TakenProofs
<1>3. x \in [nonce: Nonce, issued: 0..MaxIssue]
  BY <1>1 DEF RequestsInv, Cert
<1>4. saved \in Governance /\ gov \in Governance
  BY DEF TypeOK, Governance
<1>5. CASE Completing(x) /\ latest' = {x} /\ UNCHANGED <<lapsed, refused>>
  <2>1. x \notin Taken
    BY <1>5, TakenMeans DEF TakenInv, Completing
  <2>2. Authority!Certify(x)
    BY <1>1, <1>2, <1>4, <1>5, <2>1
    DEF Authority!Certify, Completing, ShapeInv, Taken, Governance
  <2> QED
    BY <1>3, <2>2 DEF Authority!Next
<1>6. CASE Recording(x) /\ UNCHANGED <<latest, lapsed, refused>>
  <2>1. CASE saved.status = "activating_successor"
    <3>1. UNCHANGED Authority!vars
      BY <1>1, <1>2, <1>4, <1>6, <2>1
      DEF Authority!vars, Recording, Taken, Governance
    <3> QED
      BY <3>1
  <2>2. CASE saved.status = "active"
    <3>1. Authority!Reopen(x)
      BY <1>1, <1>2, <1>4, <1>6, <2>2
      DEF Authority!Reopen, Recording, ShapeInv, Taken, Governance
    <3> QED
      BY <1>3, <3>1 DEF Authority!Next
  <2> QED
    BY <1>6, <2>1, <2>2 DEF Recording
<1>7. CASE Retiring(x) /\ UNCHANGED <<latest, lapsed, refused>>
  <2>1. Authority!Pass(x)
    BY <1>1, <1>2, <1>4, <1>7
    DEF Authority!Pass, Retiring, ShapeInv, Taken, Governance
  <2> QED
    BY <1>3, <2>1 DEF Authority!Next
<1>8. CASE Aborting(x) /\ lock.op = "decline" /\ refused' = refused \cup {x}
           /\ UNCHANGED <<latest, lapsed>>
  <2>1. x \notin Taken
    BY <1>8, TakenMeans DEF TakenInv, MessagesInv, Aborting
  <2>2. Authority!Decline(x)
    BY <1>1, <1>2, <1>4, <1>8, <2>1
    DEF Authority!Decline, Aborting, ShapeInv, Taken, Governance
  <2> QED
    BY <1>3, <2>2 DEF Authority!Next
<1>9. CASE Aborting(x) /\ lock.op = "expire" /\ lapsed' = lapsed \cup {x}
           /\ UNCHANGED <<latest, refused>>
  <2>1. Authority!Expire(x)
    BY <1>1, <1>2, <1>4, <1>9
    DEF Authority!Expire, Aborting, ShapeInv, Taken, Governance
  <2> QED
    BY <1>3, <2>1 DEF Authority!Next
<1> QED
  BY <1>1, <1>5, <1>6, <1>7, <1>8, <1>9

LEMMA AbstractStep ==
    HandoffInv /\ [Next]_vars => [Authority!Next]_(Authority!vars)
<1> SUFFICES ASSUME HandoffInv, [Next]_vars PROVE [Authority!Next]_(Authority!vars)
  OBVIOUS
<1>1. CASE Ends
  BY <1>1, EndsStep
<1>2. CASE Quiet /\ \E a \in applies : ApplyEnd(a)
  BY <1>2, TakeStep
<1>3. CASE Quiet /\ ~ \E a \in applies : ApplyEnd(a)
  <2>1. ASSUME NEW n \in Nonce, Ready(n) \/ Decline(n)
        PROVE  \A c \in Candidate : cand'[c].taken = cand[c].taken
    BY <2>1 DEF Ready, Decline, HandoffInv, TypeOK
  <2>2. ASSUME NEW d \in Candidate, CandidateLost(d)
        PROVE  \A c \in Candidate : cand'[c].taken = cand[c].taken
    BY <2>2 DEF CandidateLost, HandoffInv, TypeOK
  <2>3. \A c \in Candidate : cand'[c].taken = cand[c].taken
    BY <1>3, <2>1, <2>2
    DEF Next, vars, candidates, CommitDone, CommitFailed, Recover, Tick, Offer, CompleteStart,
        Complete, FinalizeStart, Record, Reopen, Retire, AbortDeclined, AbortExpired, ApplyStart,
        ServeProof, Commit
  <2>4. TakenProofs' = TakenProofs
    BY <2>3, TakenMeans, TakenMeansNext
  <2> QED
    BY <1>3, <2>4 DEF Quiet, Authority!vars
<1> QED
  BY <1>1, <1>2, <1>3, QuietOrEnds DEF HandoffInv

(* The handoff implements LineageAuthority: with requests repeated,        *)
(* delayed and run side by side, commits undone, answers lost, candidates  *)
(* that die or whose clocks are behind, and restarts of the predecessor,   *)
(* who governs changes only as completeActivation, applyActivationBundle,  *)
(* finalizeActivation and abortActivation promise.                         *)
THEOREM HandoffImplementsAuthority == Spec => ImplementsAuthority
<1>1. Spec => Authority!Init /\ [][Authority!Next]_(Authority!vars)
  BY AbstractInit, AbstractStep, HandoffInvHolds, PTL DEF Spec
<1> QED
  BY <1>1 DEF ImplementsAuthority, Authority!Spec

-----------------------------------------------------------------------------
LEMMA ProvedStep ==
    ASSUME HandoffInv, [Next]_vars, Committed.proved
    PROVE  \/ Committed'.proved /\ Committed'.pending = Committed.pending
           \/ Committed'.successor = Committed.pending
<1>1. CASE Quiet
  BY <1>1 DEF Quiet
<1>2. CASE Ends
  <2>1. PICK x \in Cert :
          /\ Committed = saved /\ Committed' = gov
          /\ Completing(x) \/ Recording(x) \/ Retiring(x) \/ Aborting(x)
    BY <1>2, EndsByOperation DEF EndOf
  <2>2. saved \in Governance /\ gov \in Governance
    BY DEF HandoffInv, TypeOK, Governance
  <2>3. saved.status = "activating_successor"
    BY <2>1 DEF HandoffInv, ShapeInv
  <2> QED
    BY <2>1, <2>2, <2>3 DEF Completing, Recording, Retiring, Aborting, Governance
<1> QED
  BY <1>1, <1>2, QuietOrEnds DEF HandoffInv

(* The consequence that matters most: a candidate that applied its bundle  *)
(* (applyActivationBundle) is the one the predecessor offers to or retired *)
(* for, or one whose certificate was taken back on expiry (abortActivation *)
(* after the grace), never on a decline.                                   *)
THEOREM HandoffForksOnlyByExpiry ==
    Spec => [](Taken \subseteq Committed.pending \cup Committed.successor \cup lapsed)
<1>1. HandoffInv => Taken \subseteq Committed.pending \cup Committed.successor \cup lapsed
  <2> SUFFICES ASSUME HandoffInv, NEW x \in Taken
               PROVE  x \in Committed.pending \cup Committed.successor \cup lapsed
    OBVIOUS
  <2>1. x \in bundles /\ x.nonce \notin cand[x.nonce.candidate].declined
    BY TakenMeans DEF HandoffInv, TakenInv
  <2>2. x \notin refused
    BY <2>1 DEF HandoffInv, FatesInv, MessagesInv
  <2> QED
    BY <2>1, <2>2 DEF HandoffInv, FatesInv
<1> QED
  BY <1>1, HandoffInvHolds, PTL

(* Once the successor's recorded proof is committed (finalizeActivation),  *)
(* no abort, restart or second request takes the handoff back: the         *)
(* predecessor keeps that certificate until it retires for it.             *)
THEOREM ProofIsNeverAborted == Spec => ProofNeverAborted
<1>1. HandoffInv /\ [Next]_vars =>
        [Committed.proved =>
           \/ Committed'.proved /\ Committed'.pending = Committed.pending
           \/ Committed'.successor = Committed.pending]_vars
  BY ProvedStep
<1> QED
  BY <1>1, HandoffInvHolds, PTL DEF Spec, ProofNeverAborted

(* A successor that applied the last certificate can be finalized by its   *)
(* proof: finalizeActivation finds the certificate pending or expired, and *)
(* the proof's time within its validity, if no candidate's clock is        *)
(* further behind than PROVED_AT_SKEW_MS.                                  *)
THEOREM AppliesStayFinalizable ==
    ASSUME Lag <= ProvedSkew
    PROVE  Spec => []AppliedStaysFinalizable
<1>1. HandoffInv => AppliedStaysFinalizable
  <2> SUFFICES ASSUME HandoffInv, NEW p \in TakenProofs, {p.cert} = latest
               PROVE  /\ {p.cert} \in {Committed.pending, Committed.expired, Committed.successor}
                      /\ InTime(p)
    BY DEF AppliedStaysFinalizable
  <2>1. PICK c \in Candidate : p \in cand[c].taken
    BY TakenMeans
  <2>2. p \in Proof /\ p.cert.nonce \notin cand[p.cert.nonce.candidate].declined
        /\ p.cert.issued - Lag <= p.at /\ p.at < Expires(p.cert)
    BY <2>1 DEF HandoffInv, TypeOK, TakenInv
  <2>3. p.cert \notin refused
    BY <2>2 DEF HandoffInv, FatesInv, MessagesInv
  <2>4. p.cert \in latest
    OBVIOUS
  <2>5. {p.cert} \in {Committed.pending, Committed.expired, Committed.successor}
    BY <2>3, <2>4 DEF HandoffInv, FatesInv
  <2>6. InTime(p)
    BY <2>2, TimeAssumption DEF InTime, Expires, Proof, Cert
  <2> QED
    BY <2>5, <2>6
<1> QED
  BY <1>1, HandoffInvHolds, PTL
=============================================================================
