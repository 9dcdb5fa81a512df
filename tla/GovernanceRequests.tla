------------------------- MODULE GovernanceRequests -------------------------
(***************************************************************************)
(* The requests for a preapproval (src/src/governance-routes.js): a caller *)
(* asks for a challenge bound to what it will request, and answers it with *)
(* the request.  Sliding windows limit both kinds of request; a request is *)
(* admitted before its body is read.  The review takes minutes, and the    *)
(* certificate is issued by governance-state.js in a commit.               *)
(* Times are ages moved by RequestsTick.                                   *)
(***************************************************************************)
EXTENDS Naturals, Sequences, FiniteSets, SequencesExt

CONSTANTS
    Caller,      \* OIDC subjects
    MaxDrawn,    \* bound on the challenges of a behaviour
    Digest,      \* what is requested: digests of requests
    Request,     \* preapproval requests under way at once
    Limit,       \* AUTHENTICATED_RATE_LIMITS: windows and maxima by profile
    Ttl,         \* CHALLENGE_TTL_MS
    MaxRecords,  \* CHALLENGE_MAX_RECORDS
    BodyTime     \* the server's limit on how long a request may take to come

Profile == {"challenge", "gemini"}

(* The limits of the code: the challenges a caller may ask for in a window *)
(* cover what can live at once, and so many callers there are.             *)
ASSUME LimitAssumption ==
    /\ Limit \in [Profile -> [window : Nat \ {0}, max : Nat \ {0}]]
    /\ {Ttl, MaxRecords, MaxDrawn} \subseteq Nat \ {0}
    /\ BodyTime \in Nat
    /\ "none" \notin Request
ASSUME CapacityAssumption ==
    /\ Ttl + BodyTime <= Limit["challenge"].window
    /\ IsFiniteSet(Caller)
    /\ Cardinality(Caller) * Limit["challenge"].max <= MaxRecords

VARIABLES
    governance, \* "active" or "activating_successor"
    buckets,    \* authenticatedRateBuckets: the admitted, numbered, and their ages
    asking,     \* the admitted requests for a challenge whose body is on its way
    challenges, \* governanceChallenges: each is named by its nonce
    drawn,      \* how many nonces were drawn: a nonce is its number
    requests,   \* the preapproval requests under way
    commit,     \* the request whose commit waits for the custodian, or "none"
    latestPreapproval, \* the nonce it answers, 0 if none
    previous,   \* what the commit restores if it is not acknowledged
    issued      \* history: nonces of the certificates released, in order

requestVars == <<governance, buckets, asking, challenges, drawn, requests,
                 commit, latestPreapproval, previous, issued>>

NoRequest == [at |-> "idle"]

RequestsInit ==
    /\ governance = "active"
    /\ buckets = [c \in Caller |-> [p \in Profile |-> {}]]
    /\ asking = {}
    /\ challenges = {}
    /\ drawn = 0
    /\ requests = [r \in Request |-> NoRequest]
    /\ commit = "none"
    /\ latestPreapproval = 0
    /\ previous = 0
    /\ issued = <<>>

(* consumeRateLimit: the admissions the window still holds... *)
Recent(c, p) == {a \in buckets[c][p] : a.age < Limit[p].window}

(* A new admission has a number that none of them has. *)
Admission(c, p) ==
    [number |-> CHOOSE n \in 0..Cardinality(Recent(c, p)) :
                    \A a \in Recent(c, p) : a.number # n,
     age |-> 0]

(* Mutant: one request too many is admitted. *)
AdmittedOneMore(c, p) ==
    /\ Cardinality(Recent(c, p)) <= Limit[p].max
    /\ buckets' = [buckets EXCEPT ![c][p] = Recent(c, p) \union {Admission(c, p)}]

(* ...one more if it has room, none for a request that is denied. *)
Admitted(c, p) ==
    /\ Cardinality(Recent(c, p)) < Limit[p].max
    /\ buckets' = [buckets EXCEPT ![c][p] = Recent(c, p) \union {Admission(c, p)}]

(* handleGovernanceChallenge, until the body is awaited. *)
ChallengeAdmitted(c) ==
    /\ Admitted(c, "challenge")
    /\ asking' = asking \union
          {[caller |-> c, number |-> Admission(c, "challenge").number, age |-> 0]}
    /\ UNCHANGED <<governance, challenges, drawn, requests, commit, latestPreapproval,
                   previous, issued>>

ChallengeAborted(a) ==
    /\ asking' = asking \ {a}
    /\ UNCHANGED <<governance, buckets, challenges, drawn, requests, commit,
                   latestPreapproval, previous, issued>>

(* pruneGovernanceChallenges *)
Unexpired == {c \in challenges : c.age < Ttl}

(* Nonces are numbered as they are drawn. *)
Oldest(records) == {c \in records : \A d \in records : c.nonce <= d.nonce}

(* Mutant: one record fewer is kept. *)
TrimmedShort(records) ==
    IF Cardinality(records) >= MaxRecords THEN records \ Oldest(records) ELSE records

(* trimGovernanceChallengeRecords: the first of the map goes. *)
Trimmed(records) ==
    IF Cardinality(records) > MaxRecords THEN records \ Oldest(records) ELSE records

(* createGovernanceChallenge *)
ChallengeGiven(a, d) ==
    /\ drawn < MaxDrawn
    /\ drawn' = drawn + 1
    /\ challenges' = Trimmed(Unexpired \union
          {[nonce |-> drawn', caller |-> a.caller, digest |-> d, age |-> 0]})
    /\ asking' = asking \ {a}
    /\ UNCHANGED <<governance, buckets, requests, commit, latestPreapproval, previous, issued>>

(* handleGovernancePreapproval, until the body is awaited. *)
PreapprovalAdmitted(r, c) ==
    /\ requests[r] = NoRequest
    /\ Admitted(c, "gemini")
    /\ requests' = [requests EXCEPT ![r] = [at |-> "reading", caller |-> c]]
    /\ UNCHANGED <<governance, asking, challenges, drawn, commit, latestPreapproval,
                   previous, issued>>

Without(n) == {c \in challenges : c.nonce # n}

(* Mutant: the record is deleted when the certificate is released. *)
ConsumedLate(n) == challenges

Consumed(n) == Without(n)

(* consumeGovernanceChallenge: the record exists, has not expired, and is  *)
(* for this caller and this request.                                       *)
ChallengeAnswered(r, n, d) ==
    /\ requests[r].at = "reading"
    /\ \E c \in challenges :
          /\ c.nonce = n
          /\ c.age < Ttl
          /\ c.caller = requests[r].caller
          /\ c.digest = d
    /\ challenges' = Consumed(n)
    /\ requests' = [requests EXCEPT ![r] =
          [at |-> "reviewing", nonce |-> n, digest |-> d]]
    /\ UNCHANGED <<governance, buckets, asking, drawn, commit, latestPreapproval,
                   previous, issued>>

(* An expired record is deleted; one for another caller or request stays. *)
ChallengeRefused(r, n, d) ==
    /\ requests[r].at = "reading"
    /\ \/ /\ \A c \in challenges : c.nonce = n => c.age >= Ttl
          /\ challenges' = Without(n)
       \/ /\ \E c \in challenges :
                /\ c.nonce = n
                /\ c.age < Ttl
                /\ c.caller # requests[r].caller \/ c.digest # d
          /\ UNCHANGED challenges
    /\ requests' = [requests EXCEPT ![r] = NoRequest]
    /\ UNCHANGED <<governance, buckets, asking, drawn, commit, latestPreapproval,
                   previous, issued>>

(* The body does not come, the evidence or the model says no, or a call to *)
(* them fails.                                                             *)
PreapprovalRefused(r) ==
    /\ requests[r].at \in {"reading", "reviewing"}
    /\ requests' = [requests EXCEPT ![r] = NoRequest]
    /\ UNCHANGED <<governance, buckets, asking, challenges, drawn, commit,
                   latestPreapproval, previous, issued>>

(* issuePreapprovalCertificate signs while governance is active; whether   *)
(* it still is is not looked at when the commit gets the lock.             *)
PreapprovalSigned(r) ==
    /\ requests[r].at = "reviewing"
    /\ governance = "active"
    /\ requests' = [requests EXCEPT ![r].at = "signed"]
    /\ UNCHANGED <<governance, buckets, asking, challenges, drawn, commit,
                   latestPreapproval, previous, issued>>

PreapprovalCommits(r) ==
    /\ requests[r].at = "signed"
    /\ commit = "none"
    /\ commit' = r
    /\ previous' = latestPreapproval
    /\ latestPreapproval' = requests[r].nonce
    /\ UNCHANGED <<governance, buckets, asking, challenges, drawn, requests, issued>>

(* The custodian acknowledges: the certificate is released. *)
PreapprovalReleased(r) ==
    /\ commit = r
    /\ commit' = "none"
    /\ previous' = 0
    /\ issued' = Append(issued, requests[r].nonce)
    /\ requests' = [requests EXCEPT ![r] = NoRequest]
    /\ UNCHANGED <<governance, buckets, asking, challenges, drawn, latestPreapproval>>

(* Mutant: what was before is not restored. *)
PreapprovalUndoneNot(r) ==
    /\ commit = r
    /\ commit' = "none"
    /\ previous' = 0
    /\ requests' = [requests EXCEPT ![r] = NoRequest]
    /\ UNCHANGED <<governance, buckets, asking, challenges, drawn, latestPreapproval, issued>>

PreapprovalUndone(r) ==
    /\ commit = r
    /\ commit' = "none"
    /\ latestPreapproval' = previous
    /\ previous' = 0
    /\ requests' = [requests EXCEPT ![r] = NoRequest]
    /\ UNCHANGED <<governance, buckets, asking, challenges, drawn, issued>>

(* A handoff begins, or is given up. *)
HandoffMoves ==
    /\ commit = "none"
    /\ governance' = IF governance = "active" THEN "activating_successor" ELSE "active"
    /\ UNCHANGED <<buckets, asking, challenges, drawn, requests, commit, latestPreapproval,
                   previous, issued>>

Capped(n, max) == IF n < max THEN n ELSE max

(* A body comes within the server's time.  Ages count up to the window's.  *)
RequestsTick ==
    /\ \A a \in asking : a.age < BodyTime
    /\ asking' = {[a EXCEPT !.age = @ + 1] : a \in asking}
    /\ buckets' = [c \in Caller |-> [p \in Profile |->
          {[a EXCEPT !.age = Capped(@ + 1, Limit[p].window)] : a \in buckets[c][p]}]]
    /\ challenges' = {[c EXCEPT !.age = Capped(@ + 1, Ttl)] : c \in challenges}
    /\ UNCHANGED <<governance, drawn, requests, commit, latestPreapproval, previous, issued>>

RequestsNext ==
    \/ \E c \in Caller : ChallengeAdmitted(c)
    \/ \E a \in asking :
          ChallengeAborted(a) \/ \E d \in Digest : ChallengeGiven(a, d)
    \/ \E r \in Request :
          \/ \E c \in Caller : PreapprovalAdmitted(r, c)
          \/ \E n \in 1..drawn, d \in Digest :
                ChallengeAnswered(r, n, d) \/ ChallengeRefused(r, n, d)
          \/ PreapprovalRefused(r) \/ PreapprovalSigned(r)
          \/ PreapprovalCommits(r) \/ PreapprovalReleased(r) \/ PreapprovalUndone(r)
    \/ HandoffMoves
    \/ RequestsTick

RequestsSpec == RequestsInit /\ [][RequestsNext]_requestVars

-----------------------------------------------------------------------------
(* The values of the state. *)
RequestsTypeOK ==
    /\ governance \in {"active", "activating_successor"}
    /\ \A c \in Caller, p \in Profile : Cardinality(buckets[c][p]) <= Limit[p].max
    /\ Cardinality(challenges) <= MaxRecords
    /\ {c.nonce : c \in challenges} \subseteq 1..drawn
    /\ \A r \in Request :
          requests[r].at \in {"idle", "reading", "reviewing", "signed"}
    /\ commit \in Request \union {"none"}
    /\ {latestPreapproval, previous} \subseteq 0..drawn

Answering(r) == requests[r].at \in {"reviewing", "signed"}

(* A challenge is answered once: no two requests are reviewed for one      *)
(* nonce, and none for a nonce whose certificate was released, however the *)
(* requests and their awaits overlap (it is deleted before the first one). *)
OneApprovalPerChallenge ==
    /\ \A r, s \in Request : r # s /\ Answering(r) /\ Answering(s) =>
          requests[r].nonce # requests[s].nonce
    /\ \A i, j \in 1..Len(issued) : i # j => issued[i] # issued[j]
    /\ \A r \in Request, i \in 1..Len(issued) :
          Answering(r) => requests[r].nonce # issued[i]

(* A challenge a caller was given stays answerable until it expires: the   *)
(* limit on records never evicts a live one, because the callers' rate     *)
(* limits, delayed bodies included, do not let so many live at once.       *)
LiveChallengeKept ==
    [][\A c \in challenges :
          c.age < Ttl =>
              \/ \E d \in challenges' : d.nonce = c.nonce
              \/ \E r \in Request :
                    /\ Answering(r)'
                    /\ requests'[r].nonce = c.nonce]_requestVars

(* Between commits the latest preapproval is the last one released: one    *)
(* that its custodian did not acknowledge is forgotten.                    *)
LatestWasReleased ==
    commit = "none" =>
        latestPreapproval = IF issued = <<>> THEN 0 ELSE Last(issued)
=============================================================================
