-------------------------- MODULE GovernanceProofs --------------------------
(***************************************************************************)
(* The offices of the lineage, genesis and the requests for a preapproval. *)
(***************************************************************************)
EXTENDS LineageAuthority, Genesis, GovernanceRequests, SequenceTheorems, Counting

-----------------------------------------------------------------------------
(* LineageAuthority: for every set of certificates, and so for every       *)
(* implementation of it.                                                   *)

(* While the office is held nothing is offered; an offer was not refused. *)
IInv ==
    /\ office = "held" => offer = {}
    /\ offer \cap refused = {}
    /\ ForkOnlyByExpiry
    /\ DeclinedNeverTakes
    /\ PassedToTaker

(* Every step keeps the invariant. *)
LEMMA InvStep == IInv /\ [Next]_vars => IInv'
<1> SUFFICES ASSUME IInv, [Next]_vars PROVE IInv'
  OBVIOUS
<1> USE DEF IInv, ForkOnlyByExpiry, DeclinedNeverTakes, PassedToTaker
<1>1. ASSUME NEW x \in Certificate, Certify(x)
      PROVE  IInv'
  BY <1>1 DEF Certify
<1>2. ASSUME NEW x \in Certificate, Take(x)
      PROVE  IInv'
  BY <1>2 DEF Take
<1>3. ASSUME NEW x \in Certificate, Decline(x)
      PROVE  IInv'
  <2>1. taken \subseteq lapsed
    BY <1>3 DEF Decline
  <2> QED
    BY <1>3, <2>1 DEF Decline
<1>4. ASSUME NEW x \in Certificate, Expire(x)
      PROVE  IInv'
  BY <1>4 DEF Expire
<1>5. ASSUME NEW x \in Certificate, Reopen(x)
      PROVE  IInv'
  BY <1>5 DEF Reopen
<1>6. ASSUME NEW x \in Certificate, Pass(x)
      PROVE  IInv'
  BY <1>6 DEF Pass
<1>7. CASE UNCHANGED vars
  BY <1>7 DEF vars
<1>8. QED
  BY <1>1, <1>2, <1>3, <1>4, <1>5, <1>6, <1>7 DEF Next

(* The invariant holds of every behaviour. *)
LEMMA InvHolds == Spec => []IInv
<1>1. Init => IInv
  BY DEF Init, IInv, ForkOnlyByExpiry, DeclinedNeverTakes, PassedToTaker
<1>2. QED
  BY <1>1, InvStep, PTL DEF Spec

(* Only an offer taken back on expiry leaves a second authority behind: a  *)
(* candidate that took office is the one offered it, or one that lapsed.   *)
THEOREM OnlyExpiryForks == Spec => []ForkOnlyByExpiry
<1>1. IInv => ForkOnlyByExpiry
  BY DEF IInv
<1>2. QED
  BY <1>1, InvHolds, PTL

(* A candidate whose decline took the offer back never takes office. *)
THEOREM DeclineIsFinal == Spec => []DeclinedNeverTakes
<1>1. IInv => DeclinedNeverTakes
  BY DEF IInv
<1>2. QED
  BY <1>1, InvHolds, PTL

(* The predecessor retires only in favour of a candidate in office. *)
THEOREM NoVacancy == Spec => []PassedToTaker
<1>1. IInv => PassedToTaker
  BY DEF IInv
<1>2. QED
  BY <1>1, InvHolds, PTL

-----------------------------------------------------------------------------
(* Genesis: for every number of adjudications and requests, every limit on *)
(* records and every lifetime of an approval.                              *)

(* An adjudication this process approved for its own genesis. *)
OwnApproval(a) ==
    /\ a \in Adjudication
    /\ reviews[a].at = "approved"
    /\ reviews[a].own

(* The records name own approvals, a request rests on one of them, and one *)
(* that was signed found it unexpired.                                     *)
RecordsOwn ==
    /\ records \in Seq(Adjudication)
    /\ \A i \in 1..Len(records) : OwnApproval(records[i])

BootsOwn ==
    \A b \in Bootstrap : boots[b] # NoBoot =>
        /\ OwnApproval(boots[b].of)
        /\ boots[b].at = "signed" => boots[b].age < ApprovalTtl

LineageOwn ==
    lineage.by = "genesis" =>
        /\ OwnApproval(lineage.of)
        /\ lineage.age < ApprovalTtl

Shape ==
    /\ reviews = [a \in Adjudication |-> reviews[a]]
    /\ boots = [b \in Bootstrap |-> boots[b]]

GenesisInv == Shape /\ RecordsOwn /\ BootsOwn /\ LineageOwn

-----------------------------------------------------------------------------
(* What is recorded is what was, with one more, and perhaps one fewer. *)
LEMMA RecordedOwn ==
    ASSUME records \in Seq(Adjudication), NEW a \in Adjudication
    PROVE  /\ Recorded(a) \in Seq(Adjudication)
           /\ \A i \in 1..Len(Recorded(a)) :
                 \/ Recorded(a)[i] = a
                 \/ \E j \in 1..Len(records) : Recorded(a)[i] = records[j]
<1> DEFINE all == Append(records, a)
<1>1. /\ all \in Seq(Adjudication) /\ Len(all) = Len(records) + 1
      /\ \A i \in 1..Len(all) : all[i] = IF i = Len(all) THEN a ELSE records[i]
  BY AppendProperties
<1>2. CASE Len(all) > RecordLimit
  <2>1. all # << >>
    BY <1>1
  <2>2. /\ Tail(all) \in Seq(Adjudication) /\ Len(Tail(all)) = Len(all) - 1
        /\ \A i \in 1..Len(Tail(all)) : Tail(all)[i] = all[i + 1]
    BY <1>1, <2>1, HeadTailProperties
  <2>3. Recorded(a) = Tail(all)
    BY <1>2 DEF Recorded
  <2> QED
    BY <1>1, <2>2, <2>3
<1>3. CASE ~(Len(all) > RecordLimit)
  BY <1>1, <1>3 DEF Recorded
<1> QED
  BY <1>2, <1>3

(* No step undoes an own approval. *)
LEMMA ApprovalsStay ==
    ASSUME Shape, [GenesisNext]_genesisVars, NEW a, OwnApproval(a)
    PROVE  OwnApproval(a)'
<1> USE DEF OwnApproval, Shape
<1>1. CASE \E x \in Adjudication :
              AdjudicateBegins(x) \/ AdjudicateApproves(x) \/ AdjudicateRefuses(x)
  BY <1>1 DEF AdjudicateBegins, AdjudicateApproves, AdjudicateRefuses
<1>2. CASE UNCHANGED reviews
  BY <1>2
<1>3. CASE GenesisTick
  BY <1>3 DEF GenesisTick
<1> QED
  BY <1>1, <1>2, <1>3 DEF GenesisNext, genesisVars, BootstrapBegins, BootstrapSigns,
     BootstrapFails, BootstrapCommits, BootstrapTooLate, ApplyCommits, TakeCustody

LEMMA GenesisInvStep == GenesisInv /\ [GenesisNext]_genesisVars => GenesisInv'
<1> SUFFICES ASSUME GenesisInv, [GenesisNext]_genesisVars PROVE GenesisInv'
  OBVIOUS
<1> USE DEF GenesisInv
<1>0. \A a : OwnApproval(a) => OwnApproval(a)'
  BY ApprovalsStay
<1>1. ASSUME NEW a \in Adjudication, AdjudicateApproves(a)
      PROVE  GenesisInv'
  <2>1. Shape' /\ BootsOwn' /\ LineageOwn'
    BY <1>0, <1>1 DEF AdjudicateApproves, Shape, BootsOwn, LineageOwn
  <2>2. CASE reviews[a].own /\ FreshInactive
    <3>1. OwnApproval(a)'
      BY <1>1, <2>2 DEF AdjudicateApproves, OwnApproval, Shape
    <3>2. records' = Recorded(a)
      BY <1>1, <2>2 DEF AdjudicateApproves
    <3> QED
      BY <1>0, <2>1, <3>1, <3>2, RecordedOwn DEF RecordsOwn
  <2>3. CASE ~(reviews[a].own /\ FreshInactive)
    BY <1>0, <1>1, <2>1, <2>3 DEF AdjudicateApproves, RecordsOwn
  <2> QED
    BY <2>2, <2>3
<1>2. ASSUME NEW a \in Adjudication, AdjudicateBegins(a) \/ AdjudicateRefuses(a)
      PROVE  GenesisInv'
  BY <1>0, <1>2 DEF AdjudicateBegins, AdjudicateRefuses, Shape, RecordsOwn, BootsOwn,
     LineageOwn
<1>3. ASSUME NEW b \in Bootstrap, NEW a \in Adjudication, BootstrapBegins(b, a)
      PROVE  GenesisInv'
  <2>1. OwnApproval(a)
    BY <1>3 DEF BootstrapBegins, RecordsOwn
  <2>2. Shape' /\ RecordsOwn' /\ LineageOwn'
    BY <1>0, <1>3 DEF BootstrapBegins, Shape, RecordsOwn, LineageOwn
  <2>3. BootsOwn'
    BY <1>0, <1>3, <2>1 DEF BootstrapBegins, Shape, BootsOwn
  <2> QED
    BY <2>2, <2>3
<1>4. ASSUME NEW b \in Bootstrap, BootstrapSigns(b)
      PROVE  GenesisInv'
  <2>1. Shape' /\ RecordsOwn' /\ LineageOwn'
    BY <1>0, <1>4 DEF BootstrapSigns, Shape, RecordsOwn, LineageOwn
  <2>2. BootsOwn'
    BY <1>0, <1>4 DEF BootstrapSigns, Shape, BootsOwn, NoBoot
  <2> QED
    BY <2>1, <2>2
<1>5. ASSUME NEW b \in Bootstrap, BootstrapFails(b) \/ BootstrapTooLate(b)
      PROVE  GenesisInv'
  BY <1>0, <1>5 DEF BootstrapFails, BootstrapTooLate, Shape, RecordsOwn, BootsOwn,
     LineageOwn
<1>6. ASSUME NEW b \in Bootstrap, BootstrapCommits(b)
      PROVE  GenesisInv'
  <2>1. Shape' /\ RecordsOwn' /\ BootsOwn'
    BY <1>0, <1>6 DEF BootstrapCommits, Shape, RecordsOwn, BootsOwn
  <2>2. OwnApproval(boots[b].of) /\ boots[b].age < ApprovalTtl
    BY <1>6 DEF BootstrapCommits, BootsOwn, NoBoot
  <2>3. LineageOwn'
    BY <1>0, <1>6, <2>2 DEF BootstrapCommits, LineageOwn
  <2> QED
    BY <2>1, <2>3
<1>7. CASE ApplyCommits \/ TakeCustody
  BY <1>0, <1>7 DEF ApplyCommits, TakeCustody, Shape, RecordsOwn, BootsOwn, LineageOwn
<1>8. CASE GenesisTick \/ UNCHANGED genesisVars
  BY <1>0, <1>8 DEF GenesisTick, genesisVars, Shape, RecordsOwn, BootsOwn, LineageOwn
<1> QED
  BY <1>1, <1>2, <1>3, <1>4, <1>5, <1>6, <1>7, <1>8 DEF GenesisNext

LEMMA GenesisInvHolds == GenesisSpec => []GenesisInv
<1>1. GenesisInit => GenesisInv
  BY DEF GenesisInit, GenesisInv, Shape, RecordsOwn, BootsOwn, LineageOwn, NoLineage
<1> QED
  BY <1>1, GenesisInvStep, PTL DEF GenesisSpec

-----------------------------------------------------------------------------
(* A genesis rests on an adjudication this process made for its own        *)
(* genesis and that had not expired (bootstrapGenesisFromAttestedApproval).*)
THEOREM GenesisIsOwn == GenesisSpec => []GenesisFromOwnReview
<1>1. GenesisInv => GenesisFromOwnReview
  BY DEF GenesisInv, LineageOwn, OwnApproval, GenesisFromOwnReview
<1> QED
  BY <1>1, GenesisInvHolds, PTL

(* Of a genesis, a handoff and a custody that race for one replica, the    *)
(* first keeps it.                                                         *)
THEOREM OriginIsKept == GenesisSpec => OneOrigin
<1>1. [GenesisNext]_genesisVars => [lineage # NoLineage => lineage' = lineage]_genesisVars
  BY DEF GenesisNext, genesisVars, FreshInactive, AdjudicateBegins, AdjudicateApproves,
     AdjudicateRefuses, BootstrapBegins, BootstrapSigns, BootstrapFails, BootstrapCommits,
     BootstrapTooLate, ApplyCommits, TakeCustody, GenesisTick
<1> QED
  BY <1>1, PTL DEF GenesisSpec, OneOrigin

-----------------------------------------------------------------------------
(* GovernanceRequests: for every number of callers, requests and digests   *)
(* and whatever the limits and times are.                                  *)

RequestSound(q) ==
    \/ q = NoRequest
    \/ q.at = "reading"
    \/ q \in [at: {"reviewing", "signed"}, nonce: 1..drawn, digest: Digest]

RequestsShape ==
    /\ drawn \in Nat
    /\ requests = [r \in Request |-> requests[r]]
    /\ \A r \in Request : RequestSound(requests[r])
    /\ \A c \in challenges : c.nonce \in 1..drawn
    /\ issued \in Seq(1..drawn)

(* A nonce is drawn once, and it names a challenge, or a request that is   *)
(* under way, or a certificate that was released: never two of them.       *)
NonceInOnePlace ==
    /\ \A c \in challenges, r \in Request :
          Answering(r) => c.nonce # requests[r].nonce
    /\ \A c \in challenges, i \in 1..Len(issued) : c.nonce # issued[i]

LastIssued == IF issued = << >> THEN 0 ELSE issued[Len(issued)]

(* While a commit waits, what it would restore is what was released last. *)
CommitSound ==
    /\ commit \in Request \union {"none"}
    /\ commit = "none" => latestPreapproval = LastIssued
    /\ commit # "none" =>
          /\ requests[commit].at = "signed"
          /\ latestPreapproval = requests[commit].nonce
          /\ previous = LastIssued

RequestsInv ==
    RequestsShape /\ NonceInOnePlace /\ OneApprovalPerChallenge /\ CommitSound

-----------------------------------------------------------------------------
(* What no step of challenges touches. *)
Untouched == UNCHANGED <<requests, commit, latestPreapproval, previous, issued>>

LEMMA TrimmedIsPart ==
    ASSUME NEW S
    PROVE  Trimmed(S) \subseteq S
BY DEF Trimmed, Oldest

LEMMA ChallengesDrop ==
    ASSUME RequestsInv, Untouched, UNCHANGED drawn, challenges' \subseteq challenges
    PROVE  RequestsInv'
BY DEF RequestsInv, RequestsShape, RequestSound, NonceInOnePlace, Answering,
   OneApprovalPerChallenge, CommitSound, LastIssued, Untouched

LEMMA ChallengeGivenKeeps ==
    ASSUME RequestsInv, NEW a, NEW d, ChallengeGiven(a, d)
    PROVE  RequestsInv'
<1> DEFINE new == [nonce |-> drawn + 1, caller |-> a.caller, digest |-> d, age |-> 0]
<1>1. /\ drawn' = drawn + 1
      /\ challenges' \subseteq challenges \union {new}
      /\ Untouched
  BY TrimmedIsPart DEF ChallengeGiven, Unexpired, Untouched
<1>2. 1..drawn \subseteq 1..drawn' /\ drawn + 1 \in 1..drawn' /\ drawn' \in Nat
  BY <1>1 DEF RequestsInv, RequestsShape
<1>3. \A r \in Request : Answering(r) => requests[r].nonce # drawn + 1
  BY DEF RequestsInv, RequestsShape, RequestSound, Answering, NoRequest
<1>4. \A i \in 1..Len(issued) : issued[i] # drawn + 1
  BY DEF RequestsInv, RequestsShape
<1>5. new.nonce = drawn + 1
  OBVIOUS
<1> HIDE DEF new
<1>6. RequestsShape'
  BY <1>1, <1>2, <1>5 DEF RequestsInv, RequestsShape, RequestSound, Untouched
<1>7. NonceInOnePlace'
  BY <1>1, <1>3, <1>4, <1>5 DEF RequestsInv, NonceInOnePlace, Answering, Untouched
<1>8. OneApprovalPerChallenge' /\ CommitSound'
  BY <1>1 DEF RequestsInv, OneApprovalPerChallenge, CommitSound, Answering, LastIssued,
     Untouched
<1> QED
  BY <1>6, <1>7, <1>8 DEF RequestsInv

LEMMA AnsweredKeeps ==
    ASSUME RequestsInv, NEW r \in Request, NEW n \in 1..drawn, NEW d \in Digest,
           ChallengeAnswered(r, n, d)
    PROVE  RequestsInv'
<1>1. PICK c \in challenges : c.nonce = n
  BY DEF ChallengeAnswered
<1>2. /\ challenges' = {x \in challenges : x.nonce # n}
      /\ requests' = [requests EXCEPT ![r] =
            [at |-> "reviewing", nonce |-> n, digest |-> d]]
      /\ requests[r].at = "reading"
      /\ UNCHANGED <<drawn, commit, latestPreapproval, previous, issued>>
  BY DEF ChallengeAnswered, Consumed, Without
<1>3. \A s \in Request : Answering(s) => requests[s].nonce # n
  BY <1>1 DEF RequestsInv, NonceInOnePlace
<1>4. \A i \in 1..Len(issued) : issued[i] # n
  BY <1>1 DEF RequestsInv, NonceInOnePlace
<1>5. /\ requests'[r] = [at |-> "reviewing", nonce |-> n, digest |-> d]
      /\ \A s \in Request \ {r} : requests'[s] = requests[s]
  BY <1>2 DEF RequestsInv, RequestsShape
<1>6. RequestsShape'
  BY <1>2, <1>5 DEF RequestsInv, RequestsShape, RequestSound
<1>7. NonceInOnePlace'
  BY <1>2, <1>5 DEF RequestsInv, NonceInOnePlace, Answering
<1>8. OneApprovalPerChallenge'
  BY <1>2, <1>3, <1>4, <1>5 DEF RequestsInv, OneApprovalPerChallenge, Answering
<1>9. CommitSound'
  BY <1>2, <1>5 DEF RequestsInv, CommitSound, LastIssued
<1> QED
  BY <1>6, <1>7, <1>8, <1>9 DEF RequestsInv

(* A request that ends, or goes on, takes its nonce along. *)
LEMMA RequestMoves ==
    ASSUME RequestsInv, NEW r \in Request, commit # r, NEW q,
           requests' = [requests EXCEPT ![r] = q],
           \/ q = NoRequest
           \/ q.at = "reading"
           \/ requests[r].at = "reviewing" /\ q = [requests[r] EXCEPT !.at = "signed"],
           challenges' \subseteq challenges,
           UNCHANGED <<drawn, commit, latestPreapproval, previous, issued>>
    PROVE  RequestsInv'
<1>1. /\ \A s \in Request \ {r} : requests'[s] = requests[s]
      /\ requests'[r] = q
      /\ requests' = [s \in Request |-> requests'[s]]
  BY DEF RequestsInv, RequestsShape
<1>2. \/ q = NoRequest \/ q.at = "reading"
      \/ /\ Answering(r)
         /\ q.nonce = requests[r].nonce
         /\ q \in [at: {"reviewing", "signed"}, nonce: 1..drawn, digest: Digest]
  <2>1. CASE requests[r].at = "reviewing" /\ q = [requests[r] EXCEPT !.at = "signed"]
    <3>1. requests[r] \in [at: {"reviewing", "signed"}, nonce: 1..drawn, digest: Digest]
      BY <2>1 DEF RequestsInv, RequestsShape, RequestSound, NoRequest
    <3> QED
      BY <2>1, <3>1 DEF Answering
  <2> QED
    BY <2>1
<1>3. RequestSound(q)'
  BY <1>2 DEF RequestSound
<1>4. RequestsShape'
  <2>1. \A s \in Request : RequestSound(requests[s])'
    <3>1. \A s \in Request \ {r} : RequestSound(requests[s])'
      BY <1>1 DEF RequestsInv, RequestsShape, RequestSound
    <3> QED
      BY <1>1, <1>3, <3>1
  <2> QED
    BY <1>1, <2>1 DEF RequestsInv, RequestsShape
<1>5. Answering(r)' => Answering(r) /\ requests'[r].nonce = requests[r].nonce
  BY <1>1, <1>2 DEF Answering, NoRequest
<1>6. NonceInOnePlace'
  BY <1>1, <1>5 DEF RequestsInv, NonceInOnePlace, Answering
<1>7. OneApprovalPerChallenge'
  BY <1>1, <1>5 DEF RequestsInv, OneApprovalPerChallenge, Answering
<1>8. CommitSound'
  BY <1>1 DEF RequestsInv, CommitSound, LastIssued
<1> QED
  BY <1>4, <1>6, <1>7, <1>8 DEF RequestsInv

LEMMA ReleasedKeeps ==
    ASSUME RequestsInv, NEW r \in Request, PreapprovalReleased(r)
    PROVE  RequestsInv'
<1> DEFINE n == requests[r].nonce
<1>1. /\ commit = r /\ commit' = "none"
      /\ issued' = Append(issued, n)
      /\ requests' = [requests EXCEPT ![r] = NoRequest]
      /\ UNCHANGED <<challenges, drawn, latestPreapproval>>
  BY DEF PreapprovalReleased
<1>2. r # "none" /\ requests[r].at = "signed" /\ latestPreapproval = n
  BY <1>1, LimitAssumption DEF RequestsInv, CommitSound
<1>3. Answering(r) /\ n \in 1..drawn
  BY <1>2 DEF RequestsInv, RequestsShape, RequestSound, NoRequest, Answering
<1>4. /\ issued' \in Seq(1..drawn)
      /\ Len(issued') = Len(issued) + 1
      /\ issued'[Len(issued')] = n
      /\ \A i \in 1..Len(issued) : issued'[i] = issued[i]
  BY <1>1, <1>3 DEF RequestsInv, RequestsShape
<1>5. \A i \in 1..Len(issued') : issued'[i] = n \/ i \in 1..Len(issued)
  BY <1>4 DEF RequestsInv, RequestsShape
<1>6. /\ \A s \in Request \ {r} : requests'[s] = requests[s]
      /\ requests'[r] = NoRequest
      /\ ~Answering(r)'
  BY <1>1 DEF RequestsInv, RequestsShape, Answering, NoRequest
<1> HIDE DEF n
<1>7. RequestsShape'
  BY <1>1, <1>4, <1>6 DEF RequestsInv, RequestsShape, RequestSound
<1>8. \A c \in challenges : c.nonce # n
  BY <1>3 DEF RequestsInv, NonceInOnePlace, n
<1>9. NonceInOnePlace'
  BY <1>1, <1>4, <1>5, <1>6, <1>8 DEF RequestsInv, NonceInOnePlace, Answering
<1>10. \A i \in 1..Len(issued) : issued[i] # n
  BY <1>3 DEF RequestsInv, OneApprovalPerChallenge, n
<1>11. \A s \in Request \ {r} : Answering(s) => requests[s].nonce # n
  BY <1>3 DEF RequestsInv, OneApprovalPerChallenge, n
<1>12. \A i, j \in 1..Len(issued') : i # j => issued'[i] # issued'[j]
  <2> SUFFICES ASSUME NEW i \in 1..Len(issued'), NEW j \in 1..Len(issued'), i # j
               PROVE  issued'[i] # issued'[j]
    OBVIOUS
  <2>1. CASE i \in 1..Len(issued) /\ j \in 1..Len(issued)
    BY <1>4, <2>1 DEF RequestsInv, OneApprovalPerChallenge
  <2>2. CASE i \notin 1..Len(issued)
    <3>1. i = Len(issued) + 1 /\ j \in 1..Len(issued)
      BY <1>4, <2>2 DEF RequestsInv, RequestsShape
    <3> QED
      BY <1>4, <1>10, <3>1
  <2>3. CASE j \notin 1..Len(issued)
    <3>1. j = Len(issued) + 1 /\ i \in 1..Len(issued)
      BY <1>4, <2>3 DEF RequestsInv, RequestsShape
    <3> QED
      BY <1>4, <1>10, <3>1
  <2> QED
    BY <2>1, <2>2, <2>3
<1>13. OneApprovalPerChallenge'
  BY <1>4, <1>5, <1>6, <1>11, <1>12 DEF RequestsInv, OneApprovalPerChallenge, Answering
<1>14. CommitSound'
  BY <1>1, <1>2, <1>4 DEF CommitSound, LastIssued, RequestsInv, RequestsShape
<1> QED
  BY <1>7, <1>9, <1>13, <1>14 DEF RequestsInv

LEMMA CommitsKeeps ==
    ASSUME RequestsInv, NEW r \in Request, PreapprovalCommits(r)
    PROVE  RequestsInv'
<1>1. /\ commit = "none" /\ commit' = r /\ requests[r].at = "signed"
      /\ previous' = latestPreapproval
      /\ latestPreapproval' = requests[r].nonce
      /\ UNCHANGED <<challenges, drawn, requests, issued>>
  BY DEF PreapprovalCommits
<1> QED
  BY <1>1, LimitAssumption DEF RequestsInv, RequestsShape, RequestSound, NonceInOnePlace,
     OneApprovalPerChallenge, Answering, CommitSound, LastIssued

LEMMA UndoneKeeps ==
    ASSUME RequestsInv, NEW r \in Request, PreapprovalUndone(r)
    PROVE  RequestsInv'
<1>1. /\ commit = r /\ commit' = "none"
      /\ latestPreapproval' = previous
      /\ requests' = [requests EXCEPT ![r] = NoRequest]
      /\ UNCHANGED <<challenges, drawn, issued>>
  BY DEF PreapprovalUndone
<1>2. /\ \A s \in Request \ {r} : requests'[s] = requests[s]
      /\ requests'[r] = NoRequest
      /\ ~Answering(r)'
  BY <1>1 DEF RequestsInv, RequestsShape, Answering, NoRequest
<1>3. RequestsShape'
  BY <1>1, <1>2 DEF RequestsInv, RequestsShape, RequestSound
<1>4. NonceInOnePlace' /\ OneApprovalPerChallenge'
  BY <1>1, <1>2 DEF RequestsInv, NonceInOnePlace, OneApprovalPerChallenge, Answering
<1>5. CommitSound'
  BY <1>1, LimitAssumption DEF RequestsInv, CommitSound, LastIssued
<1> QED
  BY <1>3, <1>4, <1>5 DEF RequestsInv

LEMMA TickKeeps ==
    ASSUME RequestsInv, RequestsTick
    PROVE  RequestsInv'
<1>1. UNCHANGED <<drawn, requests, commit, latestPreapproval, previous, issued>>
  BY DEF RequestsTick
<1>2. ASSUME NEW d \in challenges'
      PROVE  \E c \in challenges : d.nonce = c.nonce
  <2>1. PICK c \in challenges : d = [c EXCEPT !.age = Capped(@ + 1, Ttl)]
    BY DEF RequestsTick
  <2>2. d.nonce = c.nonce
    BY <2>1
  <2> QED
    BY <2>2
<1>3. RequestsShape'
  BY <1>1, <1>2 DEF RequestsInv, RequestsShape, RequestSound
<1>4. NonceInOnePlace' /\ OneApprovalPerChallenge'
  BY <1>1, <1>2 DEF RequestsInv, NonceInOnePlace, OneApprovalPerChallenge, Answering
<1>5. CommitSound'
  BY <1>1 DEF RequestsInv, CommitSound, LastIssued
<1> QED
  BY <1>3, <1>4, <1>5 DEF RequestsInv

LEMMA RequestsInvStep == RequestsInv /\ [RequestsNext]_requestVars => RequestsInv'
<1> SUFFICES ASSUME RequestsInv, [RequestsNext]_requestVars PROVE RequestsInv'
  OBVIOUS
<1>0. ASSUME NEW r \in Request, requests[r].at # "signed"
      PROVE  commit # r
  BY <1>0, LimitAssumption DEF RequestsInv, CommitSound
<1>1. ASSUME NEW c \in Caller, ChallengeAdmitted(c)
      PROVE  RequestsInv'
  BY <1>1, ChallengesDrop DEF ChallengeAdmitted, Untouched
<1>2. ASSUME NEW a \in asking, ChallengeAborted(a)
      PROVE  RequestsInv'
  BY <1>2, ChallengesDrop DEF ChallengeAborted, Untouched
<1>3. ASSUME NEW a \in asking, NEW d \in Digest, ChallengeGiven(a, d)
      PROVE  RequestsInv'
  BY <1>3, ChallengeGivenKeeps
<1>4. ASSUME NEW r \in Request, NEW c \in Caller, PreapprovalAdmitted(r, c)
      PROVE  RequestsInv'
  <2> DEFINE q == [at |-> "reading", caller |-> c]
  <2>1. commit # r
    BY <1>0, <1>4 DEF PreapprovalAdmitted, NoRequest
  <2>2. q.at = "reading"
    OBVIOUS
  <2>3. requests' = [requests EXCEPT ![r] = q]
    BY <1>4 DEF PreapprovalAdmitted
  <2> HIDE DEF q
  <2> QED
    BY <1>4, <2>1, <2>2, <2>3, RequestMoves DEF PreapprovalAdmitted
<1>5. ASSUME NEW r \in Request, NEW n \in 1..drawn, NEW d \in Digest,
             ChallengeAnswered(r, n, d)
      PROVE  RequestsInv'
  BY <1>5, AnsweredKeeps
<1>6. ASSUME NEW r \in Request, NEW n \in 1..drawn, NEW d \in Digest,
             ChallengeRefused(r, n, d)
      PROVE  RequestsInv'
  <2>1. commit # r
    BY <1>0, <1>6 DEF ChallengeRefused
  <2>2. challenges' \subseteq challenges
    BY <1>6 DEF ChallengeRefused, Without
  <2> QED
    BY <1>6, <2>1, <2>2, RequestMoves DEF ChallengeRefused
<1>7. ASSUME NEW r \in Request, PreapprovalRefused(r)
      PROVE  RequestsInv'
  <2>1. commit # r
    BY <1>0, <1>7 DEF PreapprovalRefused
  <2> QED
    BY <1>7, <2>1, RequestMoves DEF PreapprovalRefused
<1>8. ASSUME NEW r \in Request, PreapprovalSigned(r)
      PROVE  RequestsInv'
  <2>1. commit # r
    BY <1>0, <1>8 DEF PreapprovalSigned
  <2>2. requests' = [requests EXCEPT ![r] = [requests[r] EXCEPT !.at = "signed"]]
    BY <1>8 DEF PreapprovalSigned
  <2> QED
    BY <1>8, <2>1, <2>2, RequestMoves DEF PreapprovalSigned
<1>9. ASSUME NEW r \in Request,
             PreapprovalCommits(r) \/ PreapprovalReleased(r) \/ PreapprovalUndone(r)
      PROVE  RequestsInv'
  BY <1>9, CommitsKeeps, ReleasedKeeps, UndoneKeeps
<1>10. CASE HandoffMoves
  BY <1>10, ChallengesDrop DEF HandoffMoves, Untouched
<1>11. CASE RequestsTick
  BY <1>11, TickKeeps
<1>12. CASE UNCHANGED requestVars
  BY <1>12, ChallengesDrop DEF requestVars, Untouched
<1> QED
  BY <1>1, <1>2, <1>3, <1>4, <1>5, <1>6, <1>7, <1>8, <1>9, <1>10, <1>11, <1>12
  DEF RequestsNext

LEMMA RequestsInvHolds == RequestsSpec => []RequestsInv
<1>1. RequestsInit => RequestsInv
  BY LimitAssumption DEF RequestsInit, RequestsInv, RequestsShape, RequestSound,
     NonceInOnePlace, OneApprovalPerChallenge, CommitSound, Answering, NoRequest, LastIssued
<1> QED
  BY <1>1, RequestsInvStep, PTL DEF RequestsSpec

-----------------------------------------------------------------------------
(* A challenge is answered once (consumeGovernanceChallenge deletes it     *)
(* before the review is awaited).                                          *)
THEOREM ChallengesAreAnsweredOnce == RequestsSpec => []OneApprovalPerChallenge
<1>1. RequestsInv => OneApprovalPerChallenge
  BY DEF RequestsInv
<1> QED
  BY <1>1, RequestsInvHolds, PTL

(* Between commits the latest preapproval is the last one released         *)
(* (withGovernanceCommit restores what an unacknowledged commit changed).  *)
THEOREM LatestIsReleased == RequestsSpec => []LatestWasReleased
<1>1. RequestsInv => LatestWasReleased
  BY DEF RequestsInv, CommitSound, LastIssued, LatestWasReleased, Last
<1> QED
  BY <1>1, RequestsInvHolds, PTL

-----------------------------------------------------------------------------
(* The callers' limits: every live challenge, and every request for one     *)
(* whose body is still to come, has an admission of its own that the        *)
(* caller's window still holds.                                             *)

Budget(c) == Recent(c, "challenge")
Alive(c) == {x \in challenges : x.caller = c /\ x.age < Ttl}
AdmissionOf(a) == [number |-> a.number, age |-> a.age]
Waiting(c) == {AdmissionOf(a) : a \in {b \in asking : b.caller = c}}

(* Each of the challenges has another of the admissions, made no longer     *)
(* before the challenge was given than a body may take to come.             *)
Covered(given, admissions) ==
    \E f \in [given -> admissions] :
        /\ \A x, y \in given : f[x] = f[y] => x = y
        /\ \A x \in given : f[x].age <= x.age + BodyTime

AllCovered == \A c \in Caller : Covered(Alive(c), Budget(c) \ Waiting(c))

LimitsShape ==
    /\ drawn \in Nat
    /\ buckets \in [Caller -> [Profile -> SUBSET [number : Nat, age : Nat]]]
    /\ \A c \in Caller, p \in Profile :
          /\ IsFiniteSet(buckets[c][p])
          /\ Cardinality(buckets[c][p]) <= Limit[p].max
    /\ asking \subseteq [caller : Caller, number : Nat, age : 0..BodyTime]
    /\ \A a \in asking : AdmissionOf(a) \in Budget(a.caller)
    /\ challenges \subseteq [nonce : 1..drawn, caller : Caller, digest : Digest, age : Nat]
    /\ IsFiniteSet(challenges) /\ Cardinality(challenges) <= MaxRecords

LimitsInv == LimitsShape /\ AllCovered

-----------------------------------------------------------------------------
(* Fewer challenges are covered by more admissions. *)
LEMMA CoveredFewer ==
    ASSUME NEW S, NEW T, NEW fewer, NEW more, fewer \subseteq S, T \subseteq more,
           Covered(S, T)
    PROVE  Covered(fewer, more)
<1>1. PICK f \in [S -> T] : /\ \A x, y \in S : f[x] = f[y] => x = y
                            /\ \A x \in S : f[x].age <= x.age + BodyTime
  BY DEF Covered
<1> DEFINE g == [x \in fewer |-> f[x]]
<1>2. g \in [fewer -> more]
  OBVIOUS
<1>3. /\ \A x, y \in fewer : g[x] = g[y] => x = y
      /\ \A x \in fewer : g[x].age <= x.age + BodyTime
  BY <1>1
<1> QED
  BY <1>2, <1>3 DEF Covered

(* There are no more challenges than admissions that cover them. *)
LEMMA CoveredCount ==
    ASSUME NEW S, NEW T, IsFiniteSet(T), Covered(S, T)
    PROVE  IsFiniteSet(S) /\ Cardinality(S) <= Cardinality(T)
<1>1. PICK f \in [S -> T] : \A x, y \in S : f[x] = f[y] => x = y
  BY DEF Covered
<1>2. f \in Injection(S, T)
  BY <1>1 DEF Injection, IsInjective
<1> QED
  BY <1>2, FS_Injection

(* One challenge more is covered by one admission more. *)
LEMMA CoveredOneMore ==
    ASSUME NEW S, NEW T, NEW x, NEW t, x \notin S, t \notin T, Covered(S, T),
           t.age <= x.age + BodyTime
    PROVE  Covered(S \union {x}, T \union {t})
<1>1. PICK f \in [S -> T] : /\ \A y, z \in S : f[y] = f[z] => y = z
                            /\ \A y \in S : f[y].age <= y.age + BodyTime
  BY DEF Covered
<1> DEFINE g == [y \in S \union {x} |-> IF y = x THEN t ELSE f[y]]
<1>2. g \in [S \union {x} -> T \union {t}] /\ g[x] = t /\ \A y \in S : g[y] = f[y]
  OBVIOUS
<1> HIDE DEF g
<1>3. ASSUME NEW y \in S \union {x}, NEW z \in S \union {x}, g[y] = g[z]
      PROVE  y = z
  BY <1>1, <1>2, <1>3
<1>4. \A y \in S \union {x} : g[y].age <= y.age + BodyTime
  BY <1>1, <1>2
<1> QED
  BY <1>2, <1>3, <1>4 DEF Covered

(* A new admission is one the window does not hold yet. *)
LEMMA AdmissionIsNew ==
    ASSUME LimitsShape, NEW c \in Caller, NEW p \in Profile
    PROVE  /\ Admission(c, p) \in [number : Nat, age : Nat]
           /\ Admission(c, p).age = 0
           /\ \A a \in Recent(c, p) : a.number # Admission(c, p).number
<1> DEFINE R == Recent(c, p)
           k == Cardinality(R)
<1>1. IsFiniteSet(R) /\ k \in Nat
  BY FS_Subset, FS_CardinalityType DEF Recent, LimitsShape
<1>2. \E n \in 0..k : \A a \in R : a.number # n
  <2> SUFFICES ASSUME \A n \in 0..k : \E a \in R : a.number = n
               PROVE  FALSE
    OBVIOUS
  <2> DEFINE f == [n \in 0..k |-> CHOOSE a \in R : a.number = n]
  <2>1. \A n \in 0..k : f[n] \in R /\ f[n].number = n
    OBVIOUS
  <2>2. f \in Injection(0..k, R)
    BY <2>1 DEF Injection, IsInjective
  <2>3. Cardinality(0..k) <= k
    BY <1>1, <2>2, FS_Injection
  <2>4. Cardinality(0..k) = k - 0 + 1
    <3> HIDE DEF k
    <3> QED
      BY <1>1, FS_Interval
  <2> HIDE DEF k
  <2> QED
    BY <1>1, <2>3, <2>4
<1> QED
  BY <1>1, <1>2 DEF Admission

(* Fewer challenges and fewer requests for one leave the limits kept. *)
LEMMA LimitsFewer ==
    ASSUME LimitsInv, challenges' \subseteq challenges, asking' \subseteq asking,
           UNCHANGED <<buckets, drawn>>
    PROVE  LimitsInv'
<1>1. \A c \in Caller, p \in Profile : Recent(c, p)' = Recent(c, p)
  BY DEF Recent
<1>2. ASSUME NEW c \in Caller
      PROVE  Covered(Alive(c), Budget(c) \ Waiting(c))'
  <2>1. /\ Alive(c)' \subseteq Alive(c)
        /\ Budget(c) \ Waiting(c) \subseteq Budget(c)' \ Waiting(c)'
    BY DEF Alive, Budget, Waiting, Recent
  <2>2. Covered(Alive(c), Budget(c) \ Waiting(c))
    BY DEF LimitsInv, AllCovered
  <2>3. Covered(Alive(c)', Budget(c)' \ Waiting(c)')
    BY <2>1, <2>2, CoveredFewer
  <2> QED
    BY <2>3 DEF Covered
<1>3. IsFiniteSet(challenges') /\ Cardinality(challenges') <= MaxRecords
  BY FS_Subset, FS_CardinalityType, LimitAssumption DEF LimitsInv, LimitsShape
<1>4. LimitsShape'
  <2>1. \A a \in asking' : AdmissionOf(a) \in Budget(a.caller)'
    BY DEF LimitsInv, LimitsShape, Budget, Recent
  <2> QED
    BY <1>3, <2>1 DEF LimitsInv, LimitsShape, AdmissionOf
<1> QED
  BY <1>2, <1>4 DEF LimitsInv, AllCovered

(* A request that is admitted waits with an admission nothing else has. *)
LEMMA AdmittedKeepsLimits ==
    ASSUME LimitsInv, NEW c \in Caller, NEW p \in Profile, Admitted(c, p),
           \/ /\ p = "challenge"
              /\ asking' = asking \union
                    {[caller |-> c, number |-> Admission(c, p).number, age |-> 0]}
           \/ p # "challenge" /\ UNCHANGED asking,
           UNCHANGED <<challenges, drawn>>
    PROVE  LimitsInv'
<1> DEFINE t == Admission(c, p)
           a == [caller |-> c, number |-> Admission(c, p).number, age |-> 0]
<1>1. /\ t \in [number : Nat, age : Nat] /\ t.age = 0
      /\ \A b \in Recent(c, p) : b.number # t.number
      /\ t.age < Limit[p].window
  BY AdmissionIsNew, LimitAssumption DEF LimitsInv
<1>2. a \in [caller : Caller, number : Nat, age : 0..BodyTime] /\ AdmissionOf(a) = t
      /\ a.caller = c
  BY <1>1, LimitAssumption DEF AdmissionOf
<1>3. /\ buckets'[c][p] = Recent(c, p) \union {t}
      /\ \A d \in Caller, q \in Profile :
            d # c \/ q # p => buckets'[d][q] = buckets[d][q]
      /\ buckets' \in [Caller -> [Profile -> SUBSET [number : Nat, age : Nat]]]
  BY <1>1 DEF Admitted, LimitsInv, LimitsShape, Recent
<1>4. "challenge" \in Profile
  BY DEF Profile
<1>5. \/ asking' = asking
      \/ asking' = asking \union {a} /\ p = "challenge"
  BY Zenon
<1>6. /\ Recent(c, p)' = Recent(c, p) \union {t}
      /\ \A d \in Caller, q \in Profile :
            d # c \/ q # p => Recent(d, q)' = Recent(d, q)
  BY <1>1, <1>3 DEF Recent
<1> HIDE DEF t, a
<1>7. \A d \in Caller : Budget(d) \subseteq Budget(d)'
  BY <1>4, <1>6 DEF Budget
<1>8. \A b \in asking' : AdmissionOf(b) \in Budget(b.caller)'
  BY <1>2, <1>5, <1>6, <1>7 DEF LimitsInv, LimitsShape, Budget
<1>9. ASSUME NEW d \in Caller, NEW q \in Profile
      PROVE  IsFiniteSet(buckets'[d][q]) /\ Cardinality(buckets'[d][q]) <= Limit[q].max
  <2>1. CASE d = c /\ q = p
    <3>1. IsFiniteSet(Recent(c, p)) /\ Cardinality(Recent(c, p)) < Limit[p].max
      BY FS_Subset DEF Admitted, Recent, LimitsInv, LimitsShape
    <3>2. /\ IsFiniteSet(Recent(c, p) \union {t})
          /\ Cardinality(Recent(c, p) \union {t}) = Cardinality(Recent(c, p)) + 1
      BY <1>1, <3>1, FS_AddElement
    <3>3. Limit[p].max \in Nat /\ Cardinality(Recent(c, p)) \in Nat
          /\ Cardinality(Recent(c, p) \union {t}) \in Nat
      BY <3>1, <3>2, FS_CardinalityType, LimitAssumption
    <3> QED
      BY <2>1, <1>3, <3>1, <3>2, <3>3
  <2>2. CASE d # c \/ q # p
    BY <2>2, <1>3 DEF LimitsInv, LimitsShape
  <2> QED
    BY <2>1, <2>2
<1>10. LimitsShape'
  BY <1>2, <1>3, <1>5, <1>8, <1>9 DEF LimitsInv, LimitsShape
<1>11. ASSUME NEW d \in Caller
       PROVE  Covered(Alive(d), Budget(d) \ Waiting(d))'
  <2>1. Alive(d)' = Alive(d)
    BY DEF Alive
  <2>2. Budget(d) \ Waiting(d) \subseteq Budget(d)' \ Waiting(d)'
    <3> SUFFICES ASSUME NEW b \in Budget(d), b \in Waiting(d)'
                 PROVE  b \in Waiting(d)
      BY <1>7
    <3>1. PICK w \in asking' : w.caller = d /\ b = AdmissionOf(w)
      BY DEF Waiting, AdmissionOf
    <3>2. CASE w \in asking
      BY <3>1, <3>2 DEF Waiting
    <3>3. CASE w = a /\ p = "challenge"
      <4>1. d = c /\ b = t
        BY <3>1, <3>3, <1>2
      <4>2. b \in Recent(c, p)
        BY <4>1, <3>3 DEF Budget
      <4> QED
        BY <4>1, <4>2, <1>1
    <3> QED
      BY <3>2, <3>3, <1>5
  <2>3. Covered(Alive(d)', Budget(d)' \ Waiting(d)')
    BY <2>1, <2>2, CoveredFewer DEF LimitsInv, AllCovered
  <2> QED
    BY <2>3 DEF Covered
<1> QED
  BY <1>10, <1>11 DEF LimitsInv, AllCovered

(* The challenge given takes over the admission of the request for it, and  *)
(* so all of them fit: the limit on records evicts nothing.                 *)
LEMMA GivenFits ==
    ASSUME LimitsInv, NEW a \in asking, NEW d \in Digest, ChallengeGiven(a, d)
    PROVE  /\ challenges' = Unexpired \union
                 {[nonce |-> drawn', caller |-> a.caller, digest |-> d, age |-> 0]}
           /\ LimitsInv'
<1> DEFINE new == [nonce |-> drawn', caller |-> a.caller, digest |-> d, age |-> 0]
           all == Unexpired \union {new}
           of(c) == {x \in all : x.caller = c}
<1>1. /\ drawn' = drawn + 1 /\ drawn \in Nat
      /\ challenges' = Trimmed(all)
      /\ asking' = asking \ {a}
      /\ buckets' = buckets
  BY DEF ChallengeGiven, LimitsInv, LimitsShape
<1>2. /\ a.caller \in Caller
      /\ new \in [nonce : 1..drawn', caller : Caller, digest : Digest, age : Nat]
      /\ a.age \in 0..BodyTime
  BY <1>1 DEF LimitsInv, LimitsShape
<1>3. /\ all \subseteq [nonce : 1..drawn', caller : Caller, digest : Digest, age : Nat]
      /\ new \notin Unexpired
  BY <1>1, <1>2 DEF Unexpired, LimitsInv, LimitsShape
<1>4. \A c \in Caller : Budget(c)' = Budget(c)
  BY <1>1 DEF Budget, Recent
<1>5. ASSUME NEW c \in Caller
      PROVE  Covered(of(c), Budget(c) \ Waiting(c)')
  <2>1. Covered(Alive(c), Budget(c) \ Waiting(c))
    BY DEF LimitsInv, AllCovered
  <2>2. Waiting(c)' \subseteq Waiting(c)
    BY <1>1 DEF Waiting, AdmissionOf
  <2>3. CASE c # a.caller
    <3>1. of(c) \subseteq Alive(c)
      BY <2>3 DEF Alive, Unexpired
    <3> HIDE DEF of
    <3> QED
      BY <2>1, <2>2, <3>1, CoveredFewer
  <2>4. CASE c = a.caller
    <3>1. of(c) = Alive(c) \union {new} /\ new \notin Alive(c)
      BY <2>4, <1>3 DEF Alive, Unexpired
    <3>2. /\ AdmissionOf(a) \in Waiting(c)
          /\ AdmissionOf(a) \in Budget(c)
          /\ AdmissionOf(a).age <= new.age + BodyTime
      BY <2>4, <1>2, LimitAssumption DEF Waiting, AdmissionOf, LimitsInv, LimitsShape
    <3>3. AdmissionOf(a) \notin Waiting(c)'
      <4> SUFFICES ASSUME NEW b \in asking, b # a, b.caller = c,
                          AdmissionOf(b) = AdmissionOf(a)
                   PROVE  FALSE
        BY <1>1 DEF Waiting, AdmissionOf
      <4>1. b.number = a.number /\ b.age = a.age
        BY DEF AdmissionOf
      <4> QED
        BY <2>4, <4>1 DEF LimitsInv, LimitsShape
    <3> DEFINE T == Budget(c) \ Waiting(c)
               t == AdmissionOf(a)
    <3>4. t \notin T /\ T \union {t} \subseteq Budget(c) \ Waiting(c)'
      BY <2>2, <3>2, <3>3
    <3> HIDE DEF of, new, T, t
    <3>5. Covered(Alive(c) \union {new}, T \union {t})
      BY <2>1, <3>1, <3>2, <3>4, CoveredOneMore DEF T, t
    <3> QED
      BY <3>1, <3>4, <3>5, CoveredFewer
  <2> QED
    BY <2>3, <2>4
<1>6. IsFiniteSet(all) /\ Cardinality(all) <= MaxRecords
  <2> DEFINE max == Limit["challenge"].max
             part == [c \in Caller |-> of(c)]
  <2>1. max \in Nat /\ MaxRecords \in Nat /\ Cardinality(Caller) \in Nat
        /\ max * Cardinality(Caller) <= MaxRecords
    BY LimitAssumption, CapacityAssumption, FS_CardinalityType DEF Profile
  <2>2. ASSUME NEW c \in Caller
        PROVE  IsFiniteSet(of(c)) /\ Cardinality(of(c)) <= max
    <3> DEFINE T == Budget(c) \ Waiting(c)'
               B == buckets[c]["challenge"]
    <3>1. IsFiniteSet(B) /\ Cardinality(B) <= max
      BY DEF LimitsInv, LimitsShape, Profile
    <3>2. T \subseteq B
      BY DEF Budget, Recent
    <3> HIDE DEF T, B, of, max
    <3>3. /\ IsFiniteSet(T) /\ Cardinality(T) <= Cardinality(B)
          /\ Cardinality(B) \in Nat /\ Cardinality(T) \in Nat
      BY <3>1, <3>2, FS_Subset, FS_CardinalityType
    <3>4. IsFiniteSet(of(c)) /\ Cardinality(of(c)) <= Cardinality(T)
      BY <1>5, <3>3, CoveredCount DEF T
    <3>5. Cardinality(of(c)) \in Nat
      BY <3>4, FS_CardinalityType
    <3> QED
      BY <2>1, <3>1, <3>3, <3>4, <3>5
  <2>3. all = UNION {part[c] : c \in Caller}
    BY <1>3
  <2>4. \A c \in Caller : IsFiniteSet(part[c]) /\ Cardinality(part[c]) <= max
    BY <2>2
  <2> HIDE DEF all, part, max
  <2>5. /\ IsFiniteSet(all)
        /\ Cardinality(all) <= max * Cardinality(Caller)
    BY <2>1, <2>3, <2>4, UnionBound, CapacityAssumption
  <2>6. Cardinality(all) \in Nat /\ max * Cardinality(Caller) \in Nat
    BY <2>1, <2>5, FS_CardinalityType
  <2> QED
    BY <2>1, <2>5, <2>6
<1>7. challenges' = all
  <2>1. Cardinality(all) \in Nat /\ MaxRecords \in Nat
    BY <1>6, FS_CardinalityType, LimitAssumption
  <2> HIDE DEF all
  <2> QED
    BY <1>1, <1>6, <2>1 DEF Trimmed
<1>8. LimitsShape'
  <2>1. \A b \in asking' : AdmissionOf(b) \in Budget(b.caller)'
    BY <1>1, <1>4 DEF LimitsInv, LimitsShape
  <2>2. drawn' \in Nat
    BY <1>1
  <2> HIDE DEF all
  <2> QED
    BY <1>1, <1>3, <1>6, <1>7, <2>1, <2>2 DEF LimitsInv, LimitsShape, AdmissionOf
<1>9. ASSUME NEW c \in Caller
      PROVE  Covered(Alive(c), Budget(c) \ Waiting(c))'
  <2>1. Alive(c)' \subseteq of(c)
    BY <1>7 DEF Alive
  <2> HIDE DEF of
  <2>2. Covered(Alive(c)', Budget(c)' \ Waiting(c)')
    BY <1>4, <1>5, <2>1, CoveredFewer
  <2> QED
    BY <2>2 DEF Covered
<1> QED
  BY <1>7, <1>8, <1>9 DEF LimitsInv, AllCovered

(* Time passes for a challenge and its admission alike. *)
LEMMA TickKeepsLimits ==
    ASSUME LimitsInv, RequestsTick
    PROVE  LimitsInv'
<1> DEFINE W == Limit["challenge"].window
           Older(a, p) == [a EXCEPT !.age = Capped(@ + 1, Limit[p].window)]
           Elder(x) == [x EXCEPT !.age = Capped(@ + 1, Ttl)]
           Waited(a) == [a EXCEPT !.age = @ + 1]
<1>1. /\ \A a \in asking : a.age < BodyTime
      /\ asking' = {Waited(a) : a \in asking}
      /\ buckets' = [c \in Caller |-> [p \in Profile |->
            {Older(a, p) : a \in buckets[c][p]}]]
      /\ challenges' = {Elder(x) : x \in challenges}
      /\ drawn' = drawn
  BY DEF RequestsTick
<1>2. /\ "challenge" \in Profile /\ W \in Nat \ {0} /\ Ttl \in Nat \ {0} /\ BodyTime \in Nat
      /\ Ttl + BodyTime <= W
      /\ \A p \in Profile : Limit[p].window \in Nat \ {0}
  BY LimitAssumption, CapacityAssumption DEF Profile
<1>3. \A p \in Profile : \A a \in [number : Nat, age : Nat] :
          /\ Older(a, p) \in [number : Nat, age : Nat]
          /\ Older(a, p).number = a.number
          /\ a.age < Limit[p].window => Older(a, p).age = a.age + 1
  BY <1>2 DEF Capped
<1>4. \A x \in [nonce : 1..drawn, caller : Caller, digest : Digest, age : Nat] :
          /\ Elder(x) \in [nonce : 1..drawn, caller : Caller, digest : Digest, age : Nat]
          /\ Elder(x).caller = x.caller
          /\ Elder(x).age < Ttl => x.age < Ttl /\ Elder(x).age = x.age + 1
  BY <1>2 DEF Capped
<1>5. \A a \in asking :
          /\ Waited(a) \in [caller : Caller, number : Nat, age : 0..BodyTime]
          /\ Waited(a).caller = a.caller
          /\ Waited(a).number = a.number
          /\ Waited(a).age = a.age + 1
          /\ a.number \in Nat /\ a.age \in Nat /\ a.age < W /\ a.age + 1 < W
  <2> SUFFICES ASSUME NEW a \in asking
               PROVE  /\ Waited(a) \in [caller : Caller, number : Nat, age : 0..BodyTime]
                      /\ Waited(a).caller = a.caller
                      /\ Waited(a).number = a.number
                      /\ Waited(a).age = a.age + 1
                      /\ a.number \in Nat /\ a.age \in Nat /\ a.age < W /\ a.age + 1 < W
    OBVIOUS
  <2>1. a \in [caller : Caller, number : Nat, age : 0..BodyTime]
    BY DEF LimitsInv, LimitsShape
  <2>2. a.age \in Nat /\ a.age < BodyTime
    BY <2>1, <1>1, <1>2
  <2>3. a.age + 1 \in 0..BodyTime /\ a.age + 1 < W /\ a.age < W
    BY <2>2, <1>2
  <2> QED
    BY <2>1, <2>2, <2>3
<1>6. \A c \in Caller, p \in Profile :
          /\ buckets[c][p] \subseteq [number : Nat, age : Nat]
          /\ buckets'[c][p] = {Older(a, p) : a \in buckets[c][p]}
  BY <1>1 DEF LimitsInv, LimitsShape
<1>7. ASSUME NEW c \in Caller, NEW p \in Profile
      PROVE  IsFiniteSet(buckets'[c][p]) /\ Cardinality(buckets'[c][p]) <= Limit[p].max
  <2> DEFINE B == buckets[c][p]
             f == [a \in B |-> Older(a, p)]
  <2>1. f \in Surjection(B, buckets'[c][p])
    <3> HIDE DEF Older
    <3>1. buckets'[c][p] = {f[a] : a \in B}
      BY <1>6
    <3> HIDE DEF B
    <3> QED
      BY <3>1 DEF Surjection
  <2>2. IsFiniteSet(B) /\ Cardinality(B) <= Limit[p].max /\ Limit[p].max \in Nat
    BY LimitAssumption DEF LimitsInv, LimitsShape
  <2> HIDE DEF B, f
  <2>3. /\ IsFiniteSet(buckets'[c][p])
        /\ Cardinality(buckets'[c][p]) <= Cardinality(B)
    BY <2>1, <2>2, FS_Surjection
  <2>4. Cardinality(B) \in Nat /\ Cardinality(buckets'[c][p]) \in Nat
    BY <2>2, <2>3, FS_CardinalityType
  <2> QED
    BY <2>2, <2>3, <2>4
<1>8. IsFiniteSet(challenges') /\ Cardinality(challenges') <= MaxRecords
  <2> DEFINE f == [x \in challenges |-> Elder(x)]
  <2>1. f \in Surjection(challenges, challenges')
    BY <1>1 DEF Surjection
  <2>2. /\ IsFiniteSet(challenges) /\ Cardinality(challenges) <= MaxRecords
        /\ MaxRecords \in Nat
    BY LimitAssumption DEF LimitsInv, LimitsShape
  <2> HIDE DEF f
  <2>3. IsFiniteSet(challenges') /\ Cardinality(challenges') <= Cardinality(challenges)
    BY <2>1, <2>2, FS_Surjection
  <2>4. Cardinality(challenges) \in Nat /\ Cardinality(challenges') \in Nat
    BY <2>2, <2>3, FS_CardinalityType
  <2> QED
    BY <2>2, <2>3, <2>4
<1>9. \A c \in Caller : \A b \in Budget(c) :
          /\ b \in [number : Nat, age : Nat] /\ b.age < W
          /\ b.age + 1 < W => Older(b, "challenge") \in Budget(c)'
  BY <1>2, <1>3, <1>6 DEF Budget, Recent
<1>10. \A a \in asking : AdmissionOf(Waited(a)) = Older(AdmissionOf(a), "challenge")
  <2> SUFFICES ASSUME NEW a \in asking
               PROVE  AdmissionOf(Waited(a)) = Older(AdmissionOf(a), "challenge")
    OBVIOUS
  <2>1. AdmissionOf(a) = [number |-> a.number, age |-> a.age]
        /\ AdmissionOf(Waited(a)) = [number |-> a.number, age |-> a.age + 1]
    BY <1>5 DEF AdmissionOf
  <2>2. a.number \in Nat /\ a.age \in Nat /\ a.age < W
    BY <1>2, <1>5
  <2>3. Capped(a.age + 1, W) = a.age + 1
    BY <1>2, <2>2 DEF Capped
  <2> HIDE DEF Waited
  <2> QED
    BY <2>1, <2>3
<1> HIDE DEF Older, Elder, Waited, W
<1>11. LimitsShape'
  <2>1. buckets' \in [Caller -> [Profile -> SUBSET [number : Nat, age : Nat]]]
    BY <1>1, <1>3, <1>6
  <2>2. asking' \subseteq [caller : Caller, number : Nat, age : 0..BodyTime]
    BY <1>1, <1>5
  <2>3. challenges' \subseteq [nonce : 1..drawn, caller : Caller, digest : Digest, age : Nat]
    BY <1>1, <1>4 DEF LimitsInv, LimitsShape
  <2>4. ASSUME NEW a \in asking
        PROVE  AdmissionOf(Waited(a)) \in Budget(Waited(a).caller)'
    <3>1. AdmissionOf(a) \in Budget(a.caller) /\ a.caller \in Caller
          /\ AdmissionOf(a).age = a.age
      BY DEF LimitsInv, LimitsShape, AdmissionOf
    <3> QED
      BY <3>1, <1>5, <1>9, <1>10
  <2>5. \A a \in asking' : AdmissionOf(a) \in Budget(a.caller)'
    BY <1>1, <2>4
  <2> QED
    BY <1>1, <1>7, <1>8, <2>1, <2>2, <2>3, <2>5 DEF LimitsInv, LimitsShape, AdmissionOf
<1>12. ASSUME NEW c \in Caller
       PROVE  Covered(Alive(c), Budget(c) \ Waiting(c))'
  <2>1. PICK f \in [Alive(c) -> Budget(c) \ Waiting(c)] :
            /\ \A x, y \in Alive(c) : f[x] = f[y] => x = y
            /\ \A x \in Alive(c) : f[x].age <= x.age + BodyTime
    BY DEF LimitsInv, AllCovered, Covered
  <2> DEFINE Younger(y) == CHOOSE x \in Alive(c) : Elder(x) = y
             g == [y \in Alive(c)' |-> Older(f[Younger(y)], "challenge")]
  <2>2. ASSUME NEW y \in Alive(c)'
        PROVE  /\ Younger(y) \in Alive(c) /\ Elder(Younger(y)) = y
               /\ y.age = Younger(y).age + 1
               /\ Younger(y).age \in Nat /\ y.age < Ttl
    <3>1. PICK x \in challenges : y = Elder(x)
      BY <1>1 DEF Alive
    <3>2. x \in [nonce : 1..drawn, caller : Caller, digest : Digest, age : Nat]
      BY DEF LimitsInv, LimitsShape
    <3>3. x \in Alive(c)
      BY <3>1, <3>2, <1>4 DEF Alive
    <3>4. Younger(y) \in Alive(c) /\ Elder(Younger(y)) = y
      BY <3>1, <3>3
    <3>5. /\ Younger(y) \in [nonce : 1..drawn, caller : Caller, digest : Digest, age : Nat]
          /\ y.age < Ttl
      BY <3>4 DEF Alive, LimitsInv, LimitsShape
    <3> HIDE DEF Younger
    <3> QED
      BY <3>4, <3>5, <1>4
  <2> HIDE DEF Younger
  <2>3. ASSUME NEW y \in Alive(c)'
        PROVE  /\ f[Younger(y)] \in Budget(c) /\ f[Younger(y)] \notin Waiting(c)
               /\ f[Younger(y)].age \in Nat
               /\ f[Younger(y)].age + 1 <= y.age + BodyTime
               /\ f[Younger(y)].age + 1 < W
    <3>1. f[Younger(y)] \in Budget(c) /\ f[Younger(y)] \notin Waiting(c)
          /\ f[Younger(y)].age <= Younger(y).age + BodyTime
      BY <2>1, <2>2
    <3>2. f[Younger(y)].age \in Nat
      BY <3>1, <1>9
    <3> QED
      BY <3>1, <3>2, <2>2, <1>2
  <2>4. \A b, d \in Budget(c) :
            Older(b, "challenge") = Older(d, "challenge") => b = d
    BY <1>2, <1>3, <1>9 DEF W
  <2>5. ASSUME NEW b \in Budget(c), Older(b, "challenge") \in Waiting(c)'
        PROVE  b \in Waiting(c)
    <3>1. PICK a \in asking' : a.caller = c /\ Older(b, "challenge") = AdmissionOf(a)
      BY <2>5 DEF Waiting, AdmissionOf
    <3>2. PICK w \in asking : a = Waited(w)
      BY <1>1
    <3>3. w.caller = c /\ Older(b, "challenge") = Older(AdmissionOf(w), "challenge")
      BY <3>1, <3>2, <1>5, <1>10
    <3>4. AdmissionOf(w) \in Budget(c) /\ AdmissionOf(w) \in Waiting(c)
      BY <3>3 DEF LimitsInv, LimitsShape, Waiting
    <3> QED
      BY <3>3, <3>4, <2>4
  <2>6. g \in [Alive(c)' -> Budget(c)' \ Waiting(c)']
    BY <2>3, <2>5, <1>9
  <2>7. \A y, z \in Alive(c)' : g[y] = g[z] => y = z
    <3> SUFFICES ASSUME NEW y \in Alive(c)', NEW z \in Alive(c)', g[y] = g[z]
                 PROVE  y = z
      OBVIOUS
    <3>1. f[Younger(y)] = f[Younger(z)]
      BY <2>3, <2>4
    <3>2. Younger(y) = Younger(z)
      BY <3>1, <2>1, <2>2
    <3> QED
      BY <3>2, <2>2
  <2>8. \A y \in Alive(c)' : g[y].age <= y.age + BodyTime
    <3> SUFFICES ASSUME NEW y \in Alive(c)'
                 PROVE  Older(f[Younger(y)], "challenge").age <= y.age + BodyTime
      OBVIOUS
    <3>1. Older(f[Younger(y)], "challenge").age = f[Younger(y)].age + 1
      BY <2>3, <1>2, <1>3, <1>9 DEF W
    <3> QED
      BY <3>1, <2>3
  <2> HIDE DEF g
  <2>9. Covered(Alive(c)', Budget(c)' \ Waiting(c)')
    BY <2>6, <2>7, <2>8 DEF Covered
  <2> QED
    BY <2>9 DEF Covered
<1> QED
  BY <1>11, <1>12 DEF LimitsInv, AllCovered

LEMMA LimitsStep == LimitsInv /\ [RequestsNext]_requestVars => LimitsInv'
<1> SUFFICES ASSUME LimitsInv, [RequestsNext]_requestVars PROVE LimitsInv'
  OBVIOUS
<1>1. ASSUME NEW c \in Caller, ChallengeAdmitted(c)
      PROVE  LimitsInv'
  BY <1>1, AdmittedKeepsLimits DEF ChallengeAdmitted, Profile
<1>2. ASSUME NEW a \in asking, ChallengeAborted(a)
      PROVE  LimitsInv'
  BY <1>2, LimitsFewer DEF ChallengeAborted
<1>3. ASSUME NEW a \in asking, NEW d \in Digest, ChallengeGiven(a, d)
      PROVE  LimitsInv'
  BY <1>3, GivenFits
<1>4. ASSUME NEW r \in Request, NEW c \in Caller, PreapprovalAdmitted(r, c)
      PROVE  LimitsInv'
  BY <1>4, AdmittedKeepsLimits DEF PreapprovalAdmitted, Profile
<1>5. ASSUME NEW r \in Request, NEW n \in 1..drawn, NEW d \in Digest,
             ChallengeAnswered(r, n, d) \/ ChallengeRefused(r, n, d)
      PROVE  LimitsInv'
  BY <1>5, LimitsFewer DEF ChallengeAnswered, ChallengeRefused, Consumed, Without
<1>6. ASSUME NEW r \in Request,
             \/ PreapprovalRefused(r) \/ PreapprovalSigned(r)
             \/ PreapprovalCommits(r) \/ PreapprovalReleased(r) \/ PreapprovalUndone(r)
      PROVE  LimitsInv'
  BY <1>6, LimitsFewer DEF PreapprovalRefused, PreapprovalSigned, PreapprovalCommits,
     PreapprovalReleased, PreapprovalUndone
<1>7. CASE HandoffMoves \/ UNCHANGED requestVars
  BY <1>7, LimitsFewer DEF HandoffMoves, requestVars
<1>8. CASE RequestsTick
  BY <1>8, TickKeepsLimits
<1> QED
  BY <1>1, <1>2, <1>3, <1>4, <1>5, <1>6, <1>7, <1>8 DEF RequestsNext

LEMMA LimitsHold == RequestsSpec => []LimitsInv
<1>1. RequestsInit => LimitsInv
  <2> SUFFICES ASSUME RequestsInit PROVE LimitsInv
    OBVIOUS
  <2>1. LimitsShape
    BY LimitAssumption, FS_EmptySet DEF RequestsInit, LimitsShape
  <2>2. ASSUME NEW c \in Caller
        PROVE  Covered(Alive(c), Budget(c) \ Waiting(c))
    <3>1. Alive(c) = {}
      BY DEF RequestsInit, Alive
    <3>2. [x \in {} |-> x] \in [{} -> Budget(c) \ Waiting(c)]
      OBVIOUS
    <3> QED
      BY <3>1, <3>2 DEF Covered
  <2> QED
    BY <2>1, <2>2 DEF LimitsInv, AllCovered
<1> QED
  BY <1>1, LimitsStep, PTL DEF RequestsSpec

-----------------------------------------------------------------------------
(* The other values of the state. *)
ValuesInv ==
    /\ governance \in {"active", "activating_successor"}
    /\ commit = "none" => previous = 0

LEMMA ValuesStep == ValuesInv /\ [RequestsNext]_requestVars => ValuesInv'
<1> SUFFICES ASSUME ValuesInv, [RequestsNext]_requestVars PROVE ValuesInv'
  OBVIOUS
<1> USE DEF ValuesInv
<1>1. CASE UNCHANGED <<governance, commit, previous>>
  BY <1>1
<1>2. ASSUME NEW r \in Request,
             PreapprovalCommits(r) \/ PreapprovalReleased(r) \/ PreapprovalUndone(r)
      PROVE  ValuesInv'
  BY <1>2, LimitAssumption DEF PreapprovalCommits, PreapprovalReleased, PreapprovalUndone
<1>3. CASE HandoffMoves
  BY <1>3 DEF HandoffMoves
<1>4. CASE RequestsTick \/ UNCHANGED requestVars
  BY <1>1, <1>4 DEF RequestsTick, requestVars
<1> QED
  BY <1>1, <1>2, <1>3, <1>4 DEF RequestsNext, ChallengeAdmitted, ChallengeAborted,
     ChallengeGiven, PreapprovalAdmitted, ChallengeAnswered, ChallengeRefused,
     PreapprovalRefused, PreapprovalSigned

(* No caller has more admissions than its limit, no more challenges are    *)
(* kept than the limit on records, and every reference names a challenge   *)
(* that was drawn (consumeRateLimit, trimGovernanceChallengeRecords).      *)
THEOREM RequestsAreTyped == RequestsSpec => []RequestsTypeOK
<1>1. RequestsInv /\ LimitsInv /\ ValuesInv => RequestsTypeOK
  <2> SUFFICES ASSUME RequestsInv, LimitsInv, ValuesInv PROVE RequestsTypeOK
    OBVIOUS
  <2>1. LastIssued \in 0..drawn
    BY DEF RequestsInv, RequestsShape, LastIssued
  <2>2. \A r \in Request :
            requests[r].at \in {"idle", "reading", "reviewing", "signed"}
    BY DEF RequestsInv, RequestsShape, RequestSound, NoRequest
  <2>3. commit # "none" => requests[commit].nonce \in 1..drawn
    BY DEF RequestsInv, RequestsShape, RequestSound, NoRequest, CommitSound
  <2>4. latestPreapproval \in 0..drawn /\ previous \in 0..drawn
    BY <2>1, <2>3 DEF RequestsInv, RequestsShape, CommitSound, ValuesInv
  <2>5. {c.nonce : c \in challenges} \subseteq 1..drawn
    BY DEF RequestsInv, RequestsShape
  <2> QED
    BY <2>2, <2>4, <2>5 DEF RequestsInv, CommitSound, LimitsInv, LimitsShape, ValuesInv,
       RequestsTypeOK
<1>2. RequestsInit => ValuesInv
  BY DEF RequestsInit, ValuesInv
<1> QED
  BY <1>1, <1>2, ValuesStep, RequestsInvHolds, LimitsHold, PTL DEF RequestsSpec

(* A challenge a caller was given stays answerable until it expires: the   *)
(* callers' rate limits, late bodies included, let no more live at once    *)
(* than the limit on records (trimGovernanceChallengeRecords).             *)
THEOREM LiveChallengesAreKept == RequestsSpec => LiveChallengeKept
<1> DEFINE Kept == \A c \in challenges :
          c.age < Ttl =>
              \/ \E d \in challenges' : d.nonce = c.nonce
              \/ \E r \in Request :
                    /\ Answering(r)'
                    /\ requests'[r].nonce = c.nonce
<1>1. RequestsInv /\ LimitsInv /\ [RequestsNext]_requestVars => [Kept]_requestVars
  <2> SUFFICES ASSUME RequestsInv, LimitsInv, RequestsNext,
                      NEW c \in challenges, c.age < Ttl
               PROVE  \/ \E d \in challenges' : d.nonce = c.nonce
                      \/ \E r \in Request :
                            /\ Answering(r)'
                            /\ requests'[r].nonce = c.nonce
    OBVIOUS
  <2>1. CASE c \in challenges'
    BY <2>1
  <2>2. ASSUME NEW a \in asking, NEW d \in Digest, ChallengeGiven(a, d)
        PROVE  c \in challenges'
    BY <2>2, GivenFits DEF Unexpired
  <2>3. ASSUME NEW r \in Request, NEW n \in 1..drawn, NEW d \in Digest,
               ChallengeAnswered(r, n, d), c.nonce = n
        PROVE  Answering(r)' /\ requests'[r].nonce = c.nonce
    BY <2>3 DEF ChallengeAnswered, Answering, RequestsInv, RequestsShape
  <2>4. ASSUME NEW r \in Request, NEW n \in 1..drawn, NEW d \in Digest,
               ChallengeAnswered(r, n, d), c.nonce # n
        PROVE  c \in challenges'
    BY <2>4 DEF ChallengeAnswered, Consumed, Without
  <2>5. ASSUME NEW r \in Request, NEW n \in 1..drawn, NEW d \in Digest,
               ChallengeRefused(r, n, d)
        PROVE  c \in challenges'
    <3>1. c.age \in Nat /\ Ttl \in Nat
      BY LimitAssumption DEF LimitsInv, LimitsShape
    <3> QED
      BY <2>5, <3>1 DEF ChallengeRefused, Without
  <2>6. CASE RequestsTick
    <3> DEFINE d == [c EXCEPT !.age = Capped(@ + 1, Ttl)]
    <3>1. d \in challenges'
      BY <2>6 DEF RequestsTick
    <3>2. d.nonce = c.nonce
      BY DEF LimitsInv, LimitsShape
    <3> QED
      BY <3>1, <3>2
  <2>7. CASE UNCHANGED challenges
    BY <2>1, <2>7
  <2> QED
    BY <2>1, <2>2, <2>3, <2>4, <2>5, <2>6, <2>7 DEF RequestsNext, ChallengeAdmitted,
       ChallengeAborted, PreapprovalAdmitted, PreapprovalRefused, PreapprovalSigned,
       PreapprovalCommits, PreapprovalReleased, PreapprovalUndone, HandoffMoves
<1> QED
  BY <1>1, RequestsInvHolds, LimitsHold, PTL DEF RequestsSpec, LiveChallengeKept
=============================================================================
