------------------------ MODULE TenantServicesProofs ------------------------
(***************************************************************************)
(* What the broker does for tenants: pushes, the tokens it sends along, and *)
(* what it counts of their backends.                                       *)
(***************************************************************************)
EXTENDS PushRegistry, TokenCache, TenantContract, Counting

-----------------------------------------------------------------------------
(* PushRegistry: for every set of tokens, number of overlapping requests,  *)
(* yearly cap and year.                                                    *)

(* What a request holds was vouched for, up to where it asks; what it asks *)
(* about was not and is not pushed to before the answer.                   *)
HoldsVouched(p) ==
    \/ p = NotPushing
    \/ p.at \in {"counting", "verifying"} /\ p.known \subseteq vouched
    \/ p \in [at: {"registering"}, left: SUBSET vouched, rejected: BOOLEAN,
              to: SUBSET vouched]
    \/ p.at = "sending" /\ p.to \subseteq vouched

PushInv ==
    /\ Registered \subseteq vouched
    /\ pushes = [r \in Push |-> pushes[r]]
    /\ \A r \in Push : HoldsVouched(pushes[r])
    /\ PushedWereVouchedFor

LEMMA PushInvStep == PushInv /\ [PushNext]_pushVars => PushInv'
<1> SUFFICES ASSUME PushInv, [PushNext]_pushVars PROVE PushInv'
  OBVIOUS
<1> USE DEF PushInv, HoldsVouched, PushedWereVouchedFor, Registered
<1>1. ASSUME NEW r \in Push, NEW asked, NEW known, PushBegins(r, asked, known)
      PROVE  PushInv'
  BY <1>1 DEF PushBegins
<1>2. ASSUME NEW r \in Push, NEW count, NEW asked, PushCounted(r, count, asked)
      PROVE  PushInv'
  BY <1>2 DEF PushCounted, NotPushing
<1>3. ASSUME NEW r \in Push, NEW count, PushFull(r, count)
      PROVE  PushInv'
  BY <1>3 DEF PushFull, NotPushing
<1>4. ASSUME NEW r \in Push, NEW answer, PushVerified(r, answer)
      PROVE  PushInv'
  <2> DEFINE verified == answer \cap pushes[r].new
             now == [at |-> "registering", left |-> verified, rejected |-> FALSE,
                     to |-> pushes[r].known \union verified]
  <2>1. /\ vouched' = vouched \union verified
        /\ pushes' = [pushes EXCEPT ![r] = now]
        /\ UNCHANGED <<registry, pushed>>
    BY <1>4 DEF PushVerified
  <2>2. pushes[r].known \subseteq vouched
    BY <1>4 DEF PushVerified, NotPushing
  <2>3. HoldsVouched(pushes[r])'
    <3>1. pushes'[r] = now
      BY <2>1
    <3>2. now.to \subseteq vouched' /\ verified \subseteq vouched'
      BY <2>1, <2>2
    <3> QED
      BY <3>1, <3>2
  <2>4. ASSUME NEW s \in Push \ {r}
        PROVE  HoldsVouched(pushes[s])'
    <3>1. pushes'[s] = pushes[s] /\ vouched \subseteq vouched'
      BY <2>1
    <3> QED
      BY <3>1
  <2>5. (pushes = [s \in Push |-> pushes[s]])'
    BY <2>1
  <2>6. Registered' \subseteq vouched' /\ pushed' \subseteq vouched'
    BY <2>1
  <2> QED
    BY <2>3, <2>4, <2>5, <2>6
<1>5. ASSUME NEW r \in Push, NEW t \in Token, PushRegisters(r, t)
      PROVE  PushInv'
  <2> DEFINE p == pushes[r]
  <2>1. p \in [at: {"registering"}, left: SUBSET vouched, rejected: BOOLEAN,
               to: SUBSET vouched]
    BY <1>5 DEF PushRegisters, NotPushing
  <2>2. UNCHANGED <<vouched, pushed>> /\ DOMAIN registry' \subseteq vouched
    BY <1>5, <2>1 DEF PushRegisters
  <2>3. PICK throws \in BOOLEAN :
          pushes' = [pushes EXCEPT ![r].left = @ \ {t},
                                   ![r].rejected = @ \/ throws]
    BY <1>5 DEF PushRegisters
  <2>4. \A s \in Push \ {r} : pushes'[s] = pushes[s]
    BY <2>3
  <2>5. pushes'[r] = [p EXCEPT !.left = @ \ {t}, !.rejected = @ \/ throws]
    BY <2>3
  <2>6. pushes'[r] \in [at: {"registering"}, left: SUBSET vouched,
                        rejected: BOOLEAN, to: SUBSET vouched]
    BY <2>1, <2>5
  <2>7. pushes' = [s \in Push |-> pushes'[s]]
    BY <2>3
  <2> QED
    BY <2>2, <2>4, <2>6, <2>7
<1>6. ASSUME NEW r \in Push, PushUnanswered(r) \/ PushRegistered(r)
      PROVE  PushInv'
  BY <1>6 DEF PushUnanswered, PushRegistered, NotPushing
<1>7. ASSUME NEW r \in Push, PushSends(r) \/ PushFails(r)
      PROVE  PushInv'
  BY <1>7 DEF PushSends, PushFails, NotPushing
<1>8. CASE PushTick \/ UNCHANGED pushVars
  BY <1>8 DEF PushTick, pushVars
<1> QED
  BY <1>1, <1>2, <1>3, <1>4, <1>5, <1>6, <1>7, <1>8 DEF PushNext

(***************************************************************************)
(* A push goes only to tokens the couple's own server has vouched for      *)
(* (routes.js, verify-tokens), whatever overlaps and fails.                *)
(***************************************************************************)
THEOREM PushesAreVouchedFor == PushSpec => []PushedWereVouchedFor
<1>1. PushInit => PushInv
  BY DEF PushInit, PushInv, HoldsVouched, PushedWereVouchedFor, Registered
<1>2. PushInv => PushedWereVouchedFor
  BY DEF PushInv
<1> QED
  BY <1>1, <1>2, PushInvStep, PTL DEF PushSpec

(* The tokens a request has been promised a place for, and may register. *)
Held(p) ==
    IF p.at = "verifying" THEN p.new
    ELSE IF p.at = "registering" THEN p.left ELSE {}

AllHeld == UNION {Held(pushes[r]) : r \in Push}

(* What a request registers counts from when it is promised: with that,    *)
(* the excess over the cap is what requests hold that others do not count. *)
OverlapInv ==
    /\ RecentlyRegistered \subseteq Token
    /\ \A r \in Push : Held(pushes[r]) \subseteq Token
    /\ ~blind =>
          /\ \A r \in Push : Cardinality(Held(pushes[r])) <= MaxNew
          /\ Cardinality(RecentlyRegistered \union AllHeld) <= MaxNew * Cardinality(Push)

LEMMA PlaceSizes ==
    /\ MaxNew \in Nat /\ Cardinality(Push) \in Nat
    /\ \A S \in SUBSET Token : IsFiniteSet(S) /\ Cardinality(S) \in Nat
    /\ \A S, T \in SUBSET Token : S \subseteq T => Cardinality(S) <= Cardinality(T)
<1>1. ASSUME NEW S \in SUBSET Token
      PROVE  IsFiniteSet(S) /\ Cardinality(S) \in Nat
  BY PushAssumption, FS_Subset, FS_CardinalityType
<1>2. ASSUME NEW S \in SUBSET Token, NEW T \in SUBSET Token, S \subseteq T
      PROVE  Cardinality(S) <= Cardinality(T)
  BY <1>1, <1>2, FS_Subset
<1>3. MaxNew \in Nat /\ Cardinality(Push) \in Nat
  BY PushAssumption, FS_CardinalityType
<1> QED
  BY <1>1, <1>2, <1>3

(* Nothing is promised: what is registered then was promised before. *)
LEMMA NoneHeldMore ==
    ASSUME OverlapInv, blind' = blind \/ blind',
           \A r \in Push : Held(pushes'[r]) \subseteq Held(pushes[r]),
           RecentlyRegistered' \subseteq RecentlyRegistered \union AllHeld
    PROVE  OverlapInv'
<1>1. RecentlyRegistered \union AllHeld \subseteq Token
  BY DEF OverlapInv, AllHeld
<1>2. AllHeld' \subseteq AllHeld
  BY DEF AllHeld
<1>3. RecentlyRegistered' \union AllHeld' \subseteq RecentlyRegistered \union AllHeld
  BY <1>2
<1>4. \A r \in Push : Held(pushes'[r]) \subseteq Token /\ Held(pushes[r]) \subseteq Token
  BY DEF OverlapInv
<1>5. ASSUME ~blind'
      PROVE  /\ \A r \in Push : Cardinality(Held(pushes'[r])) <= MaxNew
             /\ Cardinality(RecentlyRegistered' \union AllHeld') <= MaxNew * Cardinality(Push)
  <2>1. /\ \A r \in Push : Cardinality(Held(pushes[r])) <= MaxNew
        /\ Cardinality(RecentlyRegistered \union AllHeld) <= MaxNew * Cardinality(Push)
    BY <1>5 DEF OverlapInv
  <2>2. \A r \in Push : Cardinality(Held(pushes'[r])) <= MaxNew
    <3>1. ASSUME NEW r \in Push
          PROVE  /\ Cardinality(Held(pushes'[r])) <= Cardinality(Held(pushes[r]))
                 /\ Cardinality(Held(pushes'[r])) \in Nat /\ Cardinality(Held(pushes[r])) \in Nat
      BY <1>4, PlaceSizes
    <3> QED
      BY <2>1, <3>1, PlaceSizes
  <2>3. Cardinality(RecentlyRegistered' \union AllHeld') <= MaxNew * Cardinality(Push)
    <3> DEFINE now == RecentlyRegistered' \union AllHeld'
               before == RecentlyRegistered \union AllHeld
    <3>1. now \subseteq before /\ now \in SUBSET Token /\ before \in SUBSET Token
      BY <1>1, <1>3
    <3>2. /\ Cardinality(now) <= Cardinality(before)
          /\ Cardinality(now) \in Nat /\ Cardinality(before) \in Nat
      <4> HIDE DEF now, before
      <4> QED
        BY <3>1, PlaceSizes
    <3>3. MaxNew * Cardinality(Push) \in Nat
      BY PlaceSizes
    <3> QED
      BY <2>1, <3>2, <3>3
  <2> QED
    BY <2>2, <2>3
<1> QED
  BY <1>1, <1>3, <1>4, <1>5 DEF OverlapInv

(* A request is promised what the year's number leaves it of the           *)
(* registered: with what the others hold, no more than so much for each.   *)
LEMMA PromisedInBounds ==
    ASSUME PushInv, OverlapInv, NEW r \in Push, NEW count, NEW asked \in SUBSET Token,
           PushCounted(r, count, asked)
    PROVE  OverlapInv'
<1> DEFINE now == [at |-> "verifying", known |-> pushes[r].known, new |-> asked]
           others == UNION {Held(pushes[s]) : s \in Push \ {r}}
<1>1. /\ pushes' = [pushes EXCEPT ![r] = now]
      /\ CountAnswers(r, count) /\ asked # {} /\ Cardinality(asked) <= Remaining(count)
      /\ UNCHANGED <<registry, vouched, pushed>>
  BY DEF PushCounted
<1>2. pushes'[r] = now /\ \A s \in Push \ {r} : pushes'[s] = pushes[s]
  BY <1>1 DEF PushInv
<1>3. Held(pushes'[r]) = asked /\ \A s \in Push \ {r} : Held(pushes'[s]) = Held(pushes[s])
  BY <1>2 DEF Held
<1>4. RecentlyRegistered' = RecentlyRegistered
  BY <1>1 DEF RecentlyRegistered, Registered
<1>5. AllHeld' = asked \union others
  BY <1>3 DEF AllHeld
<1>6. \A s \in Push : Held(pushes'[s]) \subseteq Token
  BY <1>3 DEF OverlapInv
<1>7. ASSUME ~blind'
      PROVE  /\ \A s \in Push : Cardinality(Held(pushes'[s])) <= MaxNew
             /\ Cardinality(RecentlyRegistered' \union AllHeld') <= MaxNew * Cardinality(Push)
  <2>1. ~blind /\ (count = Cardinality(RecentlyRegistered) \/ count = MaxNew)
    BY <1>1, <1>7 DEF CountAnswers
  <2>2. /\ Cardinality(asked) \in Nat /\ IsFiniteSet(asked) /\ Cardinality(asked) # 0
        /\ Cardinality(RecentlyRegistered) \in Nat /\ IsFiniteSet(RecentlyRegistered)
    BY <1>1, PlaceSizes, FS_EmptySet DEF OverlapInv
  <2>3. Cardinality(asked) + Cardinality(RecentlyRegistered) <= MaxNew
    BY <1>1, <2>1, <2>2, PlaceSizes DEF Remaining
  <2>4. \A s \in Push : Cardinality(Held(pushes'[s])) <= MaxNew
    BY <1>3, <2>1, <2>2, <2>3, PlaceSizes DEF OverlapInv
  <2>5. IsFiniteSet(others) /\ Cardinality(others) <= MaxNew * (Cardinality(Push) - 1)
    <3> DEFINE I == Push \ {r}
               of == [s \in I |-> Held(pushes[s])]
    <3>1. IsFiniteSet(I) /\ Cardinality(I) = Cardinality(Push) - 1
      BY PushAssumption, FS_RemoveElement
    <3>2. ASSUME NEW s \in I
          PROVE  IsFiniteSet(of[s]) /\ Cardinality(of[s]) <= MaxNew
      BY <2>1, PlaceSizes DEF OverlapInv
    <3>3. others = UNION {of[s] : s \in I}
      OBVIOUS
    <3> HIDE DEF I, of, others
    <3>4. IsFiniteSet(UNION {of[s] : s \in I})
          /\ Cardinality(UNION {of[s] : s \in I}) <= MaxNew * Cardinality(I)
      BY <3>1, <3>2, PlaceSizes, UnionBound
    <3> QED
      BY <3>1, <3>3, <3>4
  <2>6. MaxNew * (Cardinality(Push) - 1) = MaxNew * Cardinality(Push) - MaxNew
        /\ MaxNew * Cardinality(Push) \in Nat
    BY PlaceSizes
  <2> DEFINE mine == RecentlyRegistered \union asked
  <2>7. IsFiniteSet(mine) /\ Cardinality(mine) \in Nat /\ Cardinality(mine) <= MaxNew
    BY <2>2, <2>3, PlaceSizes, TwoSets
  <2>8. RecentlyRegistered' \union AllHeld' = mine \union others
    BY <1>4, <1>5
  <2> HIDE DEF mine, others
  <2>9. /\ Cardinality(mine \union others) <= Cardinality(mine) + Cardinality(others)
        /\ Cardinality(mine \union others) \in Nat /\ Cardinality(others) \in Nat
    BY <2>5, <2>7, TwoSets
  <2>10. Cardinality(mine \union others) <= MaxNew * Cardinality(Push)
    BY <2>5, <2>6, <2>7, <2>9, PlaceSizes
  <2> QED
    BY <2>4, <2>8, <2>10
<1> QED
  BY <1>4, <1>6, <1>7 DEF OverlapInv

LEMMA OverlapInvStep == PushInv /\ OverlapInv /\ [PushNext]_pushVars => OverlapInv'
<1> SUFFICES ASSUME PushInv, OverlapInv, [PushNext]_pushVars PROVE OverlapInv'
  OBVIOUS
<1> USE DEF PushInv
<1>1. ASSUME NEW r \in Push, NEW now, Held(now) \subseteq Held(pushes[r]),
             pushes' = [pushes EXCEPT ![r] = now], blind' = blind \/ blind',
             UNCHANGED registry
      PROVE  OverlapInv'
  <2>1. \A s \in Push : Held(pushes'[s]) \subseteq Held(pushes[s])
    BY <1>1
  <2>2. RecentlyRegistered' = RecentlyRegistered
    BY <1>1 DEF RecentlyRegistered, Registered
  <2> QED
    BY <1>1, <2>1, <2>2, NoneHeldMore
<1>2. ASSUME NEW r \in Push, NEW asked, NEW known, PushBegins(r, asked, known)
      PROVE  OverlapInv'
  <2> DEFINE now == IF known = asked THEN [at |-> "sending", to |-> known]
                    ELSE [at |-> "counting", known |-> known, new |-> asked \ known]
  <2>1. Held(now) \subseteq Held(pushes[r])
    BY DEF Held
  <2> QED
    BY <1>1, <1>2, <2>1 DEF PushBegins
<1>3. ASSUME NEW r \in Push, NEW count, PushFull(r, count)
      PROVE  OverlapInv'
  <2> DEFINE now == IF pushes[r].known = {} THEN NotPushing
                    ELSE [at |-> "sending", to |-> pushes[r].known]
  <2>1. Held(now) \subseteq Held(pushes[r])
    BY DEF Held, NotPushing
  <2> QED
    BY <1>1, <1>3, <2>1 DEF PushFull, CountAnswers
<1>4. ASSUME NEW r \in Push, NEW answer, PushVerified(r, answer)
      PROVE  OverlapInv'
  <2> DEFINE verified == answer \cap pushes[r].new
             now == [at |-> "registering", left |-> verified, rejected |-> FALSE,
                     to |-> pushes[r].known \union verified]
  <2>1. Held(now) \subseteq Held(pushes[r])
    BY <1>4 DEF Held, PushVerified
  <2> QED
    BY <1>1, <1>4, <2>1 DEF PushVerified
<1>5. ASSUME NEW r \in Push, NEW t \in Token, PushRegisters(r, t)
      PROVE  OverlapInv'
  <2>1. PICK throws \in BOOLEAN :
          pushes' = [pushes EXCEPT ![r].left = @ \ {t},
                                   ![r].rejected = @ \/ throws]
    BY <1>5 DEF PushRegisters
  <2>2. pushes[r].at = "registering" /\ t \in pushes[r].left /\ UNCHANGED blind
    BY <1>5 DEF PushRegisters
  <2>3. pushes[r] \in [at: {"registering"}, left: SUBSET vouched, rejected: BOOLEAN,
                       to: SUBSET vouched]
    BY <2>2 DEF HoldsVouched, NotPushing
  <2>4. pushes'[r].at = "registering" /\ pushes'[r].left = pushes[r].left \ {t}
    <3>1. pushes'[r] = [pushes[r] EXCEPT !.left = @ \ {t}, !.rejected = @ \/ throws]
      BY <2>1
    <3> QED
      BY <2>3, <3>1
  <2>5. \A s \in Push : Held(pushes'[s]) \subseteq Held(pushes[s])
    <3>1. \A s \in Push \ {r} : pushes'[s] = pushes[s]
      BY <2>1
    <3> QED
      BY <2>2, <2>4, <3>1 DEF Held
  <2>6. t \in AllHeld
    BY <2>2 DEF AllHeld, Held
  <2>7. RecentlyRegistered' \subseteq RecentlyRegistered \union {t}
    BY <1>5 DEF PushRegisters, RecentlyRegistered, Registered
  <2> QED
    BY <2>2, <2>5, <2>6, <2>7, NoneHeldMore
<1>6. ASSUME NEW r \in Push, PushUnanswered(r)
      PROVE  OverlapInv'
  <2>1. Held([at |-> "sending", to |-> pushes[r].known]) \subseteq Held(pushes[r])
    BY DEF Held
  <2> QED
    BY <1>1, <1>6, <2>1 DEF PushUnanswered
<1>7. ASSUME NEW r \in Push, PushRegistered(r)
      PROVE  OverlapInv'
  <2> DEFINE now == IF pushes[r].rejected THEN NotPushing
                    ELSE [at |-> "sending", to |-> pushes[r].to]
  <2>1. Held(now) \subseteq Held(pushes[r])
    BY DEF Held, NotPushing
  <2> QED
    BY <1>1, <1>7, <2>1 DEF PushRegistered
<1>8. ASSUME NEW r \in Push, PushSends(r) \/ PushFails(r)
      PROVE  OverlapInv'
  <2>1. Held(NotPushing) \subseteq Held(pushes[r])
    BY DEF Held, NotPushing
  <2> QED
    BY <1>1, <1>8, <2>1 DEF PushSends, PushFails
<1>9. CASE PushTick
  <2>1. RecentlyRegistered' \subseteq RecentlyRegistered
    <3>1. Registered' = Registered
          /\ \A t \in Registered : registry'[t] = IF registry[t] < Year THEN registry[t] + 1
                                                  ELSE Year
      BY <1>9 DEF PushTick, Registered
    <3>2. ~(Year < Year)
      BY PushAssumption
    <3> QED
      BY <3>1, <3>2 DEF RecentlyRegistered
  <2> QED
    BY <1>9, <2>1, NoneHeldMore DEF PushTick
<1>10. CASE UNCHANGED pushVars
  BY <1>10, NoneHeldMore DEF pushVars, RecentlyRegistered, Registered
<1> QED
  BY <1>2, <1>3, <1>4, <1>5, <1>6, <1>7, <1>8, <1>9, <1>10, PromisedInBounds DEF PushNext

(***************************************************************************)
(* As long as no count has failed, requests that overlap                   *)
(* (resolvePushTokens of routes.js) register at most the year's number     *)
(* each, for any number of them: the excess over the cap is bounded by how *)
(* many run at once.                                                       *)
(***************************************************************************)
THEOREM OverlapIsBounded == PushSpec => []OverlapBounded
<1>1. PushInit => PushInv /\ OverlapInv
  <2> SUFFICES ASSUME PushInit PROVE PushInv /\ OverlapInv
    OBVIOUS
  <2>1. PushInv
    BY DEF PushInit, PushInv, HoldsVouched, PushedWereVouchedFor, Registered
  <2>2. RecentlyRegistered = {} /\ AllHeld = {} /\ \A r \in Push : Held(pushes[r]) = {}
    BY DEF PushInit, RecentlyRegistered, Registered, AllHeld, Held, NotPushing
  <2>3. MaxNew * Cardinality(Push) \in Nat /\ Cardinality({}) = 0
    BY PlaceSizes, FS_EmptySet
  <2>4. RecentlyRegistered \union AllHeld = {}
    BY <2>2
  <2>5. \A r \in Push : Cardinality(Held(pushes[r])) <= MaxNew
    <3>1. 0 <= MaxNew
      BY PlaceSizes
    <3>2. \A r \in Push : Cardinality(Held(pushes[r])) = 0
      BY <2>2, <2>3, Zenon
    <3> QED
      BY <3>1, <3>2
  <2>6. Cardinality(RecentlyRegistered \union AllHeld) <= MaxNew * Cardinality(Push)
    <3>1. 0 <= MaxNew * Cardinality(Push)
      BY <2>3
    <3>2. Cardinality(RecentlyRegistered \union AllHeld) = 0
      BY <2>3, <2>4, Zenon
    <3> QED
      BY <3>1, <3>2
  <2>7. RecentlyRegistered \subseteq Token /\ \A r \in Push : Held(pushes[r]) \subseteq Token
    BY <2>2
  <2> QED
    BY <2>1, <2>5, <2>6, <2>7 DEF OverlapInv
<1>2. OverlapInv => OverlapBounded
  <2> SUFFICES ASSUME OverlapInv, ~blind
               PROVE  Cardinality(RecentlyRegistered) <= MaxNew * Cardinality(Push)
    BY DEF OverlapBounded
  <2> DEFINE all == RecentlyRegistered \union AllHeld
  <2>1. RecentlyRegistered \in SUBSET Token /\ all \in SUBSET Token
    BY DEF OverlapInv, AllHeld
  <2>2. Cardinality(all) <= MaxNew * Cardinality(Push) /\ RecentlyRegistered \subseteq all
    BY DEF OverlapInv
  <2>3. MaxNew * Cardinality(Push) \in Nat
    BY PlaceSizes
  <2> HIDE DEF all
  <2>4. /\ Cardinality(RecentlyRegistered) <= Cardinality(all)
        /\ Cardinality(RecentlyRegistered) \in Nat /\ Cardinality(all) \in Nat
    BY <2>1, <2>2, PlaceSizes
  <2> QED
    BY <2>2, <2>3, <2>4
<1> QED
  BY <1>1, <1>2, PushInvStep, OverlapInvStep, PTL DEF PushSpec

-----------------------------------------------------------------------------
(* TokenCache: for every margin, every lifetime an issuer gives, every     *)
(* number of overlapping calls and however long they wait.                 *)

Asking == [at: {"asking"}, service: Service, waited: Nat]
Made == [at: {"made"}, service: Service, waited: Nat, life: Nat, left: Nat]
Sent == [at: {"sent"}, service: Service, left: Nat, since: Nat]

(* What is kept is kept no longer than the margin before the token         *)
(* expires; a token an answer brings has aged no more than the call has    *)
(* waited; one that was sent had the margin left.                          *)
EntrySound(s) ==
    /\ cache[s] \in [keep: Nat, left: Nat]
    /\ cache[s].keep > 0 => cache[s].left >= cache[s].keep + Margin[s]

CallSound(call) ==
    \/ call = NoCall
    \/ call \in Asking
    \/ call \in Made /\ call.left + call.waited >= call.life
    \/ call \in Sent /\ call.left + call.since > Margin[call.service]

CacheInv ==
    /\ cache = [s \in Service |-> cache[s]]
    /\ calls = [c \in Call |-> calls[c]]
    /\ \A s \in Service : EntrySound(s)
    /\ \A c \in Call : CallSound(calls[c])

(* A token and its cache entry age together. *)
LEMMA AgedSound ==
    ASSUME NEW call, CallSound(call)
    PROVE  CallSound(Aged(call))
<1> USE CacheAssumption DEF CallSound
<1>1. CASE call = NoCall
  BY <1>1 DEF Aged, NoCall
<1>2. CASE call \in Asking
  <2>1. Aged(call) = [call EXCEPT !.waited = @ + 1]
    BY <1>2 DEF Aged, Asking
  <2> QED
    BY <1>2, <2>1 DEF Asking
<1>3. CASE call \in Made /\ call.left + call.waited >= call.life
  <2>1. Aged(call) = [call EXCEPT !.waited = @ + 1, !.left = Less(@, 1)]
    BY <1>3 DEF Aged, Made
  <2>2. Less(call.left, 1) \in Nat /\ Less(call.left, 1) >= call.left - 1
    BY <1>3 DEF Made, Less
  <2>3. /\ Aged(call) \in Made
        /\ Aged(call).left = Less(call.left, 1)
        /\ Aged(call).waited = call.waited + 1
        /\ Aged(call).life = call.life
    <3>1. PICK l \in Nat : l = Less(call.left, 1)
      BY <2>2
    <3>2. PICK n \in Nat : n = call.waited + 1
      BY <1>3 DEF Made
    <3>3. Aged(call) = [call EXCEPT !.waited = n, !.left = l]
      BY <2>1, <3>1, <3>2
    <3> HIDE DEF CallSound
    <3> QED
      BY <1>3, <3>1, <3>2, <3>3 DEF Made
  <2>4. call \in Made
    BY <1>3
  <2> QED
    BY <1>3, <2>2, <2>3, <2>4 DEF Made
<1>4. CASE call \in Sent /\ call.left + call.since > Margin[call.service]
  <2>1. Aged(call) = [call EXCEPT !.since = @ + 1, !.left = Less(@, 1)]
    BY <1>4 DEF Aged, Sent
  <2>2. Less(call.left, 1) \in Nat /\ Less(call.left, 1) >= call.left - 1
    BY <1>4 DEF Sent, Less
  <2>3. /\ Aged(call) \in Sent
        /\ Aged(call).left = Less(call.left, 1)
        /\ Aged(call).since = call.since + 1
        /\ Aged(call).service = call.service
    <3>1. PICK l \in Nat : l = Less(call.left, 1)
      BY <2>2
    <3>2. PICK n \in Nat : n = call.since + 1
      BY <1>4 DEF Sent
    <3>3. Aged(call) = [call EXCEPT !.since = n, !.left = l]
      BY <2>1, <3>1, <3>2
    <3> HIDE DEF CallSound
    <3> QED
      BY <1>4, <3>1, <3>2, <3>3 DEF Sent
  <2>4. Margin[call.service] \in Nat
    BY <1>4 DEF Sent
  <2> QED
    BY <1>4, <2>2, <2>3, <2>4 DEF Sent
<1> QED
  BY <1>1, <1>2, <1>3, <1>4

LEMMA CacheInvStep == CacheInv /\ [CacheNext]_cacheVars => CacheInv'
<1> SUFFICES ASSUME CacheInv, [CacheNext]_cacheVars PROVE CacheInv'
  OBVIOUS
<1> USE CacheAssumption DEF CacheInv, EntrySound
<1>1. ASSUME NEW c \in Call, NEW s \in Service, CacheHit(c, s)
      PROVE  CacheInv'
  BY <1>1 DEF CacheHit, CallSound, Sent
<1>2. ASSUME NEW c \in Call, NEW s \in Service, CacheMiss(c, s)
      PROVE  CacheInv'
  BY <1>2 DEF CacheMiss, CallSound, Asking
<1>3. ASSUME NEW c \in Call, TokenMade(c)
      PROVE  CacheInv'
  <2>1. calls[c] \in Asking
    BY <1>3 DEF TokenMade, CallSound, NoCall, Made, Sent
  <2>2. PICK life \in Life[calls[c].service] :
          calls' = [calls EXCEPT ![c] =
              [at |-> "made", service |-> calls[c].service,
               waited |-> calls[c].waited, life |-> life, left |-> life]]
    BY <1>3 DEF TokenMade
  <2>3. life \in Nat
    BY <2>1 DEF Asking
  <2>4. CallSound(calls[c])'
    BY <2>1, <2>2, <2>3 DEF CallSound, Asking, Made
  <2> QED
    BY <1>3, <2>2, <2>4 DEF TokenMade
<1>4. ASSUME NEW c \in Call, TokenComes(c)
      PROVE  CacheInv'
  <2>1. calls[c] \in Made /\ calls[c].left + calls[c].waited >= calls[c].life
    BY <1>4 DEF TokenComes, CallSound, NoCall, Asking, Sent
  <2>2. CallSound(NoCall)
    BY DEF CallSound
  <2> QED
    BY <1>4, <2>1, <2>2 DEF TokenComes, Made, Kept, Less
<1>5. ASSUME NEW c \in Call, CallEnds(c)
      PROVE  CacheInv'
  BY <1>5 DEF CallEnds, CallSound
<1>6. CASE Elapse
  <2>1. \A s \in Service : EntrySound(s)'
    BY <1>6 DEF Elapse, Less
  <2>2. \A c \in Call : calls'[c] = Aged(calls[c])
    BY <1>6 DEF Elapse
  <2> QED
    BY <1>6, <2>1, <2>2, AgedSound DEF Elapse
<1>7. CASE UNCHANGED cacheVars
  BY <1>7 DEF cacheVars
<1> QED
  BY <1>1, <1>2, <1>3, <1>4, <1>5, <1>6, <1>7 DEF CacheNext

(***************************************************************************)
(* A token taken from the cache (getWifAccessToken, getMetadataToken,      *)
(* getApnsJwt, getGitHubAppJwt) outlives the request it is sent with, if *)
(* that takes no longer than the margin.                                   *)
(***************************************************************************)
THEOREM TokensOutliveUse == CacheSpec => []CachedTokenOutlivesUse
<1>1. CacheInit => CacheInv
  BY CacheAssumption DEF CacheInit, CacheInv, EntrySound, CallSound
<1>2. CacheInv => CachedTokenOutlivesUse
  BY CacheAssumption DEF CacheInv, CallSound, CachedTokenOutlivesUse, NoCall,
     Asking, Made, Sent
<1> QED
  BY <1>1, <1>2, CacheInvStep, PTL DEF CacheSpec
-----------------------------------------------------------------------------
(* TenantContract: for every number of tenants, requests under way, issues *)
(* of a route and whatever the monitor's thresholds are.                   *)

Failures == [deposit: Nat, lookup: Nat, deploy: Nat]

VisitSound(x) ==
    \/ x = NoVisit
    \/ x \in [at: {"exchanging"}, of: Tenant]
    \/ x \in [at: {"depositing", "deploying"}, of: Tenant, route: 0..MaxIssue]

ContractInv ==
    /\ route \in [Tenant -> 0..MaxIssue]
    /\ issues \in [Tenant -> 0..MaxIssue]
    /\ backend \in [Tenant -> Answer]
    /\ metrics \in [Tenant -> [0..MaxIssue -> Failures]]
    /\ visits = [v \in Visit |-> visits[v]]
    /\ \A v \in Visit : VisitSound(visits[v])

(* What a step counts elsewhere, and leaves of the deposits. *)
LEMMA CountedElsewhere ==
    ASSUME ContractInv, NEW t, NEW i, NEW m \in Failures,
           metrics' = [metrics EXCEPT ![t][i] = m],
           m.deposit = metrics[t][i].deposit
    PROVE  /\ metrics' \in [Tenant -> [0..MaxIssue -> Failures]]
           /\ \A u \in Tenant, j \in 0..MaxIssue :
                 metrics'[u][j].deposit = metrics[u][j].deposit
BY DEF ContractInv

LEMMA CountedUp ==
    ASSUME NEW n \in Nat, NEW limit \in Nat
    PROVE  UpTo(n + 1, limit) \in Nat
BY DEF UpTo

LEMMA Thresholds ==
    /\ DepositLimit \in Nat /\ LookupLimit \in Nat /\ DeployLimit \in Nat
    /\ MaxIssue \in Nat /\ 0 \in 0..MaxIssue
BY ContractAssumption

(* A lookup that failed is not counted as a deposit. *)
LEMMA LookupKeepsDeposits ==
    ASSUME ContractInv, NEW t \in Tenant, LookupFailed(t)
    PROVE  /\ metrics' \in [Tenant -> [0..MaxIssue -> Failures]]
           /\ \A u \in Tenant, j \in 0..MaxIssue :
                 metrics'[u][j].deposit = metrics[u][j].deposit
<1> DEFINE m == [metrics[t][0] EXCEPT !.lookup = UpTo(@ + 1, LookupLimit)]
<1>1. 0 \in 0..MaxIssue
  BY Thresholds
<1>2. metrics[t][0] \in Failures
  BY <1>1 DEF ContractInv
<1>3. UpTo(metrics[t][0].lookup + 1, LookupLimit) \in Nat
  BY <1>2, CountedUp, Thresholds DEF Failures
<1>4. m \in Failures /\ m.deposit = metrics[t][0].deposit
  BY <1>2, <1>3 DEF Failures
<1>5. metrics' = [metrics EXCEPT ![t][0] = m]
  <2>1. metrics' = [metrics EXCEPT ![t][0].lookup = UpTo(metrics[t][0].lookup + 1, LookupLimit)]
    BY <1>1 DEF LookupFailed, ContractInv, Failures
  <2> QED
    BY <1>2, <2>1
<1> HIDE DEF m
<1> QED
  BY <1>4, <1>5, CountedElsewhere

(* Nor is a deploy. *)
LEMMA DeployKeepsDeposits ==
    ASSUME ContractInv, NEW t \in Tenant, NEW i \in 0..MaxIssue, NEW n \in Nat,
           metrics' = [metrics EXCEPT ![t][i].deploy = n]
    PROVE  /\ metrics' \in [Tenant -> [0..MaxIssue -> Failures]]
           /\ \A u \in Tenant, j \in 0..MaxIssue :
                 metrics'[u][j].deposit = metrics[u][j].deposit
<1> DEFINE m == [metrics[t][i] EXCEPT !.deploy = n]
<1>1. metrics[t][i] \in Failures
  BY DEF ContractInv
<1>2. m \in Failures /\ m.deposit = metrics[t][i].deposit
  BY <1>1 DEF Failures
<1>3. metrics' = [metrics EXCEPT ![t][i] = m]
  OBVIOUS
<1> HIDE DEF m
<1>4. metrics \in [Tenant -> [0..MaxIssue -> Failures]]
  BY DEF ContractInv
<1>5. /\ metrics' = [u \in Tenant |-> metrics'[u]]
      /\ metrics'[t] = [metrics[t] EXCEPT ![i] = m]
      /\ \A u \in Tenant \ {t} : metrics'[u] = metrics[u]
  BY <1>3, <1>4
<1>6. metrics'[t] \in [0..MaxIssue -> Failures]
  BY <1>2, <1>4, <1>5
<1>7. metrics' \in [Tenant -> [0..MaxIssue -> Failures]]
  BY <1>4, <1>5, <1>6
<1> QED
  BY <1>2, <1>4, <1>5, <1>7

Same == \A t \in Tenant, i \in 0..MaxIssue : metrics'[t][i].deposit = metrics[t][i].deposit

(* The deposit counted by a step is the one that was under way to the      *)
(* route.                                                                  *)
Reports ==
    \A t \in Tenant, i \in 0..MaxIssue :
        metrics'[t][i].deposit # metrics[t][i].deposit =>
            \E v \in Visit :
                /\ visits[v] = [at |-> "depositing", of |-> t, route |-> i]
                /\ visits'[v] # visits[v]

LEMMA ContractStep ==
    ContractInv /\ [ContractNext]_contractVars => ContractInv' /\ Reports
<1> SUFFICES ASSUME ContractInv, [ContractNext]_contractVars PROVE ContractInv' /\ Reports
  OBVIOUS
(* A request moves on, and no deposit is counted. *)
<1>1. ASSUME NEW v \in Visit, NEW x, VisitSound(x), visits' = [visits EXCEPT ![v] = x],
             UNCHANGED <<route, issues, backend>>,
             metrics' \in [Tenant -> [0..MaxIssue -> Failures]], Same
      PROVE  ContractInv' /\ Reports
  BY <1>1 DEF ContractInv, VisitSound, Reports, Same
<1>2. ASSUME UNCHANGED visits, (route \in [Tenant -> 0..MaxIssue])',
             (issues \in [Tenant -> 0..MaxIssue])', (backend \in [Tenant -> Answer])',
             metrics' \in [Tenant -> [0..MaxIssue -> Failures]], Same
      PROVE  ContractInv' /\ Reports
  BY <1>2 DEF ContractInv, VisitSound, Reports, Same
<1>3. ASSUME UNCHANGED metrics
      PROVE  metrics' \in [Tenant -> [0..MaxIssue -> Failures]] /\ Same
  BY <1>3 DEF ContractInv, Same
<1>4. ASSUME NEW t \in Tenant, Reissue(t) \/ Withdraw(t)
      PROVE  ContractInv' /\ Reports
  <2>1. (route \in [Tenant -> 0..MaxIssue])' /\ (issues \in [Tenant -> 0..MaxIssue])'
    <3>1. CASE Reissue(t)
      <4>1. issues[t] + 1 \in 0..MaxIssue
        BY <3>1, Thresholds DEF Reissue, ContractInv
      <4>2. issues' = [issues EXCEPT ![t] = issues[t] + 1]
        BY <3>1 DEF Reissue
      <4>3. issues'[t] = issues[t] + 1
        BY <4>2 DEF ContractInv
      <4>4. route' = [route EXCEPT ![t] = issues[t] + 1]
        BY <3>1, <4>3 DEF Reissue
      <4> QED
        BY <4>1, <4>2, <4>4 DEF ContractInv
    <3>2. CASE Withdraw(t)
      BY <3>2, Thresholds DEF Withdraw, ContractInv
    <3> QED
      BY <1>4, <3>1, <3>2
  <2>2. UNCHANGED <<visits, metrics>>
    BY <1>4 DEF Reissue, Withdraw
  <2>3. (backend \in [Tenant -> Answer])'
    BY <1>4 DEF Reissue, Withdraw, ContractInv
  <2> QED
    BY <1>2, <1>3, <2>1, <2>2, <2>3
<1>5. ASSUME NEW t \in Tenant, NEW answer \in Answer, BackendTurns(t, answer)
      PROVE  ContractInv' /\ Reports
  BY <1>2, <1>3, <1>5 DEF BackendTurns, ContractInv
<1>6. ASSUME NEW t \in Tenant, PushLooksUp(t)
      PROVE  ContractInv' /\ Reports
  BY <1>2, <1>6, LookupKeepsDeposits DEF PushLooksUp, ContractInv, Same
<1>7. ASSUME NEW v \in Visit, NEW t \in Tenant, CallbackBegins(v, t)
      PROVE  ContractInv' /\ Reports
  <2>1. VisitSound([at |-> "exchanging", of |-> t])
    BY DEF VisitSound
  <2> QED
    BY <1>1, <1>3, <1>7, <2>1 DEF CallbackBegins
<1>8. ASSUME NEW v \in Visit, NEW t \in Tenant, WebhookBegins(v, t)
      PROVE  ContractInv' /\ Reports
  <2>1. CASE route[t] = 0
    <3>1. 0 \in 0..MaxIssue /\ metrics[t][0] \in Failures
      BY Thresholds DEF ContractInv
    <3>2. UpTo(metrics[t][0].deploy + 1, DeployLimit) \in Nat
      BY <3>1, CountedUp, Thresholds DEF Failures
    <3>3. metrics' = [metrics EXCEPT ![t][0].deploy = UpTo(metrics[t][0].deploy + 1, DeployLimit)]
      BY <1>8, <2>1, <3>1 DEF WebhookBegins, ContractInv
    <3>4. metrics' \in [Tenant -> [0..MaxIssue -> Failures]] /\ Same
      BY <3>1, <3>2, <3>3, DeployKeepsDeposits DEF Same
    <3>5. UNCHANGED <<visits, route, issues, backend>>
      BY <1>8, <2>1 DEF WebhookBegins
    <3> QED
      BY <1>2, <3>4, <3>5 DEF ContractInv
  <2>2. CASE route[t] # 0
    <3> DEFINE x == [at |-> "deploying", of |-> t, route |-> route[t]]
    <3>1. VisitSound(x)
      BY DEF VisitSound, ContractInv
    <3>2. visits' = [visits EXCEPT ![v] = x] /\ UNCHANGED <<metrics, route, issues, backend>>
      BY <1>8, <2>2 DEF WebhookBegins
    <3> HIDE DEF x
    <3> QED
      BY <1>1, <1>3, <3>1, <3>2
  <2> QED
    BY <2>1, <2>2
<1>9. VisitSound(NoVisit)
  BY DEF VisitSound
<1>10. ASSUME NEW v \in Visit, ExchangeFails(v)
       PROVE  ContractInv' /\ Reports
  BY <1>1, <1>3, <1>9, <1>10 DEF ExchangeFails
<1>11. ASSUME NEW v \in Visit, Exchanged(v)
       PROVE  ContractInv' /\ Reports
  <2>1. visits[v].of \in Tenant
    BY <1>11 DEF Exchanged, ContractInv, VisitSound, NoVisit
  <2>2. CASE route[visits[v].of] = 0
    <3>1. /\ LookupFailed(visits[v].of) /\ visits' = [visits EXCEPT ![v] = NoVisit]
          /\ UNCHANGED <<route, issues, backend>>
      BY <1>11, <2>2 DEF Exchanged
    <3> QED
      BY <1>1, <1>9, <2>1, <3>1, LookupKeepsDeposits DEF Same
  <2>3. CASE route[visits[v].of] # 0
    <3> DEFINE x == [at |-> "depositing", of |-> visits[v].of, route |-> route[visits[v].of]]
    <3>1. VisitSound(x)
      BY <2>1 DEF VisitSound, ContractInv
    <3>2. visits' = [visits EXCEPT ![v] = x] /\ UNCHANGED <<metrics, route, issues, backend>>
      BY <1>11, <2>3 DEF Exchanged
    <3> HIDE DEF x
    <3> QED
      BY <1>1, <1>3, <3>1, <3>2
  <2> QED
    BY <2>2, <2>3
<1>12. ASSUME NEW v \in Visit, Deposited(v)
       PROVE  ContractInv' /\ Reports
  <2> DEFINE t == visits[v].of
             i == visits[v].route
             m == DepositReported(metrics[t][i], backend[t])
  <2>1. /\ visits[v].at = "depositing" /\ visits' = [visits EXCEPT ![v] = NoVisit]
        /\ metrics' = [metrics EXCEPT ![t][i] = DepositReported(@, backend[t])]
        /\ UNCHANGED <<route, issues, backend>>
    BY <1>12 DEF Deposited
  <2>2. /\ t \in Tenant /\ i \in 0..MaxIssue
        /\ visits[v] = [at |-> "depositing", of |-> t, route |-> i]
    BY <2>1 DEF ContractInv, VisitSound, NoVisit
  <2>3. metrics[t][i] \in Failures
    BY <2>2 DEF ContractInv
  <2>4. m \in Failures
    <3> DEFINE old == metrics[t][i]
    <3>1. UpTo(old.deposit + 1, DepositLimit) \in Nat /\ UpTo(0 + 1, DepositLimit) \in Nat
      BY <2>3, CountedUp, Thresholds DEF Failures
    <3>2. /\ DepositSucceeded(old) \in Failures /\ DepositSucceeded(old).deposit = 0
          /\ DepositFailed(old) \in Failures
      BY <2>3, <3>1 DEF Failures, DepositSucceeded, DepositFailed
    <3>3. DepositFailed(DepositSucceeded(old)) \in Failures
      BY <3>1, <3>2 DEF Failures, DepositFailed
    <3>4. backend[t] \in {"works", "codeless", "fails"}
      BY <2>2 DEF ContractInv, Answer
    <3> QED
      BY <3>2, <3>3, <3>4 DEF DepositReported
  <2>5. metrics' = [metrics EXCEPT ![t][i] = m]
    BY <2>1, <2>2 DEF ContractInv
  <2> HIDE DEF m
  <2>6. /\ metrics' \in [Tenant -> [0..MaxIssue -> Failures]]
        /\ \A u \in Tenant, j \in 0..MaxIssue : u # t \/ j # i =>
              metrics'[u][j] = metrics[u][j]
    BY <2>2, <2>4, <2>5 DEF ContractInv
  <2>7. visits'[v] # visits[v]
    BY <2>1 DEF ContractInv, NoVisit
  <2>8. Reports
    BY <2>2, <2>6, <2>7 DEF Reports
  <2>9. ContractInv'
    BY <1>9, <2>1, <2>6 DEF ContractInv, VisitSound
  <2> QED
    BY <2>8, <2>9
<1>13. ASSUME NEW v \in Visit, Forwarded(v)
       PROVE  ContractInv' /\ Reports
  <2> DEFINE t == visits[v].of
             i == visits[v].route
             n == IF backend[t] = "fails" THEN UpTo(metrics[t][i].deploy + 1, DeployLimit) ELSE 0
  <2>1. /\ visits[v].at = "deploying" /\ visits' = [visits EXCEPT ![v] = NoVisit]
        /\ metrics' = [metrics EXCEPT ![t][i].deploy =
              IF backend[t] = "fails" THEN UpTo(@ + 1, DeployLimit) ELSE 0]
        /\ UNCHANGED <<route, issues, backend>>
    BY <1>13 DEF Forwarded
  <2>2. t \in Tenant /\ i \in 0..MaxIssue
    BY <2>1 DEF ContractInv, VisitSound, NoVisit
  <2>3. metrics[t][i] \in Failures
    BY <2>2 DEF ContractInv
  <2>4. n \in Nat
    BY <2>3, CountedUp, Thresholds DEF Failures
  <2>5. metrics' = [metrics EXCEPT ![t][i].deploy = n]
    BY <2>1, <2>2 DEF ContractInv
  <2> HIDE DEF n
  <2>6. metrics' \in [Tenant -> [0..MaxIssue -> Failures]] /\ Same
    BY <2>2, <2>4, <2>5, DeployKeepsDeposits DEF Same
  <2> QED
    BY <1>1, <1>9, <2>1, <2>6
<1>14. CASE UNCHANGED contractVars
  BY <1>2, <1>3, <1>14 DEF contractVars, ContractInv
<1> QED
  BY <1>4, <1>5, <1>6, <1>7, <1>8, <1>10, <1>11, <1>12, <1>13, <1>14 DEF ContractNext

(***************************************************************************)
(* What a deposit's answer says is counted for the route it was sent over  *)
(* (handleCallback of routes.js, recordTokenDeposit of                     *)
(* governance-monitor.js), whatever became of the route meanwhile.         *)
(***************************************************************************)
THEOREM DepositsCountWhereSent == ContractSpec => CountedWhereSent
<1>1. ContractInit => ContractInv
  <2> SUFFICES ASSUME ContractInit PROVE ContractInv
    OBVIOUS
  <2>1. [deposit |-> 0, lookup |-> 0, deploy |-> 0] \in Failures
    BY DEF Failures
  <2>2. metrics \in [Tenant -> [0..MaxIssue -> Failures]]
    BY <2>1 DEF ContractInit
  <2>3. visits = [v \in Visit |-> visits[v]] /\ \A v \in Visit : VisitSound(visits[v])
    BY DEF ContractInit, VisitSound
  <2>4. /\ route \in [Tenant -> 0..MaxIssue] /\ issues \in [Tenant -> 0..MaxIssue]
        /\ backend \in [Tenant -> Answer]
    BY Thresholds DEF ContractInit, Answer
  <2> QED
    BY <2>2, <2>3, <2>4 DEF ContractInv
<1>2. ContractInv /\ [ContractNext]_contractVars => [Reports]_contractVars
  BY ContractStep
<1> QED
  BY <1>1, <1>2, ContractStep, PTL DEF ContractSpec, CountedWhereSent, Reports
=============================================================================
