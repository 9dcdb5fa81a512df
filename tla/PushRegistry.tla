---------------------------- MODULE PushRegistry ----------------------------
(***************************************************************************)
(* Pushes to the devices of one couple (src/src/routes.js,                 *)
(* src/src/apns.js).  Its server names device tokens; the broker pushes to *)
(* those it has in its registry and to those it does not know that the     *)
(* couple's server vouches for.  Those are registered, so many a year.     *)
(* The registry is read, counted and written in calls of their own, while  *)
(* other requests run.  Ages of registrations count up to a year.          *)
(***************************************************************************)
EXTENDS Naturals, FiniteSets

CONSTANTS
    Token,    \* device tokens
    Push,     \* pushes under way at once
    MaxNew,   \* MAX_NEW_TOKENS_PER_YEAR
    Year      \* YEAR_MS

ASSUME PushAssumption ==
    /\ IsFiniteSet(Token) /\ IsFiniteSet(Push)
    /\ {MaxNew, Year} \subseteq Nat \ {0}

VARIABLES
    registry, \* push_device_registry: the age of each token's firstSeen
    pushes,   \* the requests under way
    vouched,  \* history: tokens the couple's server has vouched for
    pushed,   \* history: tokens pushed to
    blind     \* history: whether a count has failed and was taken to be 0

pushVars == <<registry, pushes, vouched, pushed, blind>>

NotPushing == [at |-> "idle"]

PushInit ==
    /\ registry = [t \in {} |-> 0]
    /\ pushes = [r \in Push |-> NotPushing]
    /\ vouched = {}
    /\ pushed = {}
    /\ blind = FALSE

Registered == DOMAIN registry

(* What the query of countRecentRegistrations counts. *)
RecentlyRegistered == {t \in Registered : registry[t] < Year}

(* getRegistryDoc of each token at once.  A lookup that fails, or that     *)
(* reads before another request registers the token, finds nothing.        *)
PushBegins(r, asked, known) ==
    /\ pushes[r] = NotPushing
    /\ known \subseteq Registered \cap asked
    /\ pushes' = [pushes EXCEPT ![r] =
          IF known = asked THEN [at |-> "sending", to |-> known]
          ELSE [at |-> "counting", known |-> known, new |-> asked \ known]]
    /\ UNCHANGED <<registry, vouched, pushed, blind>>

(* Mutant: every request may register the year's number. *)
RemainingUncounted(count) == MaxNew

Remaining(count) == IF count < MaxNew THEN MaxNew - count ELSE 0

(* The answer of the count: without an access token, as if the year's      *)
(* number were used; 0 if the query fails.                                 *)
CountAnswers(r, count) ==
    \/ count = Cardinality(RecentlyRegistered) /\ UNCHANGED blind
    \/ count = MaxNew /\ UNCHANGED blind
    \/ count = 0 /\ blind' = TRUE

(* The tokens asked about are the first of the new ones; a token named     *)
(* twice takes two places.                                                 *)
PushCounted(r, count, asked) ==
    /\ pushes[r].at = "counting"
    /\ CountAnswers(r, count)
    /\ asked \subseteq pushes[r].new
    /\ asked # {}
    /\ Cardinality(asked) <= Remaining(count)
    /\ pushes' = [pushes EXCEPT ![r] =
          [at |-> "verifying", known |-> pushes[r].known, new |-> asked]]
    /\ UNCHANGED <<registry, vouched, pushed>>

(* None may be registered: the known ones are pushed to all the same. *)
PushFull(r, count) ==
    /\ pushes[r].at = "counting"
    /\ CountAnswers(r, count)
    /\ Remaining(count) = 0
    /\ pushes' = [pushes EXCEPT ![r] =
          IF pushes[r].known = {} THEN NotPushing
          ELSE [at |-> "sending", to |-> pushes[r].known]]
    /\ UNCHANGED <<registry, vouched, pushed>>

(* verify-tokens: of what the couple's server answers, the tokens asked    *)
(* about are registered.                                                   *)
PushVerified(r, answer) ==
    /\ pushes[r].at = "verifying"
    /\ LET verified == answer \cap pushes[r].new
       IN  /\ vouched' = vouched \union verified
           /\ pushes' = [pushes EXCEPT ![r] =
                 [at |-> "registering", left |-> verified, rejected |-> FALSE,
                  to |-> pushes[r].known \union verified]]
    /\ UNCHANGED <<registry, pushed, blind>>

(* Mutant: without an answer the new tokens are pushed to as well. *)
PushUnansweredSent(r) ==
    /\ pushes[r].at = "verifying"
    /\ pushes' = [pushes EXCEPT ![r] =
          [at |-> "sending", to |-> pushes[r].known \union pushes[r].new]]
    /\ UNCHANGED <<registry, vouched, pushed, blind>>

(* It answers with an error. *)
PushUnanswered(r) ==
    /\ pushes[r].at = "verifying"
    /\ pushes' = [pushes EXCEPT ![r] = [at |-> "sending", to |-> pushes[r].known]]
    /\ UNCHANGED <<registry, vouched, pushed, blind>>

(* upsertRegistryDoc of one token: a new document, or a known token's      *)
(* whose lookup failed with a new date; or nothing is written, and nobody  *)
(* looks at the answer; or the call throws.                                *)
PushRegisters(r, t) ==
    /\ pushes[r].at = "registering"
    /\ t \in pushes[r].left
    /\ \/ registry' = [u \in Registered \union {t} |->
                          IF u = t THEN 0 ELSE registry[u]]
       \/ UNCHANGED registry
    /\ \E throws \in BOOLEAN :
          pushes' = [pushes EXCEPT ![r].left = @ \ {t},
                                   ![r].rejected = @ \/ throws]
    /\ UNCHANGED <<vouched, pushed, blind>>

(* All are written: the push goes on, unless a write has thrown. *)
PushRegistered(r) ==
    /\ pushes[r].at = "registering"
    /\ pushes[r].left = {}
    /\ pushes' = [pushes EXCEPT ![r] =
          IF pushes[r].rejected THEN NotPushing
          ELSE [at |-> "sending", to |-> pushes[r].to]]
    /\ UNCHANGED <<registry, vouched, pushed, blind>>

(* touchRegistryLastSeen, and sendSilentPush or sendAlertPush to each. *)
PushSends(r) ==
    /\ pushes[r].at = "sending"
    /\ pushed' = pushed \union pushes[r].to
    /\ pushes' = [pushes EXCEPT ![r] = NotPushing]
    /\ UNCHANGED <<registry, vouched, blind>>

(* A call throws, or the couple has no route. *)
PushFails(r) ==
    /\ pushes[r].at \in {"counting", "verifying", "sending"}
    /\ pushes' = [pushes EXCEPT ![r] = NotPushing]
    /\ UNCHANGED <<registry, vouched, pushed, blind>>

PushTick ==
    /\ registry' = [t \in Registered |->
          IF registry[t] < Year THEN registry[t] + 1 ELSE Year]
    /\ UNCHANGED <<pushes, vouched, pushed, blind>>

PushNext ==
    \/ \E r \in Push :
          \/ \E asked \in SUBSET Token \ {{}}, known \in SUBSET Token :
                PushBegins(r, asked, known)
          \/ \E count \in 0..Cardinality(Token) \union {MaxNew} :
                \/ \E asked \in SUBSET Token : PushCounted(r, count, asked)
                \/ PushFull(r, count)
          \/ \E answer \in SUBSET Token : PushVerified(r, answer)
          \/ \E t \in Token : PushRegisters(r, t)
          \/ PushUnanswered(r) \/ PushRegistered(r) \/ PushSends(r) \/ PushFails(r)
    \/ PushTick

PushSpec == PushInit /\ [][PushNext]_pushVars

-----------------------------------------------------------------------------
(* "after verifying token ownership" (routes.js:282): a push goes only to  *)
(* tokens the couple's own server has vouched for, in this request or in   *)
(* an earlier one that registered them, whatever lookups, counts, writes   *)
(* and answers fail.                                                       *)
PushedWereVouchedFor == pushed \subseteq vouched

(* As long as no count has failed, the requests that overlap register at   *)
(* most the year's number each, over the whole window: the excess over the *)
(* cap is bounded by how many run at once.                                 *)
OverlapBounded ==
    ~blind => Cardinality(RecentlyRegistered) <= MaxNew * Cardinality(Push)

(* "rate-limited by a 12-month sliding window on new registrations per     *)
(* couple" (routes.js:284-285), "subject to a 20/year registration cap"    *)
(* (routes.js:524): as long as no count has failed, no more than the       *)
(* year's number were registered within a year.                            *)
YearlyCap == ~blind => Cardinality(RecentlyRegistered) <= MaxNew
=============================================================================
