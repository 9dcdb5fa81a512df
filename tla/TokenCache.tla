----------------------------- MODULE TokenCache -----------------------------
(***************************************************************************)
(* The broker's cached access tokens: WIF and metadata tokens              *)
(* (src/src/gcp-auth.js), the APNs JWT (src/src/apns.js) and the GitHub    *)
(* app JWT (src/src/routes.js).  Each is kept until a margin before it     *)
(* expires.  An issuer answers with a lifetime, which begins when it makes *)
(* the token; the cache counts it from when the broker asked.  A JWT the   *)
(* broker makes itself is one whose issuer answers at once.  Calls that    *)
(* find no live token ask at the same time, and their answers come in any  *)
(* order; the last one stays.  Times are what is left, moved by Elapse.    *)
(***************************************************************************)
EXTENDS Naturals

CONSTANTS
    Service,   \* kinds of tokens
    Call,      \* calls that need a token
    Margin,    \* by service: 120 s, 60 s, 10 minutes of an hour, 1 of 9
    Life,      \* by service: the lifetimes its issuer gives
    MaxWait    \* bound: the longest a call waits for an answer

ASSUME CacheAssumption ==
    /\ Margin \in [Service -> Nat \ {0}]
    /\ Life \in [Service -> SUBSET (Nat \ {0})]
    /\ MaxWait \in Nat

VARIABLES
    cache,   \* by service: until when the cache keeps a token, what it has left
    calls    \* the calls under way

cacheVars == <<cache, calls>>

Less(n, m) == IF n > m THEN n - m ELSE 0

NoCall == [at |-> "idle"]

(* Nothing kept: what an expired entry and none amount to. *)
CacheInit ==
    /\ cache = [s \in Service |-> [keep |-> 0, left |-> 0]]
    /\ calls = [c \in Call |-> NoCall]

(* The cached token is live: it is sent with the call's request. *)
CacheHit(c, s) ==
    /\ calls[c] = NoCall
    /\ cache[s].keep > 0
    /\ calls' = [calls EXCEPT ![c] =
          [at |-> "sent", service |-> s, left |-> cache[s].left, since |-> 0]]
    /\ UNCHANGED cache

CacheMiss(c, s) ==
    /\ calls[c] = NoCall
    /\ cache[s].keep = 0
    /\ calls' = [calls EXCEPT ![c] = [at |-> "asking", service |-> s, waited |-> 0]]
    /\ UNCHANGED cache

(* The issuer makes a token; its answer is on its way. *)
TokenMade(c) ==
    /\ calls[c].at = "asking"
    /\ \E life \in Life[calls[c].service] :
          calls' = [calls EXCEPT ![c] =
              [at |-> "made", service |-> calls[c].service,
               waited |-> calls[c].waited, life |-> life, left |-> life]]
    /\ UNCHANGED cache

(* Mutant: the lifetime is counted from when the answer came. *)
KeptFromAnswer(call) == Less(call.life, Margin[call.service])

(* How long the cache keeps an answer. *)
Kept(call) == Less(call.life, Margin[call.service] + call.waited)

(* The answer is kept; the call sends it, however little it has left. *)
TokenComes(c) ==
    /\ calls[c].at = "made"
    /\ cache' = [cache EXCEPT ![calls[c].service] =
          [keep |-> Kept(calls[c]), left |-> calls[c].left]]
    /\ calls' = [calls EXCEPT ![c] = NoCall]

(* The issuer refuses or cannot be reached; or the request is over. *)
CallEnds(c) ==
    /\ calls[c] # NoCall
    /\ calls' = [calls EXCEPT ![c] = NoCall]
    /\ UNCHANGED cache

Aged(call) ==
    CASE call.at = "asking" -> [call EXCEPT !.waited = @ + 1]
      [] call.at = "made" ->
            [call EXCEPT !.waited = @ + 1, !.left = Less(@, 1)]
      [] call.at = "sent" ->
            [call EXCEPT !.since = @ + 1, !.left = Less(@, 1)]
      [] OTHER -> call

Elapse ==
    /\ \A c \in Call : /\ calls[c].at \in {"asking", "made"} => calls[c].waited < MaxWait
                       /\ calls[c].at = "sent" => calls[c].since < MaxWait
    /\ cache' = [s \in Service |->
          [keep |-> Less(cache[s].keep, 1), left |-> Less(cache[s].left, 1)]]
    /\ calls' = [c \in Call |-> Aged(calls[c])]

CacheNext ==
    \/ \E c \in Call :
          \/ \E s \in Service : CacheHit(c, s) \/ CacheMiss(c, s)
          \/ TokenMade(c) \/ TokenComes(c) \/ CallEnds(c)
    \/ Elapse

CacheSpec == CacheInit /\ [][CacheNext]_cacheVars

-----------------------------------------------------------------------------
(* A token taken from the cache outlives the request it is sent with, if   *)
(* the request takes no longer than the margin: however slow the answer    *)
(* that brought it was, and whichever of several answers came last.        *)
CachedTokenOutlivesUse ==
    \A c \in Call :
        calls[c].at = "sent" /\ calls[c].since <= Margin[calls[c].service] =>
            calls[c].left > 0
=============================================================================
