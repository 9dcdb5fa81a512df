-------------------------- MODULE LineageAuthority --------------------------
(***************************************************************************)
(* What a successor handoff promises about one epoch of a lineage: who     *)
(* governs it.  The predecessor holds the office, offers it to the         *)
(* candidate it certified, and either passes it on or takes the offer      *)
(* back: because the candidate declined, or because the offer expired, and *)
(* then the candidate may have taken the office unseen.                    *)
(* (completeActivation, applyActivationBundle, finalizeActivation and      *)
(* abortActivation of src/src/governance-state.js, without their requests, *)
(* messages, clocks, failing commits and restarts.)                        *)
(***************************************************************************)
CONSTANT Certificate \* the successor certificates the predecessor may sign

VARIABLES
    office,     \* the predecessor's: "held", "offered" or "passed"
    offer,      \* the certificate offered or passed, {} if none
    latest,     \* the certificate offered last, {} if none yet
    taken,      \* the certificates a candidate has applied
    lapsed,     \* the offers taken back on expiry
    refused     \* the offers taken back on the candidate's decline

vars == <<office, offer, latest, taken, lapsed, refused>>

Init ==
    /\ office = "held"
    /\ offer = {}
    /\ latest = {}
    /\ taken = {}
    /\ lapsed = {}
    /\ refused = {}

(* A new certificate replaces an expired one for good. *)
Certify(x) ==
    /\ office = "held"
    /\ x \notin taken \cup lapsed \cup refused
    /\ office' = "offered"
    /\ offer' = {x}
    /\ latest' = {x}
    /\ UNCHANGED <<taken, lapsed, refused>>

(* Mutant: a bundle is applied whenever it arrives. *)
TakeLate(x) ==
    /\ x \in offer \cup lapsed \cup refused
    /\ taken' = taken \cup {x}
    /\ UNCHANGED <<office, offer, latest, lapsed, refused>>

(* The candidate applies the bundle while the offer stands. *)
Take(x) ==
    /\ office = "offered"
    /\ offer = {x}
    /\ taken' = taken \cup {x}
    /\ UNCHANGED <<office, offer, latest, lapsed, refused>>

Decline(x) ==
    /\ office = "offered"
    /\ offer = {x}
    /\ x \notin taken
    /\ office' = "held"
    /\ offer' = {}
    /\ refused' = refused \cup {x}
    /\ UNCHANGED <<latest, taken, lapsed>>

(* Mutant: an expired offer is not marked as one. *)
ExpireForgotten(x) ==
    /\ office = "offered"
    /\ offer = {x}
    /\ office' = "held"
    /\ offer' = {}
    /\ UNCHANGED <<latest, taken, lapsed, refused>>

Expire(x) ==
    /\ office = "offered"
    /\ offer = {x}
    /\ office' = "held"
    /\ offer' = {}
    /\ lapsed' = lapsed \cup {x}
    /\ UNCHANGED <<latest, taken, refused>>

(* The proof of a candidate that took an expired offer restores the offer, *)
(* unless a newer one was made.                                            *)
Reopen(x) ==
    /\ office = "held"
    /\ x \in lapsed \cap taken
    /\ latest = {x}
    /\ office' = "offered"
    /\ offer' = {x}
    /\ UNCHANGED <<latest, taken, lapsed, refused>>

(* Mutant: retiring on any proof, whether or not the offer was taken. *)
PassUntaken(x) ==
    /\ office = "offered"
    /\ offer = {x}
    /\ office' = "passed"
    /\ UNCHANGED <<offer, latest, taken, lapsed, refused>>

Pass(x) ==
    /\ office = "offered"
    /\ offer = {x}
    /\ x \in taken
    /\ office' = "passed"
    /\ UNCHANGED <<offer, latest, taken, lapsed, refused>>

Next ==
    \E x \in Certificate :
        \/ Certify(x) \/ Take(x) \/ Decline(x) \/ Expire(x) \/ Reopen(x) \/ Pass(x)

Spec == Init /\ [][Next]_vars

(* A second authority beside the predecessor, or beside the candidate it   *)
(* offers the office to, exists only where an offer was taken back on      *)
(* expiry: the fork has no other cause.                                    *)
ForkOnlyByExpiry == taken \subseteq offer \cup lapsed

(* "A candidate that declined cannot have applied" (governance-state.js:   *)
(* 995), before the decline or after it.                                   *)
DeclinedNeverTakes == refused \cap taken = {}

(* The predecessor retires only for a candidate that has taken office. *)
PassedToTaker == office = "passed" => offer # {} /\ offer \subseteq taken
=============================================================================
