------------------------------ MODULE Genesis ------------------------------
(***************************************************************************)
(* How a fresh inactive replica comes to hold a lineage: by genesis from   *)
(* an adjudication it made itself (src/src/governance-state.js,            *)
(* src/src/first-principles-adjudication.js), by applying a handoff, or by *)
(* taking custody.  The three run concurrently; each looks at the state    *)
(* when it begins, and again when it changes it under the governance lock. *)
(* Every adjudication's payload differs, so its digest is its name.        *)
(* Times are ages moved by GenesisTick.                                    *)
(***************************************************************************)
EXTENDS Naturals, Sequences, FiniteSets, SequencesExt

CONSTANTS
    Adjudication,  \* adjudications asked for
    Bootstrap,     \* requests for genesis
    RecordLimit,   \* GENESIS_SELF_ADJUDICATION_LIMIT
    ApprovalTtl    \* an adjudication's time to expire

ASSUME GenesisAssumption == {RecordLimit, ApprovalTtl} \subseteq Nat \ {0}

VARIABLES
    status,    \* "inactive" or "active"
    lineage,   \* where the lineage this replica holds comes from
    records,   \* genesisSelfAdjudications, oldest first
    reviews,   \* what became of each adjudication, and its age
    boots      \* the genesis requests under way

genesisVars == <<status, lineage, records, reviews, boots>>

NoLineage == [by |-> "nobody"]
NoBoot == [at |-> "idle"]

GenesisInit ==
    /\ status = "inactive"
    /\ lineage = NoLineage
    /\ records = <<>>
    /\ reviews = [a \in Adjudication |-> [at |-> "unasked"]]
    /\ boots = [b \in Bootstrap |-> NoBoot]

FreshInactive == status = "inactive" /\ lineage = NoLineage

(* handleFirstPrinciplesAdjudicate: whether this is for the broker's own   *)
(* genesis is decided when the request comes.                              *)
AdjudicateBegins(a) ==
    /\ reviews[a].at = "unasked"
    /\ reviews' = [reviews EXCEPT ![a] =
          [at |-> "reviewing", own |-> status = "inactive"]]
    /\ UNCHANGED <<status, lineage, records, boots>>

(* recordGenesisSelfAdjudication *)
Recorded(a) ==
    LET all == Append(records, a)
    IN  IF Len(all) > RecordLimit THEN Tail(all) ELSE all

(* The review approves; its answer is recorded if it may be used here, and *)
(* in any case returned.                                                   *)
AdjudicateApproves(a) ==
    /\ reviews[a].at = "reviewing"
    /\ reviews' = [reviews EXCEPT ![a] =
          [at |-> "approved", own |-> reviews[a].own, age |-> 0]]
    /\ records' = IF reviews[a].own /\ FreshInactive THEN Recorded(a) ELSE records
    /\ UNCHANGED <<status, lineage, boots>>

AdjudicateRefuses(a) ==
    /\ reviews[a].at = "reviewing"
    /\ reviews' = [reviews EXCEPT ![a] = [at |-> "refused"]]
    /\ UNCHANGED <<status, lineage, records, boots>>

(* bootstrapGenesisFromAttestedApproval, up to its first await: the time   *)
(* it goes by is taken here.                                               *)
BootstrapBegins(b, a) ==
    /\ boots[b] = NoBoot
    /\ FreshInactive
    /\ reviews[a].at = "approved"
    /\ \E i \in 1..Len(records) : records[i] = a
    /\ boots' = [boots EXCEPT ![b] =
          [at |-> "checking", of |-> a, age |-> reviews[a].age]]
    /\ UNCHANGED <<status, lineage, records, reviews>>

(* Mutant: when the adjudication expires is not looked at. *)
BootstrapSignsStale(b) ==
    /\ boots[b].at = "checking"
    /\ boots' = [boots EXCEPT ![b].at = "signed"]
    /\ UNCHANGED <<status, lineage, records, reviews>>

(* Attestation, image provenance, decision and expiry hold: the genesis    *)
(* certificate is signed with the key of that moment.                      *)
BootstrapSigns(b) ==
    /\ boots[b].at = "checking"
    /\ boots[b].age < ApprovalTtl
    /\ boots' = [boots EXCEPT ![b].at = "signed"]
    /\ UNCHANGED <<status, lineage, records, reviews>>

BootstrapFails(b) ==
    /\ boots[b].at = "checking"
    /\ boots' = [boots EXCEPT ![b] = NoBoot]
    /\ UNCHANGED <<status, lineage, records, reviews>>

(* Mutant: the commit does not look at the state again. *)
BootstrapCommitsUnchecked(b) ==
    /\ boots[b].at = "signed"
    /\ status' = "active"
    /\ lineage' = [by |-> "genesis", of |-> boots[b].of, age |-> boots[b].age]
    /\ records' = <<>>
    /\ boots' = [boots EXCEPT ![b] = NoBoot]
    /\ UNCHANGED reviews

(* Its commit looks again.  A replica without a lineage has no custodian   *)
(* to wait for, so nothing comes in between before the adjudications are   *)
(* forgotten.                                                              *)
BootstrapCommits(b) ==
    /\ boots[b].at = "signed"
    /\ FreshInactive
    /\ status' = "active"
    /\ lineage' = [by |-> "genesis", of |-> boots[b].of, age |-> boots[b].age]
    /\ records' = <<>>
    /\ boots' = [boots EXCEPT ![b] = NoBoot]
    /\ UNCHANGED reviews

BootstrapTooLate(b) ==
    /\ boots[b].at = "signed"
    /\ ~FreshInactive
    /\ boots' = [boots EXCEPT ![b] = NoBoot]
    /\ UNCHANGED <<status, lineage, records, reviews>>

(* applyActivationBundle: what its caller brought was checked before the   *)
(* lock; under it the state is looked at again.                            *)
ApplyCommits ==
    /\ FreshInactive
    /\ status' = "active"
    /\ lineage' = [by |-> "handoff"]
    /\ UNCHANGED <<records, reviews, boots>>

(* applyReplicaCustodyTransfer, all of it under the lock. *)
TakeCustody ==
    /\ FreshInactive
    /\ status' = "active"
    /\ lineage' = [by |-> "custody"]
    /\ UNCHANGED <<records, reviews, boots>>

GenesisTick ==
    /\ reviews' = [a \in Adjudication |->
          IF reviews[a].at = "approved" /\ reviews[a].age < ApprovalTtl
          THEN [reviews[a] EXCEPT !.age = @ + 1] ELSE reviews[a]]
    /\ UNCHANGED <<status, lineage, records, boots>>

GenesisNext ==
    \/ \E a \in Adjudication :
          AdjudicateBegins(a) \/ AdjudicateApproves(a) \/ AdjudicateRefuses(a)
    \/ \E b \in Bootstrap :
          \/ \E a \in Adjudication : BootstrapBegins(b, a)
          \/ BootstrapSigns(b) \/ BootstrapFails(b)
          \/ BootstrapCommits(b) \/ BootstrapTooLate(b)
    \/ ApplyCommits \/ TakeCustody
    \/ GenesisTick

GenesisSpec == GenesisInit /\ [][GenesisNext]_genesisVars

-----------------------------------------------------------------------------
(* Whatever runs concurrently, the lineage a replica came to hold is never *)
(* replaced by another origin's: a genesis, a handoff and a custody that   *)
(* began while it was inactive all look again before they change it.       *)
OneOrigin == [][lineage # NoLineage => lineage' = lineage]_genesisVars

(* A genesis rests on an adjudication this process made for its own        *)
(* genesis while it was inactive, still valid when the genesis was asked   *)
(* for (the certificate's bootstrappedAt).                                 *)
GenesisFromOwnReview ==
    lineage.by = "genesis" =>
        /\ reviews[lineage.of].at = "approved"
        /\ reviews[lineage.of].own
        /\ lineage.age < ApprovalTtl
=============================================================================
