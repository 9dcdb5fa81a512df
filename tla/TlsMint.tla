------------------------------ MODULE TlsMint ------------------------------
(***************************************************************************)
(* Ephemeral TLS: every start of the public service orders a certificate   *)
(* (startPublicServiceWithRetry of server.js, bootstrapTls and runOnce of  *)
(* acme-renewal.js), guarded by a ledger of mint times in a bucket object  *)
(* (tls-mint-log.js).  The authority refills a bucket of issuance tokens   *)
(* continuously; the guard simulates that bucket over the ledger.          *)
(*                                                                         *)
(* Credit is counted in ticks: a token is Refill of them.  Times are kept  *)
(* as ages, which stop just after they leave the ledger's window.  Every   *)
(* read of the ledger sorts it, so it is how many mints there are of each  *)
(* age.                                                                    *)
(***************************************************************************)
EXTENDS Integers, FiniteSets

CONSTANTS
    Minter,    \* virtual machines that open the public service
    Capacity,  \* TLS_MAX_MINTS_PER_WEEK, the authority's limit
    Refill,    \* ticks in which one token refills
    Faults     \* ledger reads and writes fail, processes end in mid-order
               \* and orders outlast a tick

ASSUME LimitAssumption == Capacity \in Nat \ {0} /\ Refill \in Nat \ {0}
ASSUME FaultsAssumption == Faults \in BOOLEAN
ASSUME MinterAssumption == IsFiniteSet(Minter)

VARIABLES
    bucket,   \* the authority's credit
    ledger,   \* ledger[a]: the mints of age a in the ledger object
    serving,  \* serving[m]: the public service of m's process is open
    step,     \* step[m]: how far its order has come
    started,  \* started[m]: age of the time taken at the order's start
    seen      \* seen[m]: the ledger as read before it is written back

vars == <<bucket, ledger, serving, step, started, seen>>

Full == Capacity * Refill
Window == Capacity * Refill  \* WINDOW_MS
Ages == 0..(Window + 1)
NoMints == [a \in Ages |-> 0]

Init ==
    /\ bucket = Full
    /\ ledger = NoMints
    /\ serving = [m \in Minter |-> FALSE]
    /\ step = [m \in Minter |-> "idle"]
    /\ started = [m \in Minter |-> 0]
    /\ seen = [m \in Minter |-> NoMints]

-----------------------------------------------------------------------------
(* Mutant: the whole history. *)
Unpruned(mints) == mints

(* pruneToWindow *)
Prune(mints) == [mints EXCEPT ![Window + 1] = 0]

Least(n, max) == IF n < max THEN n ELSE max
Less(n, spent) == IF spent < n THEN n - spent ELSE 0

(* Mutant: the strict count of the window that preceded the simulation. *)
StrictCount(mints) ==
    LET left[k \in 0..Window] ==
          Less(IF k = 0 THEN Full ELSE left[k - 1], Refill * mints[Window - k])
    IN  left[Window]

(* tokensAvailable: full at the edge of the window, one token less by each *)
(* mint, refilling in between and never below zero.                        *)
Credit(mints) ==
    LET left[k \in 0..Window] ==
          Less(IF k = 0 THEN Full ELSE Least(left[k - 1] + 1, Full),
               Refill * mints[Window - k])
    IN  left[Window]

-----------------------------------------------------------------------------
(* The guard at a boot; it fails open when the ledger cannot be read. *)
Admit(m) ==
    /\ ~serving[m]
    /\ step[m] = "idle"
    /\ Faults \/ Credit(Prune(ledger)) >= Refill
    /\ step' = [step EXCEPT ![m] = "ordering"]
    /\ started' = [started EXCEPT ![m] = 0]
    /\ UNCHANGED <<bucket, ledger, serving, seen>>

(* A renewal while serving asks no guard. *)
Renew(m) ==
    /\ serving[m]
    /\ step[m] = "idle"
    /\ step' = [step EXCEPT ![m] = "ordering"]
    /\ started' = [started EXCEPT ![m] = 0]
    /\ UNCHANGED <<bucket, ledger, serving, seen>>

(* The authority issues while it has a token. *)
Issue(m) ==
    /\ step[m] = "ordering"
    /\ bucket >= Refill
    /\ bucket' = bucket - Refill
    /\ step' = [step EXCEPT ![m] = "issued"]
    /\ UNCHANGED <<ledger, serving, started, seen>>

(* Mutant: publicServiceStarted is not reset, so that no retry starts. *)
NoRetry == "given up"

Retry == "idle"

(* The order failed for the last time: the start is tried again later, by  *)
(* another pass of the guard.  (The attempts before repeat the order.)     *)
OrderFails(m) ==
    /\ step[m] = "ordering"
    /\ step' = [step EXCEPT ![m] = Retry]
    /\ started' = [started EXCEPT ![m] = 0]
    /\ UNCHANGED <<bucket, ledger, serving, seen>>

RecordRead(m) ==
    /\ step[m] = "issued"
    /\ seen' = [seen EXCEPT ![m] = Prune(ledger)]
    /\ step' = [step EXCEPT ![m] = "recording"]
    /\ UNCHANGED <<bucket, ledger, serving, started>>

Done(m) ==
    /\ serving' = [serving EXCEPT ![m] = TRUE]
    /\ step' = [step EXCEPT ![m] = "idle"]
    /\ started' = [started EXCEPT ![m] = 0]
    /\ seen' = [seen EXCEPT ![m] = NoMints]

(* The object is overwritten, whatever was written since it was read. *)
RecordWrite(m) ==
    /\ step[m] = "recording"
    /\ ledger' = [seen[m] EXCEPT ![started[m]] = @ + 1]
    /\ Done(m)
    /\ UNCHANGED bucket

(* Recording is best effort. *)
RecordFails(m) ==
    /\ Faults
    /\ step[m] \in {"issued", "recording"}
    /\ Done(m)
    /\ UNCHANGED <<bucket, ledger>>

(* The process ends and another one boots. *)
Restart(m) ==
    /\ serving[m] \/ step[m] # "idle"
    /\ Faults \/ step[m] = "idle"
    /\ serving' = [serving EXCEPT ![m] = FALSE]
    /\ step' = [step EXCEPT ![m] = "idle"]
    /\ started' = [started EXCEPT ![m] = 0]
    /\ seen' = [seen EXCEPT ![m] = NoMints]
    /\ UNCHANGED <<bucket, ledger>>

Older(a) == Least(a + 1, Window + 1)

(* What were mints of age a is now of the next age. *)
Aged(mints) ==
    [a \in Ages |->
        IF a = 0 THEN 0
        ELSE IF a <= Window THEN mints[a - 1]
        ELSE mints[Window] + mints[Window + 1]]

Tick ==
    /\ Faults \/ \A m \in Minter : step[m] = "idle"
    /\ bucket' = Least(bucket + 1, Full)
    /\ ledger' = Aged(ledger)
    /\ seen' = [m \in Minter |-> Aged(seen[m])]
    /\ started' = [m \in Minter |->
                     IF step[m] = "idle" THEN 0 ELSE Older(started[m])]
    /\ UNCHANGED <<serving, step>>

Next ==
    \/ Tick
    \/ \E m \in Minter :
         \/ Admit(m) \/ Renew(m) \/ Issue(m) \/ OrderFails(m)
         \/ RecordRead(m) \/ RecordWrite(m) \/ RecordFails(m) \/ Restart(m)

Spec == Init /\ [][Next]_vars

(* The start is retried every quarter of an hour, and an order that the    *)
(* authority could accept does not fail for other reasons for ever.        *)
Fairness ==
    /\ WF_vars(Tick)
    /\ \A m \in Minter :
         /\ WF_vars(Admit(m))
         /\ WF_vars(Issue(m) \/ OrderFails(m))
         /\ SF_vars(Issue(m))
         /\ WF_vars(RecordRead(m) \/ RecordWrite(m) \/ RecordFails(m))

FairSpec == Spec /\ Fairness

-----------------------------------------------------------------------------
(* Every variable has its type, and an order that ends at once writes back *)
(* only mints of the window.                                               *)
TypeOK ==
    /\ bucket \in 0..Full
    /\ ledger \in [Ages -> Nat]
    /\ serving \in [Minter -> BOOLEAN]
    /\ step \in [Minter -> {"idle", "ordering", "issued", "recording"}]
    /\ started \in [Minter -> Ages]
    /\ seen \in [Minter -> [Ages -> Nat]]
    /\ \A m \in Minter :
          step[m] = "recording" /\ started[m] = 0 => seen[m][Window + 1] = 0

(* "a blocked boot self-heals as soon as LE itself would issue again"      *)
(* (tls-mint-log.js:108-109): the guard never counts fewer tokens than the *)
(* authority has, whatever overlapping mints, lost entries, slow orders    *)
(* and mints that have left the window do to the ledger.                   *)
NeverStricter == Credit(Prune(ledger)) >= bucket

(* A process that is not ended again opens the public service: neither a   *)
(* spent budget nor a failed order is for ever.                            *)
BootServes ==
    <>[][\A m \in Minter : ~Restart(m)]_vars
    => \A m \in Minter : ~serving[m] ~> serving[m]
=============================================================================
