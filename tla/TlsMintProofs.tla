---------------------------- MODULE TlsMintProofs ----------------------------
(***************************************************************************)
(* The mint guard is never stricter than the authority, for every number   *)
(* of minters, every capacity and every refill.                            *)
(***************************************************************************)
EXTENDS TlsMint, Counting

Mints == [Ages -> Nat]

LEMMA Limits ==
    /\ Full \in Nat \ {0} /\ Window = Full /\ Refill \in Nat \ {0}
    /\ Window \in Nat /\ Ages = 0..(Window + 1)
<1>1. Capacity \in Nat \ {0} /\ Refill \in Nat \ {0}
  BY LimitAssumption
<1>2. Capacity * Refill \in Nat /\ Capacity * Refill > 0
  BY <1>1
<1> QED
  BY <1>1, <1>2 DEF Full, Window, Ages

-----------------------------------------------------------------------------
(* The simulation.                                                         *)

(* The simulation as far as the mints of age Window - n. *)
After(mints, k, before) ==
    Less(IF k = 0 THEN Full ELSE Least(before + 1, Full), Refill * mints[Window - k])

Simulates(left, mints, n) ==
    left = [k \in 0..n |-> After(mints, k, left[k - 1])]

LEMMA SimulationExists ==
    ASSUME NEW mints
    PROVE  \E left : Simulates(left, mints, Window)
<1> DEFINE S == {n \in 0..Window : \E left : Simulates(left, mints, n)}
<1>1. 0 \in S
  <2>1. Simulates([k \in 0..0 |-> After(mints, 0, 0)], mints, 0)
    BY DEF Simulates, After
  <2> QED
    BY <2>1, Limits
<1>2. ASSUME NEW n \in 0..Window, n < Window, n \in S
      PROVE  n + 1 \in S
  <2>1. PICK left : Simulates(left, mints, n)
    BY <1>2
  <2> DEFINE longer == [k \in 0..(n + 1) |->
                           IF k <= n THEN left[k] ELSE After(mints, n + 1, left[n])]
  <2>2. ASSUME NEW k \in 0..(n + 1)
        PROVE  longer[k] = After(mints, k, longer[k - 1])
    <3>1. CASE k = 0
      BY <3>1, <2>1, Limits DEF Simulates, After
    <3>2. CASE k # 0 /\ k <= n
      <4>1. k - 1 \in 0..(n + 1) /\ k - 1 <= n /\ k \in 0..n
        BY <3>2, Limits
      <4>2. longer[k - 1] = left[k - 1] /\ longer[k] = left[k]
        BY <4>1, <3>2
      <4>3. left[k] = After(mints, k, left[k - 1])
        BY <2>1, <4>1 DEF Simulates
      <4> QED
        BY <4>2, <4>3
    <3>3. CASE k = n + 1
      <4>1. n \in 0..(n + 1) /\ k - 1 = n /\ ~(k <= n)
        BY <3>3, Limits
      <4>2. longer[n] = left[n]
        BY <4>1, Limits
      <4> QED
        BY <4>1, <4>2, <3>3
    <3> QED
      BY <3>1, <3>2, <3>3, Limits
  <2>3. Simulates(longer, mints, n + 1)
    BY <2>2 DEF Simulates
  <2> QED
    BY <2>3, <1>2, Limits
<1>3. Window \in S
  <2> HIDE DEF S
  <2> QED
    BY <1>1, <1>2, CountingUp, Limits
<1> QED
  BY <1>3

LEMMA CreditSimulates ==
    ASSUME NEW mints
    PROVE  \E left : Simulates(left, mints, Window) /\ Credit(mints) = left[Window]
<1> DEFINE left == CHOOSE g : Simulates(g, mints, Window)
<1>1. Simulates(left, mints, Window)
  BY SimulationExists
<1>2. Credit(mints) = left[Window]
  BY DEF Credit, Simulates, After
<1> QED
  BY <1>1, <1>2

-----------------------------------------------------------------------------
(* What the simulation does with the ledger.                               *)

LEMMA Costs ==
    ASSUME NEW a \in Nat, NEW b \in Nat
    PROVE  /\ Refill * a \in Nat
           /\ Refill * (a + 1) = Refill * a + Refill
           /\ a <= b => Refill * a <= Refill * b
<1>1. ASSUME NEW r \in Nat
      PROVE  /\ r * a \in Nat
             /\ r * (a + 1) = r * a + r
             /\ a <= b => r * a <= r * b
  <2>1. r * a \in Nat /\ r * (a + 1) = r * a + r
    BY <1>1
  <2>2. ASSUME a <= b PROVE r * a <= r * b
    <3>1. PICK d \in Nat : b = a + d
      <4>1. b - a \in Nat /\ b = a + (b - a)
        BY <2>2
      <4> QED
        BY <4>1
    <3>2. r * (a + d) = r * a + r * d /\ r * d \in Nat /\ r * a \in Nat
      BY <3>1
    <3> QED
      BY <3>1, <3>2
  <2> QED
    BY <2>1, <2>2
<1> QED
  BY <1>1, Limits

(* One step of the simulation, spelled out. *)
LEMMA Steps ==
    ASSUME NEW mints \in Mints, NEW left, Simulates(left, mints, Window)
    PROVE  /\ left[0] = Less(Full, Refill * mints[Window])
           /\ Refill * mints[Window] \in Nat
           /\ \A k \in 0..Window : k < Window =>
                 /\ left[k + 1] = Less(Least(left[k] + 1, Full),
                                       Refill * mints[Window - (k + 1)])
                 /\ Refill * mints[Window - (k + 1)] \in Nat
<1>1. 0 \in 0..Window /\ Window - 0 = Window /\ Window \in Ages
  BY Limits
<1>2. left[0] = Less(Full, Refill * mints[Window])
  BY <1>1 DEF Simulates, After
<1>3. ASSUME NEW k \in 0..Window, k < Window
      PROVE  /\ left[k + 1] = Less(Least(left[k] + 1, Full),
                                   Refill * mints[Window - (k + 1)])
             /\ Refill * mints[Window - (k + 1)] \in Nat
  <2>1. k + 1 \in 0..Window /\ k + 1 # 0 /\ k + 1 - 1 = k
        /\ Window - (k + 1) \in Ages
    BY <1>3, Limits
  <2>2. left[k + 1] = After(mints, k + 1, left[k + 1 - 1])
    BY <2>1 DEF Simulates
  <2>3. mints[Window - (k + 1)] \in Nat
    BY <2>1 DEF Mints
  <2> QED
    BY <2>1, <2>2, <2>3, Costs DEF After
<1>4. mints[Window] \in Nat
  BY <1>1 DEF Mints
<1> QED
  BY <1>2, <1>3, <1>4, Costs

(* The simulated credit is within the bucket all the time. *)
LEMMA StepsInRange ==
    ASSUME NEW mints \in Mints, NEW left, Simulates(left, mints, Window)
    PROVE  \A k \in 0..Window : left[k] \in 0..Full
<1> DEFINE S == {k \in 0..Window : left[k] \in 0..Full}
<1>1. 0 \in S
  BY Steps, Limits DEF Less
<1>2. ASSUME NEW k \in 0..Window, k < Window, k \in S
      PROVE  k + 1 \in S
  <2>1. Least(left[k] + 1, Full) \in 0..Full
    BY <1>2, Limits DEF Least
  <2>2. left[k + 1] \in 0..Full
    <3>1. /\ left[k + 1] = Less(Least(left[k] + 1, Full),
                               Refill * mints[Window - (k + 1)])
          /\ Refill * mints[Window - (k + 1)] \in Nat
      BY <1>2, Steps
    <3> QED
      BY <2>1, <3>1, Limits DEF Less
  <2> QED
    BY <1>2, <2>2, Limits
<1>3. \A k \in 0..Window : k \in S
  <2> HIDE DEF S
  <2> QED
    BY <1>1, <1>2, CountingUp, Limits
<1> QED
  BY <1>3

LEMMA CreditRange ==
    ASSUME NEW mints \in Mints
    PROVE  Credit(mints) \in 0..Full
<1>1. PICK left : Simulates(left, mints, Window) /\ Credit(mints) = left[Window]
  BY CreditSimulates
<1> QED
  BY <1>1, StepsInRange, Limits

(* Without a mint the bucket is full. *)
LEMMA UnspentIsFull == Credit(NoMints) >= Full
<1>1. NoMints \in Mints
  BY Limits DEF NoMints, Mints
<1>2. PICK left : Simulates(left, NoMints, Window) /\ Credit(NoMints) = left[Window]
  BY CreditSimulates
<1> DEFINE S == {k \in 0..Window : left[k] = Full}
<1>3. \A a \in 0..Window : Refill * NoMints[a] = 0
  BY Limits DEF NoMints
<1>4. 0 \in S
  <2>1. left[0] = Less(Full, Refill * NoMints[Window])
    BY <1>1, <1>2, Steps
  <2> QED
    BY <1>3, <2>1, Limits DEF Less
<1>5. ASSUME NEW k \in 0..Window, k < Window, k \in S
      PROVE  k + 1 \in S
  <2>1. left[k + 1] = Less(Least(left[k] + 1, Full), Refill * NoMints[Window - (k + 1)])
    BY <1>1, <1>2, <1>5, Steps
  <2>2. Window - (k + 1) \in 0..Window /\ k + 1 \in 0..Window
    BY <1>5, Limits
  <2> QED
    BY <1>3, <1>5, <2>1, <2>2, Limits DEF Less, Least
<1>6. \A k \in 0..Window : k \in S
  <2> HIDE DEF S
  <2> QED
    BY <1>4, <1>5, CountingUp, Limits
<1> QED
  BY <1>2, <1>6, Limits

(* More mints leave no more credit; those that have left the window do not *)
(* count.                                                                  *)
LEMMA CreditMonotone ==
    ASSUME NEW few \in Mints, NEW many \in Mints,
           \A a \in 0..Window : few[a] <= many[a]
    PROVE  Credit(few) >= Credit(many)
<1>1. PICK f : Simulates(f, few, Window) /\ Credit(few) = f[Window]
  BY CreditSimulates
<1>2. PICK g : Simulates(g, many, Window) /\ Credit(many) = g[Window]
  BY CreditSimulates
<1> DEFINE S == {k \in 0..Window : f[k] >= g[k]}
<1>3. \A a \in 0..Window :
         /\ Refill * few[a] \in Nat /\ Refill * many[a] \in Nat
         /\ Refill * few[a] <= Refill * many[a]
  <2>1. \A a \in 0..Window : few[a] \in Nat /\ many[a] \in Nat
    BY Limits DEF Mints
  <2> QED
    BY <2>1, Costs
<1>4. 0 \in S
  <2>1. f[0] >= g[0]
    BY <1>1, <1>2, <1>3, Steps, Limits DEF Less
  <2> QED
    BY <2>1, Limits
<1>5. ASSUME NEW k \in 0..Window, k < Window, k \in S
      PROVE  k + 1 \in S
  <2>1. /\ f[k] \in Nat /\ g[k] \in Nat /\ f[k] >= g[k]
        /\ k + 1 \in 0..Window /\ Window - (k + 1) \in 0..Window
    BY <1>1, <1>2, <1>5, StepsInRange, Limits
  <2>2. /\ Least(f[k] + 1, Full) >= Least(g[k] + 1, Full)
        /\ Least(f[k] + 1, Full) \in Nat /\ Least(g[k] + 1, Full) \in Nat
    BY <2>1, Limits DEF Least
  <2>3. f[k + 1] >= g[k + 1]
    BY <1>1, <1>2, <1>3, <1>5, <2>1, <2>2, Steps DEF Less
  <2> QED
    BY <2>1, <2>3
<1>6. \A k \in 0..Window : k \in S
  <2> HIDE DEF S
  <2> QED
    BY <1>4, <1>5, CountingUp, Limits
<1> QED
  BY <1>1, <1>2, <1>6, Limits

LEMMA PruneKeepsCredit ==
    ASSUME NEW mints \in Mints
    PROVE  Prune(mints) \in Mints /\ Credit(Prune(mints)) >= Credit(mints)
<1>1. Prune(mints) \in Mints
  BY Limits DEF Mints, Prune
<1>2. \A a \in 0..Window : mints[a] \in Nat /\ Prune(mints)[a] = mints[a]
  BY Limits DEF Mints, Prune
<1> QED
  BY <1>1, <1>2, CreditMonotone

(* One more mint, however long ago, costs at most a token. *)
LEMMA MintCosts ==
    ASSUME NEW mints \in Mints, NEW a \in Ages, NEW more \in Mints,
           more = [mints EXCEPT ![a] = @ + 1]
    PROVE  Credit(more) >= Credit(mints) - Refill
<1>1. PICK f : Simulates(f, more, Window) /\ Credit(more) = f[Window]
  BY CreditSimulates
<1>2. PICK g : Simulates(g, mints, Window) /\ Credit(mints) = g[Window]
  BY CreditSimulates
<1> DEFINE S == {k \in 0..Window : /\ k < Window - a => f[k] = g[k]
                                   /\ f[k] >= g[k] - Refill}
<1>3. \A k \in 0..Window : f[k] \in Nat /\ g[k] \in Nat
  BY <1>1, <1>2, StepsInRange, Limits
<1>4. \A b \in 0..Window :
         /\ Refill * mints[b] \in Nat
         /\ b = a => Refill * more[b] = Refill * mints[b] + Refill
         /\ b # a => more[b] = mints[b]
  <2>1. \A b \in 0..Window : mints[b] \in Nat
    BY Limits DEF Mints
  <2>2. \A b \in 0..Window : (b = a => more[b] = mints[b] + 1) /\ (b # a => more[b] = mints[b])
    BY Limits DEF Mints
  <2> QED
    BY <2>1, <2>2, Costs
<1>5. 0 \in S
  <2>1. /\ f[0] = Less(Full, Refill * more[Window])
        /\ g[0] = Less(Full, Refill * mints[Window])
        /\ Window \in 0..Window
    <3>1. f[0] = Less(Full, Refill * more[Window])
      BY <1>1, Steps
    <3>2. g[0] = Less(Full, Refill * mints[Window])
      BY <1>2, Steps
    <3> QED
      BY <3>1, <3>2, Limits
  <2>2. CASE Window = a
    BY <2>1, <2>2, <1>3, <1>4, Limits DEF Less
  <2>3. CASE Window # a
    BY <2>1, <2>3, <1>3, <1>4, Limits
  <2> QED
    BY <2>2, <2>3
<1>6. ASSUME NEW k \in 0..Window, k < Window, k \in S
      PROVE  k + 1 \in S
  <2> DEFINE b == Window - (k + 1)
             x == Least(f[k] + 1, Full)
             y == Least(g[k] + 1, Full)
  <2>1. b \in 0..Window /\ k + 1 \in 0..Window /\ f[k] \in Nat /\ g[k] \in Nat
    BY <1>3, <1>6, Limits
  <2>2. f[k + 1] = Less(x, Refill * more[b]) /\ g[k + 1] = Less(y, Refill * mints[b])
    BY <1>1, <1>2, <1>6, Steps
  <2>3. x \in Nat /\ y \in Nat /\ x >= y - Refill
    BY <1>6, <2>1, Limits DEF Least
  <2>4. CASE b = a
    <3>1. x = y
      BY <1>6, <2>1, <2>4, Limits
    <3>2. Refill * more[b] = Refill * mints[b] + Refill /\ Refill * mints[b] \in Nat
      BY <1>4, <2>1, <2>4
    <3>3. f[k + 1] >= g[k + 1] - Refill
      <4> HIDE DEF b, x, y
      <4> QED
        BY <2>2, <2>3, <3>1, <3>2, Limits DEF Less
    <3>4. ~(k + 1 < Window - a)
      BY <2>1, <2>4, Limits
    <3> QED
      BY <2>1, <3>3, <3>4
  <2>5. CASE b # a
    <3>1. more[b] = mints[b] /\ Refill * mints[b] \in Nat
      BY <1>4, <2>1, <2>5
    <3>2. f[k + 1] >= g[k + 1] - Refill
      <4> HIDE DEF b, x, y
      <4> QED
        BY <2>2, <2>3, <3>1, Limits DEF Less
    <3>3. k + 1 < Window - a => f[k + 1] = g[k + 1]
      <4>1. k + 1 < Window - a => k < Window - a
        BY <2>1, Limits
      <4> QED
        BY <1>6, <4>1, <2>2, <3>1
    <3> QED
      BY <2>1, <3>2, <3>3
  <2> QED
    BY <2>4, <2>5
<1>7. \A k \in 0..Window : k \in S
  <2> HIDE DEF S
  <2> QED
    BY <1>5, <1>6, CountingUp, Limits
<1> QED
  BY <1>1, <1>2, <1>7, Limits

(* In a tick in which nothing is minted the credit grows as the            *)
(* authority's does.                                                       *)
LEMMA AgingRefills ==
    ASSUME NEW mints \in Mints, NEW older \in Mints,
           older[0] = 0, \A a \in 1..Window : older[a] = mints[a - 1]
    PROVE  Credit(older) >= Least(Credit(mints) + 1, Full)
<1>1. PICK f : Simulates(f, older, Window) /\ Credit(older) = f[Window]
  BY CreditSimulates
<1>2. PICK g : Simulates(g, mints, Window) /\ Credit(mints) = g[Window]
  BY CreditSimulates
<1>3. \A k \in 0..Window : f[k] \in Nat /\ g[k] \in Nat /\ f[k] <= Full
  BY <1>1, <1>2, StepsInRange, Limits
<1> DEFINE S == {k \in 0..(Window - 1) : f[k] >= g[k + 1]}
<1>4. \A k \in 0..(Window - 1) :
         older[Window - k] = mints[Window - (k + 1)] /\ Refill * older[Window - k] \in Nat
  <2>1. ASSUME NEW k \in 0..(Window - 1)
        PROVE  older[Window - k] = mints[Window - (k + 1)] /\ Refill * older[Window - k] \in Nat
    <3>1. Window - k \in 1..Window /\ Window - k - 1 = Window - (k + 1) /\ Window - k \in Ages
      BY <2>1, Limits
    <3>2. older[Window - k] \in Nat
      BY <3>1 DEF Mints
    <3> QED
      BY <3>1, <3>2, Costs
  <2> QED
    BY <2>1
<1>5. 0 \in S
  <2>1. 0 \in 0..(Window - 1) /\ 0 < Window /\ 0 \in 0..Window /\ 0 + 1 = 1
        /\ Window - 0 = Window
    BY Limits
  <2>2. f[0] = Less(Full, Refill * older[Window])
    BY <1>1, Steps
  <2>3. g[0 + 1] = Less(Least(g[0] + 1, Full), Refill * mints[Window - (0 + 1)])
    BY <1>2, <2>1, Steps
  <2>4. older[Window] = mints[Window - (0 + 1)] /\ Refill * older[Window] \in Nat
    BY <1>4, <2>1
  <2>5. Least(g[0] + 1, Full) \in Nat /\ Full >= Least(g[0] + 1, Full)
    BY <1>3, <2>1, Limits DEF Least
  <2>6. f[0] >= g[0 + 1]
    BY <2>2, <2>3, <2>4, <2>5, Limits DEF Less
  <2> QED
    BY <2>1, <2>6
<1>6. ASSUME NEW k \in 0..(Window - 1), k < Window - 1, k \in S
      PROVE  k + 1 \in S
  <2> DEFINE spent == Refill * older[Window - (k + 1)]
  <2>1. k \in 0..Window /\ k < Window /\ k + 1 \in 0..(Window - 1) /\ k + 1 \in 0..Window
        /\ k + 1 < Window
    BY <1>6, Limits
  <2>2. f[k + 1] = Less(Least(f[k] + 1, Full), spent)
    BY <1>1, <2>1, Steps
  <2>3. g[k + 1 + 1] = Less(Least(g[k + 1] + 1, Full), Refill * mints[Window - (k + 1 + 1)])
    BY <1>2, <2>1, Steps
  <2>4. Refill * mints[Window - (k + 1 + 1)] = spent /\ spent \in Nat
    BY <1>4, <2>1
  <2>5. f[k] \in Nat /\ g[k + 1] \in Nat /\ f[k] >= g[k + 1]
    BY <1>3, <1>6, <2>1
  <2>6. /\ Least(f[k] + 1, Full) >= Least(g[k + 1] + 1, Full)
        /\ Least(f[k] + 1, Full) \in Nat /\ Least(g[k + 1] + 1, Full) \in Nat
    BY <2>5, Limits DEF Least
  <2>7. f[k + 1] >= g[k + 1 + 1]
    <3> HIDE DEF spent
    <3> QED
      BY <2>2, <2>3, <2>4, <2>6 DEF Less
  <2> QED
    BY <2>1, <2>7
<1>7. \A k \in 0..(Window - 1) : k \in S
  <2> HIDE DEF S
  <2>1. Window - 1 \in Nat
    BY Limits
  <2> QED
    BY <1>5, <1>6, <2>1, CountingUp
<1>8. /\ Window - 1 \in 0..(Window - 1) /\ Window - 1 \in 0..Window
      /\ Window - 1 < Window /\ Window - 1 + 1 = Window /\ Window - Window = 0
      /\ Window \in 0..Window
  BY Limits
<1>9. f[Window - 1] >= g[Window]
  <2>1. Window - 1 \in S
    BY <1>7, <1>8
  <2> QED
    BY <2>1, <1>8
<1>10. f[Window] = Less(Least(f[Window - 1] + 1, Full), Refill * older[0])
  <2>1. f[Window - 1 + 1] = Less(Least(f[Window - 1] + 1, Full),
                                 Refill * older[Window - (Window - 1 + 1)])
    BY <1>1, <1>8, Steps
  <2> QED
    BY <2>1, <1>8
<1>11. Refill * older[0] = 0
  BY Limits
<1>12. /\ f[Window - 1] \in Nat /\ g[Window] \in Nat
       /\ Least(f[Window - 1] + 1, Full) \in Nat
       /\ Least(f[Window - 1] + 1, Full) >= Least(g[Window] + 1, Full)
  BY <1>3, <1>8, <1>9, Limits DEF Least
<1>13. Less(Least(f[Window - 1] + 1, Full), 0) = Least(f[Window - 1] + 1, Full)
  BY <1>12 DEF Less
<1> QED
  BY <1>1, <1>2, <1>10, <1>11, <1>12, <1>13

-----------------------------------------------------------------------------
(* The guard.                                                              *)

LEMMA MintTypesInit == Init => TypeOK
  BY Limits DEF Init, TypeOK, NoMints

LEMMA MintTypesStep == TypeOK /\ [Next]_vars => TypeOK'
<1> SUFFICES ASSUME TypeOK, [Next]_vars PROVE TypeOK'
  OBVIOUS
<1> USE Limits DEF TypeOK
<1>1. CASE Tick
  <2>1. Aged(ledger) \in [Ages -> Nat] /\ \A m \in Minter : Aged(seen[m]) \in [Ages -> Nat]
    BY DEF Aged
  <2>2. bucket' \in 0..Full
    BY <1>1 DEF Tick, Least
  <2>3. started' \in [Minter -> Ages]
    BY <1>1 DEF Tick, Older, Least
  <2>4. \A m \in Minter : step'[m] = "recording" => started'[m] # 0
    <3>1. \A a \in Ages : Older(a) # 0
      BY DEF Older, Least
    <3> QED
      BY <1>1, <3>1 DEF Tick
  <2>5. ledger' \in [Ages -> Nat] /\ seen' \in [Minter -> [Ages -> Nat]]
    BY <1>1, <2>1 DEF Tick
  <2> QED
    BY <1>1, <2>2, <2>3, <2>4, <2>5 DEF Tick
<1>2. ASSUME NEW m \in Minter, Admit(m) \/ Renew(m)
      PROVE  TypeOK'
  <2>1. /\ step' = [step EXCEPT ![m] = "ordering"]
        /\ started' = [started EXCEPT ![m] = 0]
        /\ UNCHANGED <<bucket, ledger, serving, seen>>
    BY <1>2, Zenon DEF Admit, Renew
  <2> QED
    BY <2>1
<1>3. ASSUME NEW m \in Minter, Issue(m)
      PROVE  TypeOK'
  BY <1>3 DEF Issue
<1>4. ASSUME NEW m \in Minter, OrderFails(m)
      PROVE  TypeOK'
  BY <1>4 DEF OrderFails, Retry
<1>5. ASSUME NEW m \in Minter, RecordRead(m)
      PROVE  TypeOK'
  <2>1. Prune(ledger) \in [Ages -> Nat] /\ Prune(ledger)[Window + 1] = 0
    BY DEF Prune
  <2> QED
    BY <1>5, <2>1 DEF RecordRead
<1>6. ASSUME NEW m \in Minter, Done(m), UNCHANGED bucket, ledger' \in [Ages -> Nat]
      PROVE  TypeOK'
  <2>1. NoMints \in [Ages -> Nat]
    BY DEF NoMints
  <2> QED
    BY <1>6, <2>1 DEF Done
<1>7. ASSUME NEW m \in Minter, RecordWrite(m)
      PROVE  TypeOK'
  <2>1. [seen[m] EXCEPT ![started[m]] = @ + 1] \in [Ages -> Nat]
    OBVIOUS
  <2> QED
    BY <1>6, <1>7, <2>1 DEF RecordWrite
<1>8. ASSUME NEW m \in Minter, RecordFails(m)
      PROVE  TypeOK'
  BY <1>6, <1>8 DEF RecordFails
<1>9. ASSUME NEW m \in Minter, Restart(m)
      PROVE  TypeOK'
  <2>1. NoMints \in [Ages -> Nat]
    BY DEF NoMints
  <2> QED
    BY <1>9, <2>1 DEF Restart
<1>10. CASE UNCHANGED vars
  BY <1>10 DEF vars
<1> QED
  BY <1>1, <1>2, <1>3, <1>4, <1>5, <1>7, <1>8, <1>9, <1>10 DEF Next

(* The mints of a ledger and those that the authority has issued to some   *)
(* but that are not recorded yet.                                          *)
Unrecorded == {m \in Minter : step[m] \in {"issued", "recording"}}
Counted(mints, owed, since) ==
    [a \in Ages |-> mints[a] + Cardinality({m \in owed : since[m] = a})]

(* The simulation of the ledger with what is still to be recorded, and of  *)
(* what will be written to it, has no less credit than the authority gives.*)
DebtInv ==
    /\ Credit(Counted(ledger, Unrecorded, started)) >= bucket
    /\ \A m \in Minter : step[m] = "recording" =>
          Credit(Counted(seen[m], Unrecorded, started)) >= bucket

LEMMA OwedNumber ==
    ASSUME NEW owed \in SUBSET Minter, NEW since, NEW a
    PROVE  Cardinality({m \in owed : since[m] = a}) \in Nat
  BY MinterAssumption, FS_Subset, FS_CardinalityType

LEMMA CountedType ==
    ASSUME NEW mints \in Mints, NEW owed \in SUBSET Minter, NEW since
    PROVE  /\ Counted(mints, owed, since) \in Mints
           /\ Credit(Counted(mints, owed, since)) \in 0..Full
           /\ Credit(Counted(mints, owed, since)) \in Nat
<1>1. \A a \in Ages : Cardinality({m \in owed : since[m] = a}) \in Nat
  BY OwedNumber
<1>2. Counted(mints, owed, since) \in Mints
  BY <1>1 DEF Counted, Mints
<1> QED
  BY <1>2, CreditRange, Limits

(* Fewer to be recorded, and no mints more: no less credit. *)
LEMMA FewerOwed ==
    ASSUME NEW mints \in Mints, NEW owed \in SUBSET Minter, NEW since,
           NEW mints2 \in Mints, NEW owed2 \in SUBSET owed, NEW since2,
           \A m \in owed2 : since2[m] = since[m],
           \A a \in 0..Window : mints2[a] <= mints[a]
    PROVE  Credit(Counted(mints2, owed2, since2)) >= Credit(Counted(mints, owed, since))
<1>1. Counted(mints, owed, since) \in Mints /\ Counted(mints2, owed2, since2) \in Mints
  BY CountedType
<1>2. ASSUME NEW a \in 0..Window
      PROVE  Counted(mints2, owed2, since2)[a] <= Counted(mints, owed, since)[a]
  <2> DEFINE few == {m \in owed2 : since2[m] = a}
             many == {m \in owed : since[m] = a}
  <2>1. few \subseteq many /\ IsFiniteSet(many)
    BY MinterAssumption, FS_Subset
  <2>2. Cardinality(few) <= Cardinality(many)
    BY <2>1, FS_Subset
  <2>3. /\ a \in Ages /\ mints[a] \in Nat /\ mints2[a] \in Nat
        /\ Cardinality(few) \in Nat /\ Cardinality(many) \in Nat
    BY <2>1, FS_Subset, FS_CardinalityType, Limits DEF Mints
  <2>4. /\ Counted(mints, owed, since)[a] = mints[a] + Cardinality(many)
        /\ Counted(mints2, owed2, since2)[a] = mints2[a] + Cardinality(few)
    BY <2>3 DEF Counted
  <2> HIDE DEF few, many
  <2> QED
    BY <1>2, <2>2, <2>3, <2>4
<1> QED
  BY <1>1, <1>2, CreditMonotone

(* One more to be recorded costs at most a token. *)
LEMMA OneMoreOwed ==
    ASSUME NEW mints \in Mints, NEW owed \in SUBSET Minter, NEW since,
           NEW m \in Minter \ owed, since[m] \in Ages
    PROVE  /\ Counted(mints, owed \union {m}, since)
                  = [Counted(mints, owed, since) EXCEPT ![since[m]] = @ + 1]
           /\ Credit(Counted(mints, owed \union {m}, since))
                  >= Credit(Counted(mints, owed, since)) - Refill
<1> DEFINE more == owed \union {m}
<1>1. ASSUME NEW a \in Ages
      PROVE  Cardinality({o \in more : since[o] = a})
                 = IF a = since[m] THEN Cardinality({o \in owed : since[o] = a}) + 1
                   ELSE Cardinality({o \in owed : since[o] = a})
  <2>1. CASE a = since[m]
    <3>1. {o \in more : since[o] = a} = {o \in owed : since[o] = a} \union {m}
      BY <2>1
    <3>2. IsFiniteSet({o \in owed : since[o] = a}) /\ m \notin {o \in owed : since[o] = a}
      BY MinterAssumption, FS_Subset
    <3> QED
      BY <2>1, <3>1, <3>2, FS_AddElement
  <2>2. CASE a # since[m]
    <3>1. {o \in more : since[o] = a} = {o \in owed : since[o] = a}
      BY <2>2
    <3> QED
      BY <2>2, <3>1
  <2> QED
    BY <2>1, <2>2
<1>2. \A a \in Ages : mints[a] \in Nat /\ Cardinality({o \in owed : since[o] = a}) \in Nat
  <2>1. \A a \in Ages : Cardinality({o \in owed : since[o] = a}) \in Nat
    BY OwedNumber
  <2> QED
    BY <2>1 DEF Mints
<1>3. Counted(mints, more, since) = [Counted(mints, owed, since) EXCEPT ![since[m]] = @ + 1]
  <2> DEFINE old == Counted(mints, owed, since)
  <2>1. old = [a \in Ages |-> old[a]]
        /\ Counted(mints, more, since) = [a \in Ages |-> Counted(mints, more, since)[a]]
    BY DEF Counted
  <2>2. ASSUME NEW a \in Ages
        PROVE  Counted(mints, more, since)[a] = IF a = since[m] THEN old[a] + 1 ELSE old[a]
    BY <1>1, <1>2 DEF Counted
  <2>3. old \in [Ages -> Nat] /\ since[m] \in Ages
    BY CountedType DEF Mints
  <2> DEFINE new == Counted(mints, more, since)
  <2> HIDE DEF old, new, more
  <2>4. new = [a \in Ages |-> new[a]]
    BY <2>1 DEF new
  <2>5. [old EXCEPT ![since[m]] = @ + 1]
            = [a \in Ages |-> IF a = since[m] THEN old[a] + 1 ELSE old[a]]
    BY <2>3
  <2>6. \A a \in Ages : new[a] = IF a = since[m] THEN old[a] + 1 ELSE old[a]
    BY <2>2 DEF new
  <2>7. new = [old EXCEPT ![since[m]] = @ + 1]
    BY <2>4, <2>5, <2>6
  <2> QED
    BY <2>7 DEF old, new, more
<1>4. Counted(mints, owed, since) \in Mints /\ Counted(mints, more, since) \in Mints
  BY CountedType
<1> QED
  BY <1>3, <1>4, MintCosts

(* In a tick what is to be recorded ages as the mints in the ledger do. *)
LEMMA OwedAge ==
    ASSUME NEW mints \in Mints, NEW owed \in SUBSET Minter,
           NEW since, \A m \in owed : since[m] \in Ages,
           NEW since2, \A m \in owed : since2[m] = Older(since[m])
    PROVE  Credit(Counted(Aged(mints), owed, since2))
               >= Least(Credit(Counted(mints, owed, since)) + 1, Full)
<1>1. Aged(mints) \in Mints /\ Aged(mints)[0] = 0
      /\ \A a \in 1..Window : Aged(mints)[a] = mints[a - 1]
  BY Limits DEF Mints, Aged
<1>2. Counted(mints, owed, since) \in Mints /\ Counted(Aged(mints), owed, since2) \in Mints
  BY <1>1, CountedType
<1>3. Counted(Aged(mints), owed, since2)[0] = 0
  <2>1. {m \in owed : since2[m] = 0} = {}
    BY Limits DEF Older, Least
  <2> QED
    BY <1>1, <2>1, FS_EmptySet, Limits DEF Counted
<1>4. ASSUME NEW a \in 1..Window
      PROVE  Counted(Aged(mints), owed, since2)[a] = Counted(mints, owed, since)[a - 1]
  <2>1. \A s \in Ages : Older(s) = a <=> s = a - 1
    BY <1>4, Limits DEF Older, Least
  <2>2. {m \in owed : since2[m] = a} = {m \in owed : since[m] = a - 1}
    BY <2>1
  <2>3. a \in Ages /\ a - 1 \in Ages
    BY <1>4, Limits
  <2> QED
    BY <1>1, <1>4, <2>2, <2>3 DEF Counted
<1> QED
  BY <1>2, <1>3, <1>4, AgingRefills

(* Nothing is issued, recorded or aged: some are given up on at most. *)
LEMMA GivingUp ==
    ASSUME TypeOK, DebtInv, UNCHANGED <<bucket, ledger>>,
           \A m \in Unrecorded' : m \in Unrecorded /\ started'[m] = started[m],
           \A m \in Minter : step'[m] = "recording" =>
              step[m] = "recording" /\ seen'[m] = seen[m]
    PROVE  DebtInv'
<1>1. Unrecorded \in SUBSET Minter /\ Unrecorded' \in SUBSET Unrecorded
  BY DEF Unrecorded
<1>2. \A mints \in Mints : Credit(Counted(mints, Unrecorded', started'))
                              >= Credit(Counted(mints, Unrecorded, started))
  <2>1. ASSUME NEW mints \in Mints
        PROVE  Credit(Counted(mints, Unrecorded', started'))
                  >= Credit(Counted(mints, Unrecorded, started))
    <3>1. \A a \in 0..Window : mints[a] <= mints[a]
      BY Limits DEF Mints
    <3> QED
      BY <1>1, <2>1, <3>1, FewerOwed
  <2> QED
    BY <2>1
<1>3. \A mints \in Mints : /\ Credit(Counted(mints, Unrecorded', started')) \in Int
                           /\ Credit(Counted(mints, Unrecorded, started)) \in Int
  <2>1. ASSUME NEW mints \in Mints, NEW owed \in SUBSET Minter, NEW since
        PROVE  Credit(Counted(mints, owed, since)) \in Int
    BY <2>1, CountedType
  <2> QED
    BY <1>1, <2>1
<1>4. /\ bucket \in Int /\ bucket' = bucket
      /\ ledger \in Mints /\ ledger' = ledger /\ \A m \in Minter : seen[m] \in Mints
  BY DEF TypeOK, Mints
<1>5. Credit(Counted(ledger', Unrecorded', started')) >= bucket'
  BY <1>2, <1>3, <1>4 DEF DebtInv
<1>6. ASSUME NEW m \in Minter, step'[m] = "recording"
      PROVE  Credit(Counted(seen'[m], Unrecorded', started')) >= bucket'
  BY <1>2, <1>3, <1>4, <1>6 DEF DebtInv
<1> QED
  BY <1>5, <1>6 DEF DebtInv

LEMMA DebtInvStep == TypeOK /\ DebtInv /\ [Next]_vars => DebtInv'
<1> SUFFICES ASSUME TypeOK, DebtInv, [Next]_vars PROVE DebtInv'
  OBVIOUS
<1> DEFINE owed == Unrecorded
           credit(mints) == Credit(Counted(mints, Unrecorded, started))
<1>0. /\ bucket \in 0..Full /\ ledger \in Mints /\ \A m \in Minter : seen[m] \in Mints
      /\ Unrecorded \in SUBSET Minter /\ \A m \in Minter : started[m] \in Ages
      /\ step = [m \in Minter |-> step[m]] /\ started = [m \in Minter |-> started[m]]
      /\ seen = [m \in Minter |-> seen[m]]
  BY DEF TypeOK, Mints, Unrecorded
<1>00. \A mints \in Mints : credit(mints) \in 0..Full
  BY <1>0, CountedType, CreditRange
<1>1. CASE Tick
  <2>1. /\ bucket' = Least(bucket + 1, Full) /\ ledger' = Aged(ledger)
        /\ \A m \in Minter : seen'[m] = Aged(seen[m])
        /\ Unrecorded' = Unrecorded /\ step' = step
        /\ \A m \in Unrecorded : started'[m] = Older(started[m])
    BY <1>1 DEF Tick, Unrecorded
  <2>2. ASSUME NEW mints \in Mints, credit(mints) >= bucket
        PROVE  Credit(Counted(Aged(mints), Unrecorded', started')) >= bucket'
    <3>1. Credit(Counted(Aged(mints), Unrecorded, started')) >= Least(credit(mints) + 1, Full)
      BY <1>0, <2>1, OwedAge
    <3>2. Credit(Counted(Aged(mints), Unrecorded, started')) \in Nat
      <4>1. Aged(mints) \in Mints
        BY Limits DEF Aged, Mints
      <4> QED
        BY <4>1, <1>0, CountedType
    <3>3. Least(credit(mints) + 1, Full) >= Least(bucket + 1, Full)
          /\ Least(credit(mints) + 1, Full) \in Nat /\ Least(bucket + 1, Full) \in Nat
      <4> HIDE DEF credit
      <4>1. credit(mints) \in Nat /\ credit(mints) >= bucket /\ bucket \in Nat
        BY <1>0, <1>00, <2>2, Limits
      <4> QED
        BY <4>1, Limits DEF Least
    <3> QED
      BY <2>1, <3>1, <3>2, <3>3
  <2> QED
    BY <1>0, <2>1, <2>2 DEF DebtInv
<1>2. ASSUME NEW m \in Minter, Admit(m) \/ Renew(m) \/ OrderFails(m)
      PROVE  DebtInv'
  <2>1. /\ m \notin Unrecorded /\ UNCHANGED <<bucket, ledger, seen>>
        /\ \E now \in {"ordering", "idle"} : step' = [step EXCEPT ![m] = now]
        /\ started' = [started EXCEPT ![m] = 0]
    BY <1>2, Zenon DEF Admit, Renew, OrderFails, Unrecorded, Retry
  <2>2. \A n \in Unrecorded' : n \in Unrecorded /\ started'[n] = started[n]
    BY <1>0, <2>1 DEF Unrecorded
  <2>3. \A n \in Minter : step'[n] = "recording" => step[n] = "recording" /\ seen'[n] = seen[n]
    BY <1>0, <2>1
  <2> QED
    BY <2>1, <2>2, <2>3, GivingUp
<1>3. ASSUME NEW m \in Minter, Issue(m)
      PROVE  DebtInv'
  <2>1. /\ bucket' = bucket - Refill /\ m \in Minter \ Unrecorded
        /\ Unrecorded' = Unrecorded \union {m}
        /\ \A n \in Minter : step'[n] = "recording" => step[n] = "recording"
        /\ UNCHANGED <<ledger, started, seen>>
    BY <1>0, <1>3 DEF Issue, Unrecorded
  <2>2. ASSUME NEW mints \in Mints, credit(mints) >= bucket
        PROVE  Credit(Counted(mints, Unrecorded', started')) >= bucket'
    <3>1. Credit(Counted(mints, Unrecorded', started')) >= credit(mints) - Refill
      BY <1>0, <2>1, OneMoreOwed
    <3>2. Credit(Counted(mints, Unrecorded', started')) \in Nat
      <4>1. Unrecorded' \in SUBSET Minter
        BY DEF Unrecorded
      <4> QED
        BY <4>1, CountedType
    <3> HIDE DEF credit
    <3> QED
      BY <1>0, <1>00, <2>1, <2>2, <3>1, <3>2, Limits
  <2> QED
    BY <1>0, <2>1, <2>2 DEF DebtInv
<1>4. ASSUME NEW m \in Minter, RecordRead(m)
      PROVE  DebtInv'
  <2>1. /\ UNCHANGED <<bucket, ledger, started>> /\ Unrecorded' = Unrecorded
        /\ seen'[m] = Prune(ledger)
        /\ \A n \in Minter \ {m} : seen'[n] = seen[n] /\ step'[n] = step[n]
    BY <1>0, <1>4 DEF RecordRead, Unrecorded
  <2>2. Prune(ledger) \in Mints /\ \A a \in 0..Window : Prune(ledger)[a] <= ledger[a]
    BY <1>0, Limits DEF Prune, Mints
  <2>3. credit(Prune(ledger)) >= credit(ledger)
    BY <1>0, <2>2, FewerOwed
  <2>4. credit(Prune(ledger)) >= bucket
    <3> HIDE DEF credit
    <3>1. credit(ledger) >= bucket
      BY DEF DebtInv, credit
    <3> QED
      BY <1>0, <1>00, <2>2, <2>3, <3>1, Limits
  <2> QED
    BY <2>1, <2>4 DEF DebtInv
<1>5. ASSUME NEW m \in Minter, RecordWrite(m)
      PROVE  DebtInv'
  <2>1. /\ bucket' = bucket /\ m \in Unrecorded /\ Unrecorded' = Unrecorded \ {m}
        /\ ledger' = [seen[m] EXCEPT ![started[m]] = @ + 1]
        /\ \A n \in Minter \ {m} :
              seen'[n] = seen[n] /\ started'[n] = started[n] /\ step'[n] = step[n]
        /\ step'[m] = "idle" /\ step[m] = "recording"
    BY <1>0, <1>5 DEF RecordWrite, Done, Unrecorded
  <2>2. ledger' \in Mints /\ Unrecorded' \in SUBSET Minter /\ m \notin Unrecorded'
    BY <1>0, <2>1, Limits DEF Mints
  <2>3. Counted(ledger', Unrecorded', started') = Counted(seen[m], Unrecorded, started)
    <3>1. Counted(ledger', Unrecorded', started') = Counted(ledger', Unrecorded', started)
      <4>1. \A a \in Ages : {n \in Unrecorded' : started'[n] = a} = {n \in Unrecorded' : started[n] = a}
        BY <2>1, <2>2
      <4> QED
        BY <4>1, Zenon DEF Counted
    <3>2. Counted(ledger', Unrecorded', started)
            = [Counted(seen[m], Unrecorded', started) EXCEPT ![started[m]] = @ + 1]
      <4> DEFINE since == [a \in Ages |-> Cardinality({n \in Unrecorded' : started[n] = a})]
                 old == seen[m]
                 s == started[m]
      <4>1. old \in [Ages -> Nat] /\ s \in Ages /\ since \in [Ages -> Nat]
        <5>1. \A a \in Ages : Cardinality({n \in Unrecorded' : started[n] = a}) \in Nat
          BY <2>2, OwedNumber
        <5>2. since \in [Ages -> Nat]
          BY <5>1
        <5>3. old \in [Ages -> Nat] /\ s \in Ages
          BY <1>0 DEF Mints
        <5> QED
          BY <5>2, <5>3
      <4>2. ledger' = [old EXCEPT ![s] = @ + 1]
        BY <2>1
      <4>3. /\ Counted(ledger', Unrecorded', started) = [a \in Ages |-> ledger'[a] + since[a]]
            /\ Counted(old, Unrecorded', started) = [a \in Ages |-> old[a] + since[a]]
        BY DEF Counted
      <4> HIDE DEF since, old, s
      <4>4. [a \in Ages |-> ledger'[a] + since[a]]
              = [[a \in Ages |-> old[a] + since[a]] EXCEPT ![s] = @ + 1]
        <5>1. \A a \in Ages : ledger'[a] = IF a = s THEN old[a] + 1 ELSE old[a]
          BY <4>1, <4>2
        <5>2. \A a \in Ages : old[a] \in Nat /\ since[a] \in Nat
          BY <4>1
        <5>3. \A a \in Ages : ledger'[a] + since[a]
                 = IF a = s THEN (old[a] + since[a]) + 1 ELSE old[a] + since[a]
          BY <5>1, <5>2
        <5> DEFINE sum == [a \in Ages |-> old[a] + since[a]]
        <5>4. \A a \in Ages : sum[a] = old[a] + since[a]
          OBVIOUS
        <5>5. [sum EXCEPT ![s] = @ + 1]
                = [a \in Ages |-> IF a = s THEN sum[a] + 1 ELSE sum[a]]
          BY <4>1
        <5> QED
          BY <5>3, <5>4, <5>5
      <4> QED
        BY <4>3, <4>4 DEF old, s
    <3>3. Unrecorded = Unrecorded' \union {m}
      BY <2>1
    <3>4. Counted(seen[m], Unrecorded' \union {m}, started)
            = [Counted(seen[m], Unrecorded', started) EXCEPT ![started[m]] = @ + 1]
      BY <1>0, <2>2, OneMoreOwed
    <3> QED
      BY <3>1, <3>2, <3>3, <3>4
  <2>4. Credit(Counted(ledger', Unrecorded', started')) >= bucket'
    BY <2>1, <2>3 DEF DebtInv
  <2>5. ASSUME NEW n \in Minter, step'[n] = "recording"
        PROVE  Credit(Counted(seen'[n], Unrecorded', started')) >= bucket'
    <3>1. n # m /\ seen'[n] = seen[n] /\ seen[n] \in Mints /\ step[n] = "recording"
      BY <1>0, <2>1, <2>5
    <3>2. \A a \in 0..Window : seen[n][a] <= seen[n][a]
      BY <3>1, Limits DEF Mints
    <3>3. \A o \in Unrecorded' : started'[o] = started[o]
      BY <2>1, <2>2
    <3>4. Unrecorded' \in SUBSET Unrecorded
      BY <2>1
    <3>5. Credit(Counted(seen[n], Unrecorded', started')) >= credit(seen[n])
      BY <1>0, <3>1, <3>2, <3>3, <3>4, FewerOwed
    <3>6. credit(seen[n]) >= bucket
      BY <3>1 DEF DebtInv
    <3>7. Credit(Counted(seen[n], Unrecorded', started')) \in Nat
      BY <2>2, <3>1, CountedType
    <3> HIDE DEF credit
    <3> QED
      BY <1>0, <1>00, <2>1, <3>1, <3>5, <3>6, <3>7, Limits
  <2> QED
    BY <2>4, <2>5 DEF DebtInv
<1>6. ASSUME NEW m \in Minter, RecordFails(m) \/ Restart(m)
      PROVE  DebtInv'
  <2>1. /\ UNCHANGED <<bucket, ledger>>
        /\ step' = [step EXCEPT ![m] = "idle"]
        /\ started' = [started EXCEPT ![m] = 0]
        /\ seen' = [seen EXCEPT ![m] = NoMints]
    BY <1>6, Zenon DEF RecordFails, Restart, Done
  <2>2. \A n \in Unrecorded' : n \in Unrecorded /\ started'[n] = started[n]
    BY <1>0, <2>1 DEF Unrecorded
  <2>3. \A n \in Minter : step'[n] = "recording" => step[n] = "recording" /\ seen'[n] = seen[n]
    BY <1>0, <2>1
  <2> QED
    BY <2>1, <2>2, <2>3, GivingUp
<1>7. CASE UNCHANGED vars
  BY <1>7, GivingUp DEF vars, Unrecorded
<1> QED
  BY <1>1, <1>2, <1>3, <1>4, <1>5, <1>6, <1>7 DEF Next

(***************************************************************************)
(* Every variable has its type; an order that ends at once writes back     *)
(* only mints of the window (recordSuccessfulMint, pruneToWindow).         *)
(***************************************************************************)
THEOREM MintTypes == Spec => []TypeOK
<1> QED
  BY MintTypesInit, MintTypesStep, PTL DEF Spec

(***************************************************************************)
(* "a blocked boot self-heals as soon as LE itself would issue again"      *)
(* (tls-mint-log.js:108-109): the guard never counts fewer tokens than the *)
(* authority has.                                                          *)
(***************************************************************************)
THEOREM GuardIsNeverStricter == Spec => []NeverStricter
<1>1. Init => DebtInv
  <2> SUFFICES ASSUME Init PROVE DebtInv
    OBVIOUS
  <2>1. ledger \in Mints /\ Unrecorded = {} /\ \A m \in Minter : step[m] # "recording"
    BY Limits DEF Init, NoMints, Mints, Unrecorded
  <2>2. Counted(ledger, Unrecorded, started) = NoMints
    BY <2>1, FS_EmptySet DEF Init, Counted, NoMints
  <2>3. Credit(NoMints) >= Full
    BY UnspentIsFull
  <2> QED
    BY <2>1, <2>2, <2>3 DEF DebtInv, Init
<1>2. TypeOK /\ DebtInv => NeverStricter
  <2> SUFFICES ASSUME TypeOK, DebtInv PROVE NeverStricter
    OBVIOUS
  <2>1. ledger \in Mints /\ Unrecorded \in SUBSET Minter /\ bucket \in Int
    BY DEF TypeOK, Mints, Unrecorded
  <2>2. Counted(ledger, Unrecorded, started) \in Mints
    BY <2>1, CountedType
  <2>3. \A a \in 0..Window : ledger[a] <= Counted(ledger, Unrecorded, started)[a]
    <3>1. \A a \in 0..Window : /\ a \in Ages /\ ledger[a] \in Nat
                               /\ Cardinality({m \in Unrecorded : started[m] = a}) \in Nat
      <4>1. \A a : Cardinality({m \in Unrecorded : started[m] = a}) \in Nat
        BY <2>1, OwedNumber
      <4>2. \A a \in 0..Window : a \in Ages /\ ledger[a] \in Nat
        BY <2>1, Limits DEF Mints
      <4> QED
        BY <4>1, <4>2
    <3> QED
      BY <3>1 DEF Counted
  <2>4. Credit(ledger) >= Credit(Counted(ledger, Unrecorded, started))
    BY <2>1, <2>2, <2>3, CreditMonotone
  <2>5. Credit(Prune(ledger)) >= Credit(ledger) /\ Prune(ledger) \in Mints
    BY <2>1, PruneKeepsCredit
  <2>6. /\ Credit(ledger) \in Int /\ Credit(Prune(ledger)) \in Int
        /\ Credit(Counted(ledger, Unrecorded, started)) \in Int
    BY <2>1, <2>2, <2>5, CreditRange, Limits
  <2> QED
    BY <2>1, <2>4, <2>5, <2>6 DEF DebtInv, NeverStricter
<1> QED
  BY <1>1, <1>2, MintTypesInit, MintTypesStep, DebtInvStep, PTL DEF Spec
=============================================================================
