---------------------------- MODULE LedgerProofs ----------------------------
(***************************************************************************)
(* Proofs about FillLedger, TaxReport and LedgerRepair for any strategies, *)
(* orders, prices and numbers of executions: lots, positions and           *)
(* executions tell the same story in units and in money, lots are used up  *)
(* in the order of their age, no sale is booked twice or too often when an *)
(* operator repairs the ledger, and the tax report finds the cost that was *)
(* booked.  Polls, restarts and dropped fills come between as they may.    *)
(***************************************************************************)
EXTENDS LedgerRepair, FiniteSetTheorems, SequenceTheorems, TLAPS

-----------------------------------------------------------------------------
(***************************************************************************)
(* Numbers and sums.                                                       *)
(***************************************************************************)
\* A set of natural numbers has a least element: in the place of induction.
LEMMA LeastNatural ==
  ASSUME NEW T \in SUBSET Nat, T # {}
  PROVE \E x \in T : \A y \in T : x <= y
  <1> DEFINE U == {0..n : n \in T}
  <1>1. IsWellFoundedOn(StrictSubsetOrdering(Nat), FiniteSubsetsOf(Nat))
    BY FS_StrictSubsetOrderingWellFounded
  <1>2. U \subseteq FiniteSubsetsOf(Nat)
    <2>1. ASSUME NEW n \in T PROVE 0..n \in FiniteSubsetsOf(Nat)
      <3>1. n \in Int /\ 0 \in Int /\ 0..n \subseteq Nat
        OBVIOUS
      <3>2. IsFiniteSet(0..n)
        BY <3>1, FS_Interval
      <3> QED BY <3>1, <3>2 DEF FiniteSubsetsOf
    <2> QED BY <2>1
  <1>3. U # {}
    OBVIOUS
  <1>4. \E x \in U : \A y \in U : <<y, x>> \notin StrictSubsetOrdering(Nat)
    <2> HIDE DEF U
    <2> QED BY <1>1, <1>2, <1>3, WFMin
  <1>5. PICK m \in T : \A y \in T : <<0..y, 0..m>> \notin StrictSubsetOrdering(Nat)
    BY <1>4
  <1>6. ASSUME NEW y \in T, y < m PROVE FALSE
    <2>1. y \in Nat /\ m \in Nat
      OBVIOUS
    <2>2. 0..y \subseteq 0..m /\ 0..y \subseteq Nat /\ 0..m \subseteq Nat
      BY <1>6, <2>1
    <2>3. m \in 0..m /\ m \notin 0..y
      BY <1>6, <2>1
    <2>4. <<0..y, 0..m>> \in StrictSubsetOrdering(Nat)
      BY <2>2, <2>3 DEF StrictSubsetOrdering
    <2> QED BY <1>5, <2>4
  <1> QED BY <1>6

\* What neither fails at 0 nor for the first time later does not fail up to n.
LEMMA UpTo ==
  ASSUME NEW n \in Nat, NEW T \in SUBSET (0..n), 0 \notin T,
         \A i \in 1..n : i - 1 \notin T => i \notin T
  PROVE  T = {}
  <1> SUFFICES ASSUME T # {} PROVE FALSE
    OBVIOUS
  <1>1. PICK m \in T : \A i \in T : m <= i
    <2>1. T \in SUBSET Nat
      OBVIOUS
    <2> QED
      BY <2>1, LeastNatural
  <1>2. m \in 1..n /\ ~(m <= m - 1)
    BY <1>1
  <1>3. m - 1 \notin T
    BY <1>1, <1>2
  <1> QED
    BY <1>1, <1>2, <1>3

\* A sequence of n elements is a function on 1..n.
LEMMA Listed ==
  ASSUME NEW n \in Nat, NEW S, NEW f \in [1..n -> S]
  PROVE  f \in Seq(S) /\ Len(f) = n /\ DOMAIN f = 1..n
  <1>1. f \in Seq(S)
    BY SeqDef
  <1>2. Len(f) \in Nat /\ DOMAIN f = 1..Len(f) /\ DOMAIN f = 1..n
    BY <1>1, LenProperties
  <1>3. Len(f) = n
    BY <1>2
  <1> QED
    BY <1>1, <1>2, <1>3

\* The recursion of Sums has a solution: the terms can be added one by one.
LEMMA SumsIs ==
  ASSUME NEW seq, Len(seq) \in Nat
  PROVE  Sums(seq) = [i \in 0..Len(seq) |-> IF i = 0 THEN 0 ELSE Sums(seq)[i - 1] + seq[i]]
  <1> DEFINE Fits(n, g) == g = [i \in 0..n |-> IF i = 0 THEN 0 ELSE g[i - 1] + seq[i]]
             T == {n \in Nat : ~\E g : Fits(n, g)}
  <1>1. ASSUME T # {} PROVE FALSE
    <2>1. PICK m \in T : \A n \in T : m <= n
      <3>1. T \subseteq Nat
        OBVIOUS
      <3> HIDE DEF T
      <3> QED
        BY <1>1, <3>1, LeastNatural
    <2>2. m \in Nat /\ ~\E g : Fits(m, g)
      OBVIOUS
    <2>3. CASE m = 0
      <3> DEFINE zero == [i \in 0..m |-> 0]
      <3>1. Fits(m, zero)
        BY <2>3
      <3> HIDE DEF zero, Fits
      <3> QED
        BY <2>2, <3>1
    <2>4. CASE m # 0
      <3>1. m - 1 \in Nat /\ m - 1 \notin T
        <4>1. m - 1 \in Nat /\ ~(m <= m - 1)
          BY <2>2, <2>4
        <4> HIDE DEF T
        <4> QED
          BY <2>1, <4>1
      <3>2. PICK g : Fits(m - 1, g)
        BY <3>1
      <3> DEFINE k == [i \in 0..m |-> IF i = 0 THEN 0 ELSE g[i - 1] + seq[i]]
      <3>3. ASSUME NEW i \in 0..(m - 1) PROVE k[i] = g[i]
        <4>1. i \in 0..m
          BY <2>2
        <4>2. g[i] = IF i = 0 THEN 0 ELSE g[i - 1] + seq[i]
          BY <3>2
        <4> QED
          BY <4>1, <4>2
      <3>4. ASSUME NEW i \in 0..m, i # 0 PROVE k[i - 1] = g[i - 1]
        <4>1. i - 1 \in 0..(m - 1)
          BY <2>2, <3>4
        <4> HIDE DEF k
        <4> QED
          BY <3>3, <4>1
      <3>5. \A i \in 0..m : k[i] = IF i = 0 THEN 0 ELSE g[i - 1] + seq[i]
        OBVIOUS
      <3>6. k = [i \in 0..m |-> k[i]]
        OBVIOUS
      <3> HIDE DEF k
      <3>7. \A i \in 0..m : k[i] = IF i = 0 THEN 0 ELSE k[i - 1] + seq[i]
        BY <3>4, <3>5
      <3>8. Fits(m, k)
        BY <3>6, <3>7
      <3> QED
        BY <2>2, <3>8
    <2> QED
      BY <2>3, <2>4
  <1>3. \E g : Fits(Len(seq), g)
    BY <1>1
  <1>4. Fits(Len(seq), CHOOSE g : Fits(Len(seq), g))
    BY <1>3
  <1> QED
    BY <1>4 DEF Sums

(* Partial sums of natural numbers.                                          *)
LEMMA SumsStep ==
  ASSUME NEW n \in Nat, NEW f \in [1..n -> Nat]
  PROVE  /\ Sums(f)[0] = 0 /\ Total(f) = Sums(f)[n]
         /\ \A i \in 1..n : Sums(f)[i] = Sums(f)[i - 1] + f[i]
  <1> DEFINE S == Sums(f)
  <1>1. Len(f) = n
    BY Listed
  <1>2. S = [i \in 0..n |-> IF i = 0 THEN 0 ELSE S[i - 1] + f[i]]
    BY <1>1, SumsIs
  <1>3. Total(f) = S[n]
    BY <1>1 DEF Total
  <1> HIDE DEF S
  <1>4. \A i \in 0..n : S[i] = IF i = 0 THEN 0 ELSE S[i - 1] + f[i]
    BY <1>2
  <1>5. S[0] = 0
    BY <1>4
  <1>6. \A i \in 1..n : S[i] = S[i - 1] + f[i]
    BY <1>4
  <1> QED
    BY <1>3, <1>5, <1>6 DEF S

LEMMA SumsAreNatural ==
  ASSUME NEW n \in Nat, NEW f \in [1..n -> Nat]
  PROVE  Total(f) \in Nat /\ \A i \in 0..n : Sums(f)[i] \in Nat
  <1> DEFINE S == Sums(f)
             T == {i \in 0..n : S[i] \notin Nat}
  <1>1. S[0] = 0 /\ Total(f) = S[n] /\ \A i \in 1..n : S[i] = S[i - 1] + f[i]
    BY SumsStep
  <1> HIDE DEF S
  <1>2. 0 \notin T
    BY <1>1
  <1>3. ASSUME NEW i \in 1..n, i - 1 \notin T PROVE i \notin T
    <2>1. S[i - 1] \in Nat /\ f[i] \in Nat
      BY <1>3
    <2> QED
      BY <1>1, <2>1
  <1>4. T = {}
    <2>1. T \in SUBSET (0..n)
      OBVIOUS
    <2> HIDE DEF T
    <2> QED
      BY <1>2, <1>3, <2>1, UpTo
  <1>5. \A i \in 0..n : S[i] \in Nat
    BY <1>4
  <1>6. n \in 0..n
    OBVIOUS
  <1> QED
    BY <1>1, <1>5, <1>6 DEF S

LEMMA SumsGrow ==
  ASSUME NEW n \in Nat, NEW f \in [1..n -> Nat], NEW i \in 0..n, NEW j \in 0..n, i <= j
  PROVE  Sums(f)[i] <= Sums(f)[j]
  <1> DEFINE S == Sums(f)
             T == {k \in 0..n : i <= k /\ ~(S[i] <= S[k])}
  <1>1. /\ \A k \in 1..n : S[k] = S[k - 1] + f[k]
        /\ \A k \in 0..n : S[k] \in Nat
    BY SumsStep, SumsAreNatural
  <1> HIDE DEF S
  <1>2. 0 \notin T
    BY <1>1
  <1>3. ASSUME NEW k \in 1..n, k - 1 \notin T PROVE k \notin T
    <2>1. S[k - 1] \in Nat /\ f[k] \in Nat /\ S[i] \in Nat /\ S[k] = S[k - 1] + f[k]
      BY <1>1
    <2>2. CASE i = k
      BY <1>1, <2>2
    <2>3. CASE i <= k - 1
      <3>1. S[i] <= S[k - 1]
        BY <1>3, <2>3
      <3> QED
        BY <2>1, <3>1
    <2> QED
      BY <2>2, <2>3
  <1>4. T = {}
    <2>1. T \in SUBSET (0..n)
      OBVIOUS
    <2> HIDE DEF T
    <2> QED
      BY <1>2, <1>3, <2>1, UpTo
  <1>5. S[i] <= S[j]
    BY <1>4
  <1> QED
    BY <1>5 DEF S

\* A term is not more than the sum.
LEMMA TermsAreInTotal ==
  ASSUME NEW n \in Nat, NEW f \in [1..n -> Nat], NEW i \in 1..n
  PROVE  /\ Sums(f)[i - 1] + f[i] <= Total(f) /\ f[i] <= Total(f)
  <1>1. i - 1 \in 0..n /\ i \in 0..n /\ n \in 0..n /\ i <= n
    OBVIOUS
  <1>2. Sums(f)[i] <= Total(f)
    BY <1>1, SumsGrow, SumsStep
  <1>3. Sums(f)[i] = Sums(f)[i - 1] + f[i]
    BY SumsStep
  <1>4. Sums(f)[i - 1] \in Nat /\ Sums(f)[i] \in Nat /\ Total(f) \in Nat /\ f[i] \in Nat
    BY <1>1, SumsAreNatural
  <1> QED
    BY <1>2, <1>3, <1>4

\* The sum of sums.
LEMMA SumsAdd ==
  ASSUME NEW n \in Nat, NEW f \in [1..n -> Nat], NEW g \in [1..n -> Nat], NEW h \in [1..n -> Nat],
         \A i \in 1..n : h[i] = f[i] + g[i]
  PROVE  Total(h) = Total(f) + Total(g)
  <1> DEFINE F == Sums(f)
             G == Sums(g)
             H == Sums(h)
             T == {i \in 0..n : H[i] # F[i] + G[i]}
  <1>1. /\ F[0] = 0 /\ Total(f) = F[n] /\ \A i \in 1..n : F[i] = F[i - 1] + f[i]
        /\ \A i \in 0..n : F[i] \in Nat
    BY SumsStep, SumsAreNatural
  <1>2. /\ G[0] = 0 /\ Total(g) = G[n] /\ \A i \in 1..n : G[i] = G[i - 1] + g[i]
        /\ \A i \in 0..n : G[i] \in Nat
    BY SumsStep, SumsAreNatural
  <1>3. /\ H[0] = 0 /\ Total(h) = H[n] /\ \A i \in 1..n : H[i] = H[i - 1] + h[i]
        /\ \A i \in 0..n : H[i] \in Nat
    BY SumsStep, SumsAreNatural
  <1> HIDE DEF F, G, H
  <1>4. 0 \notin T
    BY <1>1, <1>2, <1>3
  <1>5. ASSUME NEW i \in 1..n, i - 1 \notin T PROVE i \notin T
    <2>1. i - 1 \in 0..n
      OBVIOUS
    <2>2. F[i - 1] \in Nat /\ G[i - 1] \in Nat /\ H[i - 1] = F[i - 1] + G[i - 1]
      BY <1>1, <1>2, <1>5, <2>1
    <2>3. f[i] \in Nat /\ g[i] \in Nat /\ h[i] = f[i] + g[i]
      OBVIOUS
    <2>4. F[i] = F[i - 1] + f[i] /\ G[i] = G[i - 1] + g[i] /\ H[i] = H[i - 1] + h[i]
      BY <1>1, <1>2, <1>3
    <2> DEFINE a == F[i - 1]
               b == G[i - 1]
               c == f[i]
               d == g[i]
    <2>5. /\ a \in Nat /\ b \in Nat /\ c \in Nat /\ d \in Nat
          /\ F[i] = a + c /\ G[i] = b + d /\ H[i] = (a + b) + (c + d)
      BY <2>2, <2>3, <2>4
    <2> HIDE DEF a, b, c, d, T
    <2>6. (a + b) + (c + d) = (a + c) + (b + d)
      BY ONLY <2>5
    <2>7. H[i] = F[i] + G[i]
      BY ONLY <2>5, <2>6
    <2> QED
      BY <2>7 DEF T
  <1>6. T = {}
    <2>1. T \in SUBSET (0..n)
      OBVIOUS
    <2> HIDE DEF T
    <2>2. /\ n \in Nat /\ T \in SUBSET (0..n) /\ 0 \notin T
          /\ \A i \in 1..n : i - 1 \notin T => i \notin T
      BY <1>4, <1>5, <2>1
    <2> QED
      BY ONLY <2>2, UpTo
  <1>7. n \in 0..n
    OBVIOUS
  <1>8. H[n] = F[n] + G[n]
    BY <1>6, <1>7
  <1> QED
    BY <1>1, <1>2, <1>3, <1>8

\* A term more.
LEMMA SumsInsert ==
  ASSUME NEW n \in Nat, NEW f \in [1..n -> Nat], NEW g \in [1..(n + 1) -> Nat], NEW k \in 0..n,
         \A i \in 1..k : g[i] = f[i],
         \A i \in (k + 1)..n : g[i + 1] = f[i]
  PROVE  Total(g) = Total(f) + g[k + 1]
  <1> DEFINE F == Sums(f)
             G == Sums(g)
             U == {i \in 0..n : ~(IF i < k THEN G[i] = F[i] ELSE G[i + 1] = F[i] + g[k + 1])}
  <1>1. /\ F[0] = 0 /\ Total(f) = F[n] /\ \A i \in 1..n : F[i] = F[i - 1] + f[i]
        /\ \A i \in 0..n : F[i] \in Nat
    BY SumsStep, SumsAreNatural
  <1>2. /\ G[0] = 0 /\ Total(g) = G[n + 1] /\ \A i \in 1..(n + 1) : G[i] = G[i - 1] + g[i]
        /\ \A i \in 0..(n + 1) : G[i] \in Nat
    <2>1. n + 1 \in Nat
      OBVIOUS
    <2> QED
      BY <2>1, SumsStep, SumsAreNatural
  <1> HIDE DEF F, G
  <1>3. k + 1 \in 1..(n + 1) /\ g[k + 1] \in Nat
    OBVIOUS
  <1>4. 0 \notin U
    <2>1. CASE k = 0
      <3>1. G[1] = G[0] + g[1]
        BY <1>2
      <3> QED
        BY <1>1, <1>2, <1>3, <2>1, <3>1
    <2>2. CASE k # 0
      BY <1>1, <1>2, <2>2
    <2> QED
      BY <2>1, <2>2
  <1>5. ASSUME NEW i \in 1..n, i - 1 \notin U PROVE i \notin U
    <2>1. i - 1 \in 0..n /\ i \in 1..(n + 1) /\ i + 1 \in 1..(n + 1) /\ (i + 1) - 1 = i
      OBVIOUS
    <2>2. /\ F[i] = F[i - 1] + f[i] /\ F[i - 1] \in Nat /\ f[i] \in Nat
          /\ G[i] = G[i - 1] + g[i] /\ G[i + 1] = G[i] + g[i + 1]
      BY <1>1, <1>2, <2>1
    <2>3. CASE i <= k
      <3>1. G[i - 1] = F[i - 1] /\ g[i] = f[i]
        BY <1>5, <2>1, <2>3
      <3>2. G[i] = F[i]
        BY <2>2, <3>1
      <3>3. i = k => G[i + 1] = F[i] + g[k + 1]
        BY <2>2, <3>2
      <3> QED
        BY <2>3, <3>2, <3>3
    <2>4. CASE i > k
      <3>1. g[i + 1] = f[i]
        BY <2>4
      <3>2. ~(i - 1 < k) /\ ~(i < k) /\ (i - 1) + 1 = i
        BY <2>4
      <3>3. G[i] = F[i - 1] + g[k + 1]
        BY <1>5, <2>1, <3>2
      <3>4. G[i + 1] = F[i] + g[k + 1]
        BY <1>3, <2>2, <3>1, <3>3
      <3> QED
        BY <3>2, <3>4
    <2> QED
      BY <2>3, <2>4
  <1>6. U = {}
    <2>1. U \in SUBSET (0..n)
      OBVIOUS
    <2> HIDE DEF U
    <2> QED
      BY <1>4, <1>5, <2>1, UpTo
  <1>7. n \in 0..n /\ ~(n < k)
    OBVIOUS
  <1>8. G[n + 1] = F[n] + g[k + 1]
    BY <1>6, <1>7
  <1> QED
    BY <1>1, <1>2, <1>8

\* A term at the end.
LEMMA SumsAppend ==
  ASSUME NEW n \in Nat, NEW f \in [1..n -> Nat], NEW g \in [1..(n + 1) -> Nat],
         \A i \in 1..n : g[i] = f[i]
  PROVE  Total(g) = Total(f) + g[n + 1]
  <1>1. n \in 0..n /\ \A i \in (n + 1)..n : g[i + 1] = f[i]
    OBVIOUS
  <1> QED
    BY <1>1, SumsInsert

\* Terms of nothing.
LEMMA ZeroTotal ==
  ASSUME NEW n \in Nat, NEW f \in [1..n -> Nat], \A i \in 1..n : f[i] = 0
  PROVE  Total(f) = 0
  <1> DEFINE S == Sums(f)
             T == {i \in 0..n : S[i] # 0}
  <1>1. S[0] = 0 /\ Total(f) = S[n] /\ \A i \in 1..n : S[i] = S[i - 1] + f[i]
    BY SumsStep
  <1> HIDE DEF S
  <1>2. 0 \notin T
    BY <1>1
  <1>3. ASSUME NEW i \in 1..n, i - 1 \notin T PROVE i \notin T
    <2>1. S[i - 1] = 0 /\ f[i] = 0
      BY <1>3
    <2> QED
      BY <1>1, <2>1
  <1>4. T = {}
    <2>1. T \in SUBSET (0..n)
      OBVIOUS
    <2> HIDE DEF T
    <2> QED
      BY <1>2, <1>3, <2>1, UpTo
  <1>5. n \in 0..n
    OBVIOUS
  <1> QED
    BY <1>1, <1>4, <1>5

\* One term grows.
LEMMA SumsChange ==
  ASSUME NEW n \in Nat, NEW f \in [1..n -> Nat], NEW g \in [1..n -> Nat], NEW j \in 1..n, NEW x \in Nat,
         g[j] = f[j] + x, \A i \in 1..n : i # j => g[i] = f[i]
  PROVE  Total(g) = Total(f) + x
  <1> DEFINE zeros == [i \in 1..(n - 1) |-> 0]
             only == [i \in 1..n |-> IF i = j THEN x ELSE 0]
  <1>1. n - 1 \in Nat /\ j - 1 \in 0..(n - 1) /\ (n - 1) + 1 = n /\ (j - 1) + 1 = j
    OBVIOUS
  <1>2. zeros \in [1..(n - 1) -> Nat] /\ only \in [1..n -> Nat]
    OBVIOUS
  <1>3. Total(zeros) = 0
    BY <1>1, <1>2, ZeroTotal
  <1>4. /\ only[j] = x
        /\ \A i \in 1..(j - 1) : only[i] = zeros[i]
        /\ \A i \in j..(n - 1) : only[i + 1] = zeros[i]
    OBVIOUS
  <1>5. \A i \in 1..n : g[i] = f[i] + only[i]
    OBVIOUS
  <1> HIDE DEF zeros, only
  <1>6. Total(only) = Total(zeros) + x
    <2> DEFINE m == n - 1
               k == j - 1
    <2>1. /\ m \in Nat /\ k \in 0..m /\ zeros \in [1..m -> Nat] /\ only \in [1..(m + 1) -> Nat]
          /\ \A i \in 1..k : only[i] = zeros[i]
          /\ \A i \in (k + 1)..m : only[i + 1] = zeros[i]
          /\ only[k + 1] = x
      BY <1>1, <1>2, <1>4
    <2> HIDE DEF m, k
    <2> QED
      BY <2>1, SumsInsert
  <1>7. Total(g) = Total(f) + Total(only)
    BY <1>2, <1>5, SumsAdd
  <1> QED
    BY <1>3, <1>6, <1>7

LEMMA MinAndMax ==
  ASSUME NEW a \in Int, NEW b \in Int
  PROVE  /\ Min({a, b}) = IF a <= b THEN a ELSE b
         /\ Max({a, b}) = IF a <= b THEN b ELSE a
  BY DEF Min, Max

-----------------------------------------------------------------------------
(***************************************************************************)
(* Lots.                                                                   *)
(***************************************************************************)
Lot == [at : Nat, price : Nat, open : Nat, left : Nat]

\* The units and costs of lots are natural numbers.
LEMMA LotsAreCounted ==
  ASSUME NEW queue \in Seq(Lot)
  PROVE  /\ Len(queue) \in Nat /\ DOMAIN queue = 1..Len(queue)
         /\ \A i \in 1..Len(queue) :
              /\ queue[i] \in Lot /\ queue[i].at \in Nat /\ queue[i].price \in Nat
              /\ queue[i].open \in Nat /\ queue[i].left \in Nat /\ queue[i].left * queue[i].price \in Nat
         /\ Units(queue) \in [1..Len(queue) -> Nat] /\ Costs(queue) \in [1..Len(queue) -> Nat]
         /\ LeftIn(queue) \in Nat /\ CostOf(queue) \in Nat
  <1>1. Len(queue) \in Nat /\ DOMAIN queue = 1..Len(queue) /\ \A i \in 1..Len(queue) : queue[i] \in Lot
    BY LenProperties, ElementOfSeq
  <1>2. ASSUME NEW i \in 1..Len(queue)
        PROVE  /\ queue[i].at \in Nat /\ queue[i].price \in Nat /\ queue[i].open \in Nat
               /\ queue[i].left \in Nat /\ queue[i].left * queue[i].price \in Nat
    <2>1. queue[i].at \in Nat /\ queue[i].price \in Nat /\ queue[i].open \in Nat /\ queue[i].left \in Nat
      BY <1>1 DEF Lot
    <2> QED
      BY <2>1
  <1>3. Units(queue) \in [1..Len(queue) -> Nat] /\ Costs(queue) \in [1..Len(queue) -> Nat]
    BY <1>1, <1>2 DEF Units, Costs
  <1>4. LeftIn(queue) \in Nat /\ CostOf(queue) \in Nat
    BY <1>1, <1>3, SumsAreNatural DEF LeftIn, CostOf
  <1> QED
    BY <1>1, <1>2, <1>3, <1>4

\* Of every lot as much is taken as is still wanted after those before it.
LEMMA TakenIs ==
  ASSUME NEW queue \in Seq(Lot), NEW n \in Nat, NEW i \in 1..Len(queue)
  PROVE  LET before == Sums(Units(queue))[i - 1]
             left == queue[i].left
         IN /\ before \in Nat /\ left \in Nat
            /\ Taken(queue, n)[i] = IF n <= before THEN 0
                                    ELSE IF left <= n - before THEN left ELSE n - before
            /\ Taken(queue, n)[i] \in 0..left
  <1> DEFINE before == Sums(Units(queue))[i - 1]
             left == queue[i].left
  <1>1. before \in Nat /\ left \in Nat /\ i \in DOMAIN queue
    <2>1. i - 1 \in 0..Len(queue)
      BY LotsAreCounted
    <2> QED
      BY <2>1, LotsAreCounted, SumsAreNatural
  <1>2. Taken(queue, n)[i] = Min({left, Max({n - before, 0})})
    BY <1>1 DEF Taken
  <1> HIDE DEF before, left
  <1>3. Max({n - before, 0}) = IF n <= before THEN 0 ELSE n - before
    <2> DEFINE wanted == n - before
    <2>1. wanted \in Int /\ 0 \in Int /\ (wanted <= 0 <=> n <= before)
      BY <1>1
    <2> HIDE DEF wanted
    <2>2. Max({wanted, 0}) = IF wanted <= 0 THEN 0 ELSE wanted
      BY <2>1, MinAndMax, Zenon
    <2> QED
      BY <2>1, <2>2 DEF wanted
  <1>4. Taken(queue, n)[i] = IF n <= before THEN 0
                             ELSE IF left <= n - before THEN left ELSE n - before
    <2>1. CASE n <= before
      <3>1. Taken(queue, n)[i] = Min({left, 0})
        BY <1>2, <1>3, <2>1
      <3>2. Min({left, 0}) = IF left <= 0 THEN left ELSE 0
        BY <1>1, MinAndMax
      <3> QED
        BY <1>1, <2>1, <3>1, <3>2
    <2>2. CASE ~(n <= before)
      <3>1. Taken(queue, n)[i] = Min({left, n - before})
        BY <1>2, <1>3, <2>2
      <3>2. n - before \in Int
        BY <1>1
      <3>3. Min({left, n - before}) = IF left <= n - before THEN left ELSE n - before
        BY <1>1, <3>2, MinAndMax
      <3> QED
        BY <2>2, <3>1, <3>3
    <2> QED
      BY <2>1, <2>2
  <1>5. Taken(queue, n)[i] \in 0..left
    BY <1>1, <1>4
  <1> QED
    BY <1>1, <1>4, <1>5 DEF before, left

LEMMA TakenInAll ==
  ASSUME NEW queue \in Seq(Lot), NEW n \in Nat, n <= LeftIn(queue)
  PROVE  Taken(queue, n) \in [1..Len(queue) -> Nat] /\ Total(Taken(queue, n)) = n
  <1> DEFINE taken == Taken(queue, n)
             len == Len(queue)
             B == Sums(Units(queue))
             S == Sums(taken)
             T == {i \in 0..len : S[i] # IF n <= B[i] THEN n ELSE B[i]}
  <1>1. len \in Nat /\ Units(queue) \in [1..len -> Nat] /\ \A i \in 1..len : Units(queue)[i] = queue[i].left
    BY LotsAreCounted DEF Units
  <1>2. taken \in [1..len -> Nat]
    <2>1. DOMAIN queue = 1..len
      BY LotsAreCounted
    <2>2. taken = [i \in 1..len |-> taken[i]]
      BY <2>1 DEF Taken
    <2>3. \A i \in 1..len : taken[i] \in Nat
      BY TakenIs
    <2> HIDE DEF taken, len
    <2> QED
      BY <2>2, <2>3
  <1>3. /\ B[0] = 0 /\ LeftIn(queue) = B[len] /\ \A i \in 1..len : B[i] = B[i - 1] + queue[i].left
        /\ \A i \in 0..len : B[i] \in Nat
    <2>1. /\ B[0] = 0 /\ LeftIn(queue) = B[len]
          /\ \A i \in 1..len : B[i] = B[i - 1] + Units(queue)[i]
      BY <1>1, SumsStep DEF LeftIn
    <2>2. \A i \in 0..len : B[i] \in Nat
      BY <1>1, SumsAreNatural
    <2> HIDE DEF B, len
    <2> QED
      BY <1>1, <2>1, <2>2
  <1>4. S[0] = 0 /\ Total(taken) = S[len] /\ \A i \in 1..len : S[i] = S[i - 1] + taken[i]
    BY <1>1, <1>2, SumsStep
  <1>5. \A i \in 1..len : /\ B[i - 1] \in Nat /\ queue[i].left \in Nat
                          /\ taken[i] = IF n <= B[i - 1] THEN 0
                                        ELSE IF queue[i].left <= n - B[i - 1] THEN queue[i].left
                                        ELSE n - B[i - 1]
    BY TakenIs
  <1> HIDE DEF B, S, taken, len
  <1>6. 0 \notin T
    BY <1>3, <1>4
  <1>7. ASSUME NEW i \in 1..len, i - 1 \notin T PROVE i \notin T
    <2>1. i - 1 \in 0..len
      BY <1>1
    <2>2. S[i - 1] = IF n <= B[i - 1] THEN n ELSE B[i - 1]
      BY <1>7, <2>1
    <2>3. /\ B[i - 1] \in Nat /\ queue[i].left \in Nat
          /\ S[i] = S[i - 1] + taken[i] /\ B[i] = B[i - 1] + queue[i].left
      BY <1>3, <1>4, <1>5
    <2>4. taken[i] = IF n <= B[i - 1] THEN 0
                     ELSE IF queue[i].left <= n - B[i - 1] THEN queue[i].left ELSE n - B[i - 1]
      BY <1>5
    <2>5. S[i] = IF n <= B[i] THEN n ELSE B[i]
      BY <2>2, <2>3, <2>4
    <2> QED
      BY <2>5
  <1>8. T = {}
    <2>1. T \in SUBSET (0..len)
      OBVIOUS
    <2> HIDE DEF T
    <2> QED
      BY <1>1, <1>6, <1>7, <2>1, UpTo
  <1>9. len \in 0..len /\ B[len] \in Nat
    BY <1>1, <1>3
  <1>10. S[len] = n
    BY <1>3, <1>8, <1>9
  <1> QED
    BY <1>2, <1>4, <1>10 DEF taken, len

\* The lots after a sale.
LEMMA ConsumedIs ==
  ASSUME NEW queue \in Seq(Lot), NEW n \in Nat
  PROVE  /\ Consumed(queue, n) \in Seq(Lot) /\ Len(Consumed(queue, n)) = Len(queue)
         /\ \A i \in 1..Len(queue) :
              /\ Consumed(queue, n)[i].at = queue[i].at
              /\ Consumed(queue, n)[i].price = queue[i].price
              /\ Consumed(queue, n)[i].open = queue[i].open
              /\ Consumed(queue, n)[i].left \in Nat
              /\ Consumed(queue, n)[i].left + Taken(queue, n)[i] = queue[i].left
  <1> DEFINE rest == Consumed(queue, n)
             len == Len(queue)
  <1>1. len \in Nat /\ DOMAIN queue = 1..len /\ \A i \in 1..len : queue[i] \in Lot
    BY LotsAreCounted
  <1>2. /\ rest = [i \in 1..len |-> rest[i]]
        /\ \A i \in 1..len : rest[i] = [queue[i] EXCEPT !.left = @ - Taken(queue, n)[i]]
    BY <1>1 DEF Consumed
  <1>3. ASSUME NEW i \in 1..len
        PROVE  /\ rest[i] \in Lot /\ rest[i].at = queue[i].at /\ rest[i].price = queue[i].price
               /\ rest[i].open = queue[i].open /\ rest[i].left \in Nat
               /\ rest[i].left + Taken(queue, n)[i] = queue[i].left
    <2>1. queue[i] \in Lot /\ queue[i].left \in Nat /\ Taken(queue, n)[i] \in 0..queue[i].left
      BY <1>1, TakenIs DEF Lot
    <2>2. rest[i] = [queue[i] EXCEPT !.left = queue[i].left - Taken(queue, n)[i]]
      BY <1>2
    <2> DEFINE left == queue[i].left
               took == Taken(queue, n)[i]
    <2>3. left - took \in Nat /\ (left - took) + took = left
      BY <2>1
    <2> HIDE DEF left, took, rest
    <2>4. rest[i] \in Lot
      BY <2>1, <2>2, <2>3 DEF Lot, left, took
    <2>5. /\ rest[i].at = queue[i].at /\ rest[i].price = queue[i].price
          /\ rest[i].open = queue[i].open /\ rest[i].left = left - took
      BY <2>1, <2>2 DEF Lot, left, took
    <2> QED
      BY <2>3, <2>4, <2>5 DEF left, took
  <1> HIDE DEF rest
  <1>4. rest \in [1..len -> Lot]
    BY <1>2, <1>3
  <1>5. rest \in Seq(Lot) /\ Len(rest) = len
    BY <1>1, <1>4, Listed
  <1> QED
    BY <1>3, <1>5 DEF rest

\* A sale takes its units and their cost out of the lots.
LEMMA SaleIsTaken ==
  ASSUME NEW queue \in Seq(Lot), NEW n \in Nat, n <= LeftIn(queue)
  PROVE  /\ LeftIn(Consumed(queue, n)) + n = LeftIn(queue)
         /\ CostBasis(queue, n) \in Nat
         /\ CostOf(Consumed(queue, n)) + CostBasis(queue, n) = CostOf(queue)
  <1> DEFINE rest == Consumed(queue, n)
             taken == Taken(queue, n)
             len == Len(queue)
             cost == [i \in DOMAIN queue |-> taken[i] * queue[i].price]
  <1>1. len \in Nat /\ DOMAIN queue = 1..len /\ rest \in Seq(Lot) /\ Len(rest) = len
    BY LotsAreCounted, ConsumedIs
  <1>2. taken \in [1..len -> Nat] /\ Total(taken) = n
    BY TakenInAll
  <1>3. /\ Units(queue) \in [1..len -> Nat] /\ Costs(queue) \in [1..len -> Nat]
        /\ Units(rest) \in [1..len -> Nat] /\ Costs(rest) \in [1..len -> Nat]
    BY <1>1, LotsAreCounted
  <1>4. \A i \in 1..len : /\ rest[i].price = queue[i].price /\ rest[i].left \in Nat
                          /\ queue[i].price \in Nat /\ queue[i].left = rest[i].left + taken[i]
    BY ConsumedIs, LotsAreCounted
  <1>5. DOMAIN rest = 1..len
    BY <1>1, LenProperties
  <1>6. \A i \in 1..len : Units(queue)[i] = Units(rest)[i] + taken[i]
    BY <1>1, <1>4, <1>5 DEF Units
  <1> HIDE DEF rest, taken, len
  <1>7. ASSUME NEW i \in 1..len
        PROVE  cost[i] \in Nat /\ Costs(queue)[i] = Costs(rest)[i] + cost[i]
    <2> DEFINE p == queue[i].price
               a == rest[i].left
               b == taken[i]
    <2>1. p \in Nat /\ a \in Nat /\ b \in Nat
      BY <1>2, <1>4
    <2>2. /\ Costs(queue)[i] = queue[i].left * p /\ Costs(rest)[i] = a * rest[i].price
          /\ cost[i] = b * p
      BY <1>1, <1>5 DEF Costs
    <2>3. queue[i].left = a + b /\ rest[i].price = p
      BY <1>4
    <2> HIDE DEF p, a, b, cost
    <2>4. Costs(queue)[i] = (a + b) * p /\ Costs(rest)[i] = a * p /\ cost[i] = b * p
      BY <2>2, <2>3
    <2>5. (a + b) * p = a * p + b * p /\ b * p \in Nat
      BY <2>1
    <2> QED
      BY <2>4, <2>5
  <1>8. cost \in [1..len -> Nat]
    BY <1>1, <1>7
  <1>9. CostBasis(queue, n) = Total(cost)
    BY DEF CostBasis, taken
  <1> HIDE DEF cost
  <1>10. Total(Units(queue)) = Total(Units(rest)) + n
    <2> DEFINE f == Units(rest)
               h == Units(queue)
    <2>1. /\ len \in Nat /\ f \in [1..len -> Nat] /\ taken \in [1..len -> Nat]
          /\ h \in [1..len -> Nat] /\ \A i \in 1..len : h[i] = f[i] + taken[i]
      BY <1>1, <1>2, <1>3, <1>6
    <2> HIDE DEF f, h
    <2>2. Total(h) = Total(f) + Total(taken)
      BY ONLY <2>1, SumsAdd, ZenonT(40)
    <2> QED
      BY <1>2, <2>2 DEF f, h
  <1>11. Total(Costs(queue)) = Total(Costs(rest)) + Total(cost)
    <2> DEFINE f == Costs(rest)
               h == Costs(queue)
    <2>1. /\ len \in Nat /\ f \in [1..len -> Nat] /\ cost \in [1..len -> Nat]
          /\ h \in [1..len -> Nat] /\ \A i \in 1..len : h[i] = f[i] + cost[i]
      BY <1>1, <1>3, <1>7, <1>8
    <2> HIDE DEF f, h
    <2>2. Total(h) = Total(f) + Total(cost)
      BY ONLY <2>1, SumsAdd, ZenonT(40)
    <2> QED
      BY <2>2 DEF f, h
  <1>12. Total(cost) \in Nat
    BY <1>1, <1>8, SumsAreNatural
  <1>13. /\ Total(Units(queue)) \in Nat /\ Total(Units(rest)) \in Nat
         /\ Total(Costs(queue)) \in Nat /\ Total(Costs(rest)) \in Nat
    BY <1>1, <1>3, SumsAreNatural
  <1> QED
    BY <1>9, <1>10, <1>11, <1>12, <1>13 DEF LeftIn, CostOf, rest

\* Lots without a unit left have no cost.
LEMMA NoUnitsNoCost ==
  ASSUME NEW queue \in Seq(Lot), LeftIn(queue) = 0
  PROVE  CostOf(queue) = 0
  <1> DEFINE len == Len(queue)
  <1>1. /\ len \in Nat /\ DOMAIN queue = 1..len
        /\ Units(queue) \in [1..len -> Nat] /\ Costs(queue) \in [1..len -> Nat]
    BY LotsAreCounted
  <1>2. ASSUME NEW i \in 1..len PROVE Costs(queue)[i] = 0
    <2>1. Units(queue)[i] <= 0 /\ Units(queue)[i] \in Nat
      BY <1>1, TermsAreInTotal DEF LeftIn
    <2>2. queue[i].left = 0 /\ queue[i].price \in Nat
      BY <1>1, <2>1, LotsAreCounted DEF Units
    <2> QED
      BY <1>1, <2>2 DEF Costs
  <1> HIDE DEF len
  <1> QED
    BY <1>1, <1>2, ZeroTotal DEF CostOf

Sorted(queue) == \A i, j \in 1..Len(queue) : i < j => queue[i].at <= queue[j].at

\* A new lot comes behind the lots that are not younger.
AddedAt(queue, lot, k) ==
  /\ k \in 0..Len(queue)
  /\ Added(queue, lot) \in Seq(Lot) /\ Len(Added(queue, lot)) = Len(queue) + 1
  /\ \A i \in 1..k : Added(queue, lot)[i] = queue[i]
  /\ Added(queue, lot)[k + 1] = lot
  /\ \A i \in (k + 1)..Len(queue) : Added(queue, lot)[i + 1] = queue[i]
  /\ Sorted(queue) => \A i \in 1..Len(queue) : queue[i].at <= lot.at <=> i <= k

LEMMA AddedIs ==
  ASSUME NEW queue \in Seq(Lot), NEW lot \in Lot
  PROVE  \E k : AddedAt(queue, lot, k)
  <1> DEFINE older == {i \in DOMAIN queue : queue[i].at <= lot.at}
             k == Cardinality(older)
             len == Len(queue)
             front == SubSeq(queue, 1, k)
             back == SubSeq(queue, k + 1, len)
  <1>1. /\ len \in Nat /\ DOMAIN queue = 1..len
        /\ \A i \in 1..len : queue[i] \in Lot /\ queue[i].at \in Nat
        /\ lot.at \in Nat
    BY LotsAreCounted DEF Lot
  <1>2. IsFiniteSet(1..len) /\ Cardinality(1..len) = len
    <2>1. 1 \in Int /\ len \in Int
      BY <1>1
    <2>2. Cardinality(1..len) = IF 1 > len THEN 0 ELSE len - 1 + 1
      BY <2>1, FS_Interval
    <2>3. (IF 1 > len THEN 0 ELSE len - 1 + 1) = len
      BY <1>1
    <2> HIDE DEF len
    <2> QED
      BY <2>1, <2>2, <2>3, FS_Interval
  <1>3. IsFiniteSet(older) /\ k \in 0..len
    <2>1. older \subseteq 1..len
      BY <1>1
    <2> HIDE DEF older, len
    <2>2. IsFiniteSet(older) /\ k \in Nat /\ k <= Cardinality(1..len)
      BY <1>2, <2>1, FS_Subset, FS_CardinalityType
    <2> HIDE DEF k
    <2> QED
      BY <1>1, <1>2, <2>2
  <1>4. Added(queue, lot) = front \o <<lot>> \o back
    <2>1. Added(queue, lot) = SubSeq(queue, 1, (k + 1) - 1) \o <<lot>> \o SubSeq(queue, k + 1, len)
      BY DEF Added, InsertAt
    <2>2. (k + 1) - 1 = k
      BY <1>3
    <2> HIDE DEF k, len
    <2> QED
      BY <2>1, <2>2
  <1>5. Sorted(queue) => \A i \in 1..len : queue[i].at <= lot.at <=> i <= k
    <2> SUFFICES ASSUME Sorted(queue), NEW i \in 1..len
                 PROVE  queue[i].at <= lot.at <=> i <= k
      OBVIOUS
    <2>1. ASSUME queue[i].at <= lot.at PROVE i <= k
      <3>1. 1..i \subseteq older
        <4>1. ASSUME NEW j \in 1..i PROVE j \in older
          <5>1. j \in 1..len /\ (j = i \/ j < i)
            BY <1>1
          <5>2. queue[j].at <= queue[i].at /\ queue[j].at \in Nat /\ queue[i].at \in Nat
            BY <1>1, <5>1 DEF Sorted
          <5> QED
            BY <1>1, <2>1, <5>1, <5>2
        <4> QED
          BY <4>1
      <3>2. IsFiniteSet(1..i) /\ Cardinality(1..i) = i
        <4>1. i \in Int /\ 1 \in Int /\ (IF 1 > i THEN 0 ELSE i - 1 + 1) = i
          BY <1>1
        <4>2. IsFiniteSet(1..i) /\ Cardinality(1..i) = IF 1 > i THEN 0 ELSE i - 1 + 1
          BY <4>1, FS_Interval
        <4> QED
          BY <4>1, <4>2
      <3> HIDE DEF older
      <3>3. Cardinality(1..i) <= k
        BY <1>3, <3>1, FS_Subset
      <3> QED
        BY <3>2, <3>3
    <2>2. ASSUME ~(queue[i].at <= lot.at) PROVE ~(i <= k)
      <3>1. i - 1 \in Nat /\ older \subseteq 1..(i - 1)
        <4>1. ASSUME NEW j \in older PROVE j \in 1..(i - 1)
          <5>1. j \in 1..len /\ queue[j].at <= lot.at
            BY <1>1
          <5>2. ~(i < j) /\ i # j
            BY <1>1, <2>2, <5>1 DEF Sorted
          <5> QED
            BY <1>1, <5>1, <5>2
        <4> QED
          BY <1>1, <4>1
      <3>2. IsFiniteSet(1..(i - 1)) /\ Cardinality(1..(i - 1)) = i - 1
        <4> DEFINE m == i - 1
        <4>1. m \in Int /\ 1 \in Int /\ (IF 1 > m THEN 0 ELSE m - 1 + 1) = m
          BY <3>1
        <4> HIDE DEF m
        <4>2. IsFiniteSet(1..m) /\ Cardinality(1..m) = IF 1 > m THEN 0 ELSE m - 1 + 1
          BY <4>1, FS_Interval
        <4>3. IsFiniteSet(1..m) /\ Cardinality(1..m) = m
          BY <4>1, <4>2
        <4> QED
          BY <4>3 DEF m
      <3> HIDE DEF older
      <3>3. k <= Cardinality(1..(i - 1))
        BY <3>1, <3>2, FS_Subset
      <3>4. k \in Nat
        BY <1>3
      <3> HIDE DEF k
      <3> QED
        BY <3>1, <3>2, <3>3, <3>4
    <2> QED
      BY <2>1, <2>2
  <1> HIDE DEF older, k, len
  <1>6. k \in Nat /\ k <= len /\ k + 1 \in Nat
    BY <1>1, <1>3
  <1>7. /\ front \in Seq(Lot) /\ Len(front) = k /\ \A i \in 1..k : front[i] = queue[i]
    <2>1. 1 \in Int /\ k \in Int /\ \A i \in 1..k : queue[i] \in Lot
      BY <1>1, <1>6
    <2>2. /\ front \in Seq(Lot) /\ Len(front) = IF 1 <= k THEN k - 1 + 1 ELSE 0
          /\ \A i \in 1..(k - 1 + 1) : front[i] = queue[1 + i - 1]
      BY <2>1, SubSeqProperties
    <2> HIDE DEF front
    <2> QED
      BY <1>6, <2>2
  <1>8. /\ back \in Seq(Lot) /\ Len(back) = len - k
        /\ \A i \in 1..(len - k) : back[i] = queue[k + i]
    <2>1. k + 1 \in Int /\ len \in Int /\ \A i \in (k + 1)..len : queue[i] \in Lot
      BY <1>1, <1>6
    <2>2. /\ back \in Seq(Lot) /\ Len(back) = IF k + 1 <= len THEN len - (k + 1) + 1 ELSE 0
          /\ \A i \in 1..(len - (k + 1) + 1) : back[i] = queue[(k + 1) + i - 1]
      BY <2>1, SubSeqProperties
    <2> HIDE DEF back
    <2>3. len - (k + 1) + 1 = len - k /\ \A i \in 1..(len - k) : (k + 1) + i - 1 = k + i
      BY <1>1, <1>6
    <2>4. Len(back) = len - k
      BY <1>1, <1>6, <2>2
    <2> QED
      BY <2>2, <2>3, <2>4
  <1> HIDE DEF front, back
  <1> DEFINE start == front \o <<lot>>
             all == start \o back
  <1>9. /\ start \in Seq(Lot) /\ Len(start) = k + 1
        /\ \A i \in 1..k : start[i] = queue[i]
        /\ start[k + 1] = lot
    <2>1. <<lot>> \in Seq(Lot) /\ Len(<<lot>>) = 1 /\ <<lot>>[1] = lot
      OBVIOUS
    <2>2. /\ start \in Seq(Lot) /\ Len(start) = Len(front) + Len(<<lot>>)
          /\ \A i \in 1..(Len(front) + Len(<<lot>>)) :
               start[i] = IF i <= Len(front) THEN front[i] ELSE <<lot>>[i - Len(front)]
      BY <1>7, <2>1, ConcatProperties
    <2>3. \A i \in 1..(k + 1) : start[i] = IF i <= k THEN front[i] ELSE <<lot>>[i - k]
      BY <1>7, <2>1, <2>2
    <2>4. Len(start) = k + 1
      BY <1>7, <2>1, <2>2
    <2> HIDE DEF start
    <2>5. start[k + 1] = <<lot>>[1]
      <3>1. k + 1 \in 1..(k + 1) /\ ~(k + 1 <= k) /\ (k + 1) - k = 1
        BY <1>6
      <3> QED
        BY <2>3, <3>1
    <2>6. \A i \in 1..k : start[i] = queue[i]
      BY <1>6, <1>7, <2>3
    <2> QED
      BY <2>1, <2>2, <2>4, <2>5, <2>6
  <1> HIDE DEF start
  <1>10. /\ all \in Seq(Lot) /\ Len(all) = len + 1
         /\ \A i \in 1..(k + 1) : all[i] = start[i]
         /\ \A i \in (k + 1)..len : all[i + 1] = queue[i]
    <2>1. /\ all \in Seq(Lot) /\ Len(all) = Len(start) + Len(back)
          /\ \A i \in 1..(Len(start) + Len(back)) :
               all[i] = IF i <= Len(start) THEN start[i] ELSE back[i - Len(start)]
      BY <1>8, <1>9, ConcatProperties
    <2> HIDE DEF all
    <2>2. Len(start) + Len(back) = len + 1
      BY <1>1, <1>6, <1>8, <1>9
    <2>3. \A i \in 1..(len + 1) : all[i] = IF i <= k + 1 THEN start[i] ELSE back[i - (k + 1)]
      BY <1>9, <2>1, <2>2
    <2>4. \A i \in 1..(k + 1) : all[i] = start[i]
      BY <1>1, <1>6, <2>3
    <2>5. ASSUME NEW i \in (k + 1)..len PROVE all[i + 1] = queue[i]
      <3>1. i + 1 \in 1..(len + 1) /\ ~(i + 1 <= k + 1) /\ (i + 1) - (k + 1) = i - k
        BY <1>1, <1>6
      <3>2. all[i + 1] = back[i - k]
        BY <2>3, <3>1
      <3>3. i - k \in 1..(len - k) /\ k + (i - k) = i
        BY <1>1, <1>6
      <3> QED
        BY <1>8, <3>2, <3>3
    <2> QED
      BY <2>1, <2>2, <2>4, <2>5
  <1>11. Added(queue, lot) = all
    BY <1>4 DEF start
  <1> HIDE DEF all
  <1>12. \A i \in 1..k : all[i] = queue[i]
    BY <1>6, <1>9, <1>10
  <1>13. all[k + 1] = lot
    BY <1>6, <1>9, <1>10
  <1>14. AddedAt(queue, lot, k)
    BY <1>3, <1>5, <1>10, <1>11, <1>12, <1>13 DEF AddedAt, len
  <1> QED
    BY <1>14

\* No lot has more left than was bought.
Counted(queue) == \A i \in 1..Len(queue) : queue[i].left <= queue[i].open

LEMMA OpenedAndGone ==
  ASSUME NEW queue \in Seq(Lot)
  PROVE  /\ Opened(queue) \in [1..Len(queue) -> Nat]
         /\ Counted(queue) => Gone(queue) \in [1..Len(queue) -> Nat]
  <1>1. /\ DOMAIN queue = 1..Len(queue)
        /\ \A i \in 1..Len(queue) : queue[i].open \in Nat /\ queue[i].left \in Nat
    BY LotsAreCounted
  <1>2. Opened(queue) \in [1..Len(queue) -> Nat]
    BY <1>1 DEF Opened
  <1>3. ASSUME Counted(queue) PROVE Gone(queue) \in [1..Len(queue) -> Nat]
    <2>1. ASSUME NEW i \in 1..Len(queue) PROVE queue[i].open - queue[i].left \in Nat
      BY <1>1, <1>3 DEF Counted
    <2> QED
      BY <1>1, <2>1 DEF Gone
  <1> QED
    BY <1>2, <1>3

\* A new lot adds its units and its cost, and nothing of it has gone.
LEMMA AddedSums ==
  ASSUME NEW queue \in Seq(Lot), NEW lot \in Lot
  PROVE  /\ LeftIn(Added(queue, lot)) = LeftIn(queue) + lot.left
         /\ CostOf(Added(queue, lot)) = CostOf(queue) + lot.left * lot.price
         /\ Total(Opened(Added(queue, lot))) = Total(Opened(queue)) + lot.open
         /\ Counted(queue) /\ lot.left = lot.open =>
              /\ Counted(Added(queue, lot))
              /\ Total(Gone(Added(queue, lot))) = Total(Gone(queue))
         /\ Sorted(queue) => Sorted(Added(queue, lot))
  <1> DEFINE all == Added(queue, lot)
             len == Len(queue)
  <1>1. PICK k : AddedAt(queue, lot, k)
    BY AddedIs
  <1>2. /\ k \in 0..len /\ all \in Seq(Lot) /\ Len(all) = len + 1
        /\ \A i \in 1..k : all[i] = queue[i]
        /\ all[k + 1] = lot
        /\ \A i \in (k + 1)..len : all[i + 1] = queue[i]
        /\ Sorted(queue) => \A i \in 1..len : queue[i].at <= lot.at <=> i <= k
    BY <1>1 DEF AddedAt
  <1>3. len \in Nat /\ DOMAIN queue = 1..len /\ DOMAIN all = 1..(len + 1)
    BY <1>2, LotsAreCounted, LenProperties
  <1>4. lot.at \in Nat /\ lot.left \in Nat /\ lot.open \in Nat /\ lot.price \in Nat
    BY DEF Lot
  <1>5. \A i \in 1..len : /\ queue[i].at \in Nat /\ queue[i].left \in Nat
                          /\ queue[i].open \in Nat /\ queue[i].price \in Nat
    BY LotsAreCounted
  <1> HIDE DEF all, len
  <1>6. /\ \A i \in 1..k : i \in 1..len /\ i \in 1..(len + 1)
        /\ k + 1 \in 1..(len + 1)
        /\ \A i \in (k + 1)..len : i \in 1..len /\ i + 1 \in 1..(len + 1)
    BY <1>2, <1>3
  <1>7. LeftIn(all) = LeftIn(queue) + lot.left
    <2> DEFINE f == Units(queue)
               g == Units(all)
    <2>1. f \in [1..len -> Nat] /\ g \in [1..(len + 1) -> Nat]
      BY <1>2, LotsAreCounted DEF len
    <2>2. /\ \A i \in 1..k : g[i] = f[i]
          /\ g[k + 1] = lot.left
          /\ \A i \in (k + 1)..len : g[i + 1] = f[i]
      BY <1>2, <1>3, <1>6 DEF Units
    <2> HIDE DEF f, g
    <2>3. Total(g) = Total(f) + g[k + 1]
      BY <1>2, <1>3, <2>1, <2>2, SumsInsert
    <2> QED
      BY <2>2, <2>3 DEF LeftIn, f, g
  <1>8. CostOf(all) = CostOf(queue) + lot.left * lot.price
    <2> DEFINE f == Costs(queue)
               g == Costs(all)
    <2>1. f \in [1..len -> Nat] /\ g \in [1..(len + 1) -> Nat]
      BY <1>2, LotsAreCounted DEF len
    <2>2. /\ \A i \in 1..k : g[i] = f[i]
          /\ g[k + 1] = lot.left * lot.price
          /\ \A i \in (k + 1)..len : g[i + 1] = f[i]
      BY <1>2, <1>3, <1>6 DEF Costs
    <2> HIDE DEF f, g
    <2>3. Total(g) = Total(f) + g[k + 1]
      BY <1>2, <1>3, <2>1, <2>2, SumsInsert
    <2> QED
      BY <2>2, <2>3 DEF CostOf, f, g
  <1>9. Total(Opened(all)) = Total(Opened(queue)) + lot.open
    <2> DEFINE f == Opened(queue)
               g == Opened(all)
    <2>1. f \in [1..len -> Nat] /\ g \in [1..(len + 1) -> Nat]
      BY <1>2, OpenedAndGone DEF len
    <2>2. /\ \A i \in 1..k : g[i] = f[i]
          /\ g[k + 1] = lot.open
          /\ \A i \in (k + 1)..len : g[i + 1] = f[i]
      BY <1>2, <1>3, <1>6 DEF Opened
    <2> HIDE DEF f, g
    <2>3. Total(g) = Total(f) + g[k + 1]
      BY <1>2, <1>3, <2>1, <2>2, SumsInsert
    <2> QED
      BY <2>2, <2>3 DEF f, g
  <1>10. \A i \in 1..(len + 1) :
           \/ i = k + 1
           \/ i \in 1..k /\ all[i] = queue[i] /\ i \in 1..len
           \/ i - 1 \in (k + 1)..len /\ all[i] = queue[i - 1] /\ i - 1 \in 1..len
    <2> SUFFICES ASSUME NEW i \in 1..(len + 1), i # k + 1, ~(i \in 1..k)
                 PROVE  i - 1 \in (k + 1)..len /\ all[i] = queue[i - 1] /\ i - 1 \in 1..len
      BY <1>2, <1>3
    <2>1. i - 1 \in (k + 1)..len /\ i - 1 \in 1..len /\ (i - 1) + 1 = i
      BY <1>2, <1>3
    <2> QED
      BY <1>2, <2>1
  <1>11. ASSUME Counted(queue), lot.left = lot.open
         PROVE  Counted(all) /\ Total(Gone(all)) = Total(Gone(queue))
    <2>1. Counted(all)
      <3> SUFFICES ASSUME NEW i \in 1..(len + 1) PROVE all[i].left <= all[i].open
        BY <1>2 DEF Counted
      <3>1. \A j \in 1..len : queue[j].left <= queue[j].open
        BY <1>11 DEF Counted, len
      <3>2. all[i] = lot \/ \E j \in 1..len : all[i] = queue[j]
        BY <1>2, <1>10
      <3> QED
        BY <1>4, <1>11, <3>1, <3>2
    <2> DEFINE f == Gone(queue)
               g == Gone(all)
    <2>2. f \in [1..len -> Nat] /\ g \in [1..(len + 1) -> Nat]
      BY <1>2, <1>11, <2>1, OpenedAndGone DEF len
    <2>3. /\ \A i \in 1..k : g[i] = f[i]
          /\ g[k + 1] = 0
          /\ \A i \in (k + 1)..len : g[i + 1] = f[i]
      <3>1. lot.open - lot.left = 0
        BY <1>4, <1>11
      <3> QED
        BY <1>2, <1>3, <1>6, <3>1 DEF Gone
    <2> HIDE DEF f, g
    <2>4. Total(g) = Total(f) + g[k + 1] /\ Total(f) \in Nat
      BY <1>2, <1>3, <2>2, <2>3, SumsInsert, SumsAreNatural
    <2>5. Total(g) = Total(f)
      BY <2>3, <2>4
    <2> QED
      BY <2>1, <2>5 DEF f, g
  <1>12. ASSUME Sorted(queue) PROVE Sorted(all)
    <2> SUFFICES ASSUME NEW i \in 1..(len + 1), NEW j \in 1..(len + 1), i < j
                 PROVE  all[i].at <= all[j].at
      BY <1>2 DEF Sorted
    <2>1. \A a, b \in 1..len : a < b => queue[a].at <= queue[b].at
      BY <1>12 DEF Sorted, len
    <2>2. \A a \in 1..len : queue[a].at <= lot.at <=> a <= k
      BY <1>2, <1>12
    <2>3. CASE i = k + 1
      <3>1. j - 1 \in (k + 1)..len /\ all[j] = queue[j - 1] /\ j - 1 \in 1..len
        BY <1>2, <1>10, <2>3
      <3>2. ~(j - 1 <= k)
        BY <1>2, <3>1
      <3>3. ~(queue[j - 1].at <= lot.at)
        BY <2>2, <3>1, <3>2
      <3> QED
        BY <1>2, <1>4, <1>5, <2>3, <3>1, <3>3
    <2>4. CASE j = k + 1
      <3>1. i \in 1..k /\ all[i] = queue[i] /\ i \in 1..len /\ i <= k
        BY <1>2, <1>10, <2>4
      <3> QED
        BY <1>2, <2>2, <2>4, <3>1
    <2>5. CASE i # k + 1 /\ j # k + 1
      <3>1. CASE i \in 1..k /\ j \in 1..k
        BY <1>2, <1>6, <2>1, <3>1
      <3>2. CASE ~(i \in 1..k)
        <4>1. /\ i - 1 \in 1..len /\ j - 1 \in 1..len /\ i - 1 < j - 1
              /\ all[i] = queue[i - 1] /\ all[j] = queue[j - 1]
          BY <1>2, <1>3, <1>10, <2>5, <3>2
        <4> QED
          BY <2>1, <4>1
      <3>3. CASE i \in 1..k /\ ~(j \in 1..k)
        <4>1. /\ i \in 1..len /\ j - 1 \in 1..len /\ i < j - 1
              /\ all[i] = queue[i] /\ all[j] = queue[j - 1]
          BY <1>2, <1>3, <1>10, <2>5, <3>3
        <4> QED
          BY <2>1, <4>1
      <3> QED
        BY <3>1, <3>2, <3>3
    <2> QED
      BY <2>3, <2>4, <2>5
  <1> QED
    BY <1>7, <1>8, <1>9, <1>11, <1>12 DEF all

\* A lot of which something has gone has none before it with units left.
UsedInOrder(queue) ==
  \A i, j \in 1..Len(queue) : i < j /\ queue[j].left < queue[j].open => queue[i].left = 0

LEMMA ConsumedKeeps ==
  ASSUME NEW queue \in Seq(Lot), NEW n \in Nat, n <= LeftIn(queue)
  PROVE  /\ Total(Opened(Consumed(queue, n))) = Total(Opened(queue))
         /\ Counted(queue) =>
              /\ Counted(Consumed(queue, n))
              /\ Total(Gone(Consumed(queue, n))) = Total(Gone(queue)) + n
         /\ Sorted(queue) => Sorted(Consumed(queue, n))
         /\ UsedInOrder(queue) => UsedInOrder(Consumed(queue, n))
  <1> DEFINE rest == Consumed(queue, n)
             taken == Taken(queue, n)
             len == Len(queue)
             B == Sums(Units(queue))
  <1>1. /\ len \in Nat /\ DOMAIN queue = 1..len /\ rest \in Seq(Lot) /\ Len(rest) = len
        /\ DOMAIN rest = 1..len
    BY LotsAreCounted, ConsumedIs, LenProperties
  <1>2. taken \in [1..len -> Nat] /\ Total(taken) = n
    BY TakenInAll
  <1>3. \A i \in 1..len : /\ rest[i].at = queue[i].at /\ rest[i].open = queue[i].open
                          /\ rest[i].left \in Nat /\ queue[i].open \in Nat /\ queue[i].left \in Nat
                          /\ queue[i].left = rest[i].left + taken[i]
    BY ConsumedIs, LotsAreCounted
  <1>4. \A i \in 1..len : /\ B[i - 1] \in Nat
                          /\ taken[i] = IF n <= B[i - 1] THEN 0
                                        ELSE IF queue[i].left <= n - B[i - 1] THEN queue[i].left
                                        ELSE n - B[i - 1]
    BY TakenIs
  <1>5. \A i, j \in 1..len : i < j => B[i - 1] + queue[i].left <= B[j - 1]
    <2> SUFFICES ASSUME NEW i \in 1..len, NEW j \in 1..len, i < j
                 PROVE  B[i - 1] + queue[i].left <= B[j - 1]
      OBVIOUS
    <2>1. Units(queue) \in [1..len -> Nat] /\ Units(queue)[i] = queue[i].left
      BY LotsAreCounted DEF Units
    <2>2. B[i] = B[i - 1] + queue[i].left
      BY <1>1, <2>1, SumsStep, ZenonT(40)
    <2>3. i \in 0..len /\ j - 1 \in 0..len /\ i <= j - 1
      BY <1>1
    <2>4. B[i] <= B[j - 1]
      BY <1>1, <2>1, <2>3, SumsGrow
    <2> QED
      BY <2>2, <2>4
  <1> HIDE DEF rest, taken, len, B
  <1>6. Total(Opened(rest)) = Total(Opened(queue))
    <2>1. Opened(rest) = Opened(queue)
      BY <1>1, <1>3 DEF Opened
    <2> QED
      BY <2>1
  <1>7. ASSUME Counted(queue)
        PROVE  Counted(rest) /\ Total(Gone(rest)) = Total(Gone(queue)) + n
    <2>1. \A i \in 1..len : queue[i].left <= queue[i].open
      BY <1>7 DEF Counted, len
    <2>2. \A i \in 1..len : /\ rest[i].left <= rest[i].open
                            /\ rest[i].open - rest[i].left = (queue[i].open - queue[i].left) + taken[i]
      <3> SUFFICES ASSUME NEW i \in 1..len
                   PROVE  /\ rest[i].left <= rest[i].open
                          /\ rest[i].open - rest[i].left = (queue[i].open - queue[i].left) + taken[i]
        OBVIOUS
      <3>1. /\ rest[i].open = queue[i].open /\ rest[i].left \in Nat /\ queue[i].open \in Nat
            /\ queue[i].left \in Nat /\ taken[i] \in Nat
            /\ queue[i].left = rest[i].left + taken[i] /\ queue[i].left <= queue[i].open
        BY <1>2, <1>3, <2>1
      <3> DEFINE x == queue[i].open
                 y == queue[i].left
                 z == rest[i].left
                 k == taken[i]
      <3>2. /\ x \in Nat /\ y \in Nat /\ z \in Nat /\ k \in Nat /\ y = z + k /\ y <= x
            /\ rest[i].open = x
        BY <3>1
      <3> HIDE DEF x, y, z, k
      <3>3. z <= x /\ x - z = (x - y) + k
        BY ONLY <3>2
      <3> QED
        BY <3>2, <3>3 DEF x, y, z, k
    <2>3. Counted(rest)
      BY <1>1, <2>2 DEF Counted
    <2> DEFINE f == Gone(queue)
               h == Gone(rest)
    <2>4. f \in [1..len -> Nat] /\ h \in [1..len -> Nat]
      <3>1. queue \in Seq(Lot) /\ rest \in Seq(Lot) /\ Len(queue) = len
        BY <1>1 DEF len
      <3> QED
        BY <1>1, <1>7, <2>3, <3>1, OpenedAndGone
    <2>5. \A i \in 1..len : h[i] = f[i] + taken[i]
      BY <1>1, <2>2 DEF Gone
    <2>6. /\ len \in Nat /\ f \in [1..len -> Nat] /\ taken \in [1..len -> Nat]
          /\ h \in [1..len -> Nat] /\ \A i \in 1..len : h[i] = f[i] + taken[i]
      BY <1>1, <1>2, <2>4, <2>5
    <2> HIDE DEF f, h
    <2>7. Total(h) = Total(f) + Total(taken)
      BY ONLY <2>6, SumsAdd, ZenonT(40)
    <2> QED
      BY <1>2, <2>3, <2>7 DEF f, h
  <1>8. ASSUME Sorted(queue) PROVE Sorted(rest)
    BY <1>1, <1>3, <1>8 DEF Sorted, len
  <1>9. ASSUME UsedInOrder(queue) PROVE UsedInOrder(rest)
    <2> SUFFICES ASSUME NEW i \in 1..len, NEW j \in 1..len, i < j, rest[j].left < rest[j].open
                 PROVE  rest[i].left = 0
      BY <1>1 DEF UsedInOrder
    <2>1. /\ rest[i].left \in Nat /\ taken[i] \in Nat /\ queue[i].left = rest[i].left + taken[i]
          /\ rest[j].left \in Nat /\ taken[j] \in Nat /\ queue[j].left = rest[j].left + taken[j]
          /\ rest[j].open = queue[j].open /\ queue[j].open \in Nat
      BY <1>2, <1>3
    <2>2. CASE queue[j].left < queue[j].open
      <3>1. queue[i].left = 0
        BY <1>9, <2>2 DEF UsedInOrder, len
      <3> QED
        BY <2>1, <3>1
    <2>3. CASE taken[j] > 0
      <3>1. B[j - 1] \in Nat /\ ~(n <= B[j - 1])
        BY <1>4, <2>3
      <3>2. B[i - 1] \in Nat /\ B[i - 1] + queue[i].left <= B[j - 1] /\ queue[i].left \in Nat
        BY <1>3, <1>4, <1>5
      <3>3. ~(n <= B[i - 1]) /\ queue[i].left <= n - B[i - 1]
        BY <3>1, <3>2, SMTT(30)
      <3>4. taken[i] = queue[i].left
        BY <1>4, <3>3
      <3> QED
        BY <2>1, <3>4
    <2>4. taken[j] > 0 \/ queue[j].left < queue[j].open
      BY <2>1
    <2> QED
      BY <2>2, <2>3, <2>4
  <1> QED
    BY <1>6, <1>7, <1>8, <1>9 DEF rest

-----------------------------------------------------------------------------
(***************************************************************************)
(* The invariants.                                                         *)
(***************************************************************************)
Row == [strategy : Strategies, side : {"buy", "sell"}, quantity : Nat \ {0},
        status : {"submitted", "partially_filled", "filled"}, number : Nat \ {0}, orgno : BOOLEAN]
Entry == [no : Numbers, quantity : Nat \ {0}, price : Nat \ {0}, at : Nat, basis : Nat]
Filling == [no : Numbers, order : Nat, quantity : Nat \ {0}, price : Nat \ {0}, at : Nat]
BookRow == [side : {"buy", "sell"}, quantity : Nat \ {0}, filled : Nat, amount : Nat, at : Nat]
Holding == [quantity : Nat, cost : Nat, highest : Nat]

TablesInv ==
  /\ orders \in Seq(Row) /\ executions \in [Ids -> Seq(Entry)]
  /\ lots \in [Strategies -> Seq(Lot)] /\ position \in [Strategies -> Holding]
  /\ book \in Seq(BookRow) /\ holdings \in Nat /\ clock \in Nat
  /\ fills \in Seq(Filling) /\ degraded \in BOOLEAN /\ running \in BOOLEAN /\ stops \in Nat

\* Each order row is an order at the broker, of the same number and terms.  It
\* is filled when its executions are the whole order, and a strategy has one
\* order at most that is not.
RowsInv ==
  /\ Len(orders) = Len(book) /\ Len(orders) <= MaxOrders
  /\ \A o \in 1..Len(orders) :
       /\ orders[o].number = o /\ orders[o].side = book[o].side
       /\ orders[o].quantity = book[o].quantity /\ orders[o].quantity <= MaxUnits
       /\ Active(o) <=> FilledQuantity(o) < orders[o].quantity
  /\ \A o \in Ids : o > Len(orders) => executions[o] = <<>>
  /\ \A o, p \in 1..Len(orders) :
       Active(o) /\ Active(p) /\ orders[o].strategy = orders[p].strategy => o = p

\* An amount that any number of units may be the share of.
Divisible(a) == \A n \in 1..MaxUnits : \E k \in Nat : a = k * n

\* Units and money of a part of what the broker has filled: all or less of both.
PartOf(b, units, amount) ==
  /\ units <= b.filled /\ amount <= b.amount /\ Divisible(amount)
  /\ units = b.filled <=> amount = b.amount

MoneyInv ==
  \A o \in 1..Len(orders) :
    /\ book[o].filled <= book[o].quantity /\ Divisible(book[o].amount)
    /\ PartOf(book[o], FilledQuantity(o), FilledAmount(o))

\* The fills at hand are of different orders, which lack them.
IsLacking(f) ==
  /\ f.order \in 1..Len(orders) /\ Active(f.order)
  /\ PartOf(book[f.order], FilledQuantity(f.order) + f.quantity,
            FilledAmount(f.order) + f.quantity * f.price)
FillsInv ==
  /\ \A i \in 1..Len(fills) : IsLacking(fills[i])
  /\ \A i, j \in 1..Len(fills) : fills[i].order = fills[j].order => i = j

BookInv == TablesInv /\ RowsInv /\ MoneyInv /\ FillsInv

\* The lots of a strategy are sorted by age and explain its position.
LotsInv ==
  \A s \in Strategies :
    /\ Sorted(lots[s]) /\ Counted(lots[s])
    /\ position[s].quantity = LeftIn(lots[s]) /\ position[s].cost = CostOf(lots[s])
    /\ \A i \in 1..Len(lots[s]) : lots[s][i].left > 0 => lots[s][i].price <= position[s].highest

\* The sells of a strategy.
SellsIn(rows, entries, s) ==
  UNION {ToSet(entries[o]) : o \in {p \in DOMAIN rows : rows[p].strategy = s /\ rows[p].side = "sell"}}
SellsOf(s) == SellsIn(orders, executions, s)

\* A strategy has neither a lot nor a sell of that time or later.
NewerThan(s, at) ==
  /\ \A i \in 1..Len(lots[s]) : lots[s][i].at < at
  /\ \A e \in SellsOf(s) : e.at < at

OrderIsNewer(o) ==
  /\ book[o].at <= clock
  /\ FilledQuantity(o) < book[o].filled => NewerThan(orders[o].strategy, book[o].at)
FillIsNewer(f) ==
  /\ f.at <= clock /\ NewerThan(orders[f.order].strategy, f.at)
  /\ FilledQuantity(f.order) + f.quantity < book[f.order].filled => f.at < book[f.order].at

\* What is booked of a strategy, what is at hand and what the broker has more
\* follow one another in time: a strategy has one active order, and of that
\* the poll books all that the broker tells before it asks again.
TimeInv ==
  /\ \A s \in Strategies : UsedInOrder(lots[s]) /\ NewerThan(s, clock + 1)
  /\ \A o \in 1..Len(orders) : OrderIsNewer(o)
  /\ \A i \in 1..Len(fills) : FillIsNewer(fills[i])

-----------------------------------------------------------------------------
(***************************************************************************)
(* Amounts that are shared out without a remainder.                        *)
(***************************************************************************)
LEMMA ShareIsWhole ==
  ASSUME NEW k \in Nat, NEW n \in Nat \ {0}
  PROVE  (k * n) \div n = k
  OBVIOUS

\* A share of what is left of an amount is whole.
LEMMA RestIsShared ==
  ASSUME NEW a \in Nat, NEW b \in Nat, NEW n \in 1..MaxUnits, Divisible(a), Divisible(b), b < a
  PROVE  (a - b) \div n \in Nat \ {0} /\ n * ((a - b) \div n) = a - b
  <1>1. PICK k \in Nat : a = k * n
    BY DEF Divisible
  <1>2. PICK l \in Nat : b = l * n
    BY DEF Divisible
  <1>3. MaxUnits \in Nat /\ n \in Nat \ {0}
    BY FillLedgerAssumption
  <1>4. k - l \in Int /\ a - b = (k - l) * n
    BY <1>1, <1>2, <1>3
  <1>5. k - l > 0
    <2> SUFFICES ASSUME k - l <= 0 PROVE FALSE
      BY <1>4
    <2>1. (k - l) * n <= 0
      BY <1>3, <1>4
    <2> QED
      BY <1>4, <2>1
  <1>6. k - l \in Nat \ {0}
    BY <1>4, <1>5
  <1>7. (a - b) \div n = k - l
    BY <1>3, <1>4, <1>6, ShareIsWhole
  <1> QED
    BY <1>3, <1>4, <1>6, <1>7

LEMMA SumsAreShared ==
  ASSUME NEW a \in Nat, NEW b \in Nat, Divisible(a), Divisible(b)
  PROVE  Divisible(a + b)
  <1> SUFFICES ASSUME NEW n \in 1..MaxUnits PROVE \E k \in Nat : a + b = k * n
    BY DEF Divisible
  <1>1. PICK k \in Nat : a = k * n
    BY DEF Divisible
  <1>2. PICK l \in Nat : b = l * n
    BY DEF Divisible
  <1>3. MaxUnits \in Nat /\ n \in Nat
    BY FillLedgerAssumption
  <1>4. k + l \in Nat /\ a + b = (k + l) * n
    BY <1>1, <1>2, <1>3
  <1> QED
    BY <1>4

LEMMA RestsAreShared ==
  ASSUME NEW a \in Nat, NEW b \in Nat, Divisible(a), Divisible(b), b <= a
  PROVE  Divisible(a - b)
  <1> SUFFICES ASSUME NEW n \in 1..MaxUnits PROVE \E k \in Nat : a - b = k * n
    BY DEF Divisible
  <1>1. PICK k \in Nat : a = k * n
    BY DEF Divisible
  <1>2. PICK l \in Nat : b = l * n
    BY DEF Divisible
  <1>3. MaxUnits \in Nat /\ n \in Nat \ {0}
    BY FillLedgerAssumption
  <1>4. k - l \in Int /\ a - b = (k - l) * n
    BY <1>1, <1>2, <1>3
  <1>5. k - l >= 0
    <2> SUFFICES ASSUME k - l <= -1 PROVE FALSE
      BY <1>4
    <2>1. (k - l) * n <= -1
      BY <1>3, <1>4
    <2> QED
      BY <1>4, <2>1
  <1>6. k - l \in Nat
    BY <1>4, <1>5
  <1> QED
    BY <1>4, <1>6

LEMMA PricesAreShared ==
  ASSUME NEW p \in Prices
  PROVE  p \in Nat \ {0} /\ Divisible(p)
  <1>1. p \in Nat \ {0} /\ MaxUnits \in Nat /\ \A n \in 1..MaxUnits : p % n = 0
    BY FillLedgerAssumption
  <1> SUFFICES ASSUME NEW n \in 1..MaxUnits PROVE \E k \in Nat : p = k * n
    BY <1>1 DEF Divisible
  <1>2. p \in Nat /\ n \in Nat \ {0} /\ p % n = 0
    BY <1>1
  <1> QED
    BY <1>2

-----------------------------------------------------------------------------
(***************************************************************************)
(* Executions.                                                             *)
(***************************************************************************)
Bases(entries) == [i \in DOMAIN entries |-> entries[i].basis]

LEMMA EntriesAreCounted ==
  ASSUME NEW entries \in Seq(Entry)
  PROVE  /\ Len(entries) \in Nat /\ DOMAIN entries = 1..Len(entries)
         /\ \A i \in 1..Len(entries) : entries[i] \in Entry
         /\ Quantities(entries) \in [1..Len(entries) -> Nat]
         /\ Amounts(entries) \in [1..Len(entries) -> Nat]
         /\ Bases(entries) \in [1..Len(entries) -> Nat]
         /\ Total(Quantities(entries)) \in Nat /\ Total(Amounts(entries)) \in Nat
         /\ Total(Bases(entries)) \in Nat
  <1>1. /\ Len(entries) \in Nat /\ DOMAIN entries = 1..Len(entries)
        /\ \A i \in 1..Len(entries) : entries[i] \in Entry
    BY LenProperties, ElementOfSeq
  <1>2. ASSUME NEW i \in 1..Len(entries)
        PROVE  /\ entries[i].quantity \in Nat /\ entries[i].basis \in Nat
               /\ entries[i].quantity * entries[i].price \in Nat
    <2>1. entries[i].quantity \in Nat /\ entries[i].basis \in Nat /\ entries[i].price \in Nat
      BY <1>1 DEF Entry
    <2> QED
      BY <2>1
  <1>3. /\ Quantities(entries) \in [1..Len(entries) -> Nat]
        /\ Amounts(entries) \in [1..Len(entries) -> Nat]
        /\ Bases(entries) \in [1..Len(entries) -> Nat]
    BY <1>1, <1>2 DEF Quantities, Amounts, Bases
  <1>4. /\ Total(Quantities(entries)) \in Nat /\ Total(Amounts(entries)) \in Nat
        /\ Total(Bases(entries)) \in Nat
    BY <1>1, <1>3, SumsAreNatural
  <1> QED
    BY <1>1, <1>3, <1>4

LEMMA NoEntries ==
  /\ Total(Quantities(<<>>)) = 0 /\ Total(Amounts(<<>>)) = 0 /\ Total(Bases(<<>>)) = 0
  <1>1. <<>> \in Seq(Entry) /\ Len(<<>>) = 0
    BY EmptySeq
  <1>2. /\ Quantities(<<>>) \in [1..0 -> Nat] /\ Amounts(<<>>) \in [1..0 -> Nat]
        /\ Bases(<<>>) \in [1..0 -> Nat]
    BY <1>1, EntriesAreCounted
  <1>3. 0 \in Nat /\ \A i \in 1..0 : FALSE
    OBVIOUS
  <1> QED
    BY <1>2, <1>3, ZeroTotal

\* An execution more.
LEMMA SumsOfAppended ==
  ASSUME NEW entries \in Seq(Entry), NEW e \in Entry
  PROVE  LET more == Append(entries, e) IN
         /\ more \in Seq(Entry)
         /\ Total(Quantities(more)) = Total(Quantities(entries)) + e.quantity
         /\ Total(Amounts(more)) = Total(Amounts(entries)) + e.quantity * e.price
         /\ Total(Bases(more)) = Total(Bases(entries)) + e.basis
  <1> DEFINE more == Append(entries, e)
             len == Len(entries)
  <1>1. more \in Seq(Entry) /\ Len(more) = len + 1 /\ more[len + 1] = e
        /\ \A i \in 1..len : more[i] = entries[i]
    BY AppendProperties
  <1>2. len \in Nat /\ DOMAIN entries = 1..len /\ DOMAIN more = 1..(len + 1)
    BY <1>1, EntriesAreCounted
  <1>3. /\ Quantities(entries) \in [1..len -> Nat] /\ Amounts(entries) \in [1..len -> Nat]
        /\ Bases(entries) \in [1..len -> Nat]
    BY EntriesAreCounted
  <1>4. /\ Quantities(more) \in [1..(len + 1) -> Nat] /\ Amounts(more) \in [1..(len + 1) -> Nat]
        /\ Bases(more) \in [1..(len + 1) -> Nat]
    <2> HIDE DEF more
    <2> QED
      BY <1>1, EntriesAreCounted
  <1> HIDE DEF more, len
  <1>5. len + 1 \in 1..(len + 1) /\ \A i \in 1..len : i \in 1..(len + 1)
    BY <1>2
  <1>6. Total(Quantities(more)) = Total(Quantities(entries)) + e.quantity
    <2> DEFINE f == Quantities(entries)
               g == Quantities(more)
    <2>1. \A i \in 1..len : g[i] = f[i]
      BY <1>1, <1>2, <1>5 DEF Quantities
    <2>2. g[len + 1] = e.quantity
      BY <1>1, <1>2, <1>5 DEF Quantities
    <2>3. /\ len \in Nat /\ f \in [1..len -> Nat] /\ g \in [1..(len + 1) -> Nat]
          /\ \A i \in 1..len : g[i] = f[i]
      BY <1>2, <1>3, <1>4, <2>1
    <2> HIDE DEF f, g
    <2>4. Total(g) = Total(f) + g[len + 1]
      BY ONLY <2>3, SumsAppend
    <2> QED
      BY <2>2, <2>4 DEF f, g
  <1>7. Total(Amounts(more)) = Total(Amounts(entries)) + e.quantity * e.price
    <2> DEFINE f == Amounts(entries)
               g == Amounts(more)
    <2>1. \A i \in 1..len : g[i] = f[i]
      BY <1>1, <1>2, <1>5 DEF Amounts
    <2>2. g[len + 1] = e.quantity * e.price
      BY <1>1, <1>2, <1>5 DEF Amounts
    <2>3. /\ len \in Nat /\ f \in [1..len -> Nat] /\ g \in [1..(len + 1) -> Nat]
          /\ \A i \in 1..len : g[i] = f[i]
      BY <1>2, <1>3, <1>4, <2>1
    <2> HIDE DEF f, g
    <2>4. Total(g) = Total(f) + g[len + 1]
      BY ONLY <2>3, SumsAppend
    <2> QED
      BY <2>2, <2>4 DEF f, g
  <1>8. Total(Bases(more)) = Total(Bases(entries)) + e.basis
    <2> DEFINE f == Bases(entries)
               g == Bases(more)
    <2>1. \A i \in 1..len : g[i] = f[i]
      BY <1>1, <1>2, <1>5 DEF Bases
    <2>2. g[len + 1] = e.basis
      BY <1>1, <1>2, <1>5 DEF Bases
    <2>3. /\ len \in Nat /\ f \in [1..len -> Nat] /\ g \in [1..(len + 1) -> Nat]
          /\ \A i \in 1..len : g[i] = f[i]
      BY <1>2, <1>3, <1>4, <2>1
    <2> HIDE DEF f, g
    <2>4. Total(g) = Total(f) + g[len + 1]
      BY ONLY <2>3, SumsAppend
    <2> QED
      BY <2>2, <2>4 DEF f, g
  <1> QED
    BY <1>1, <1>6, <1>7, <1>8 DEF more

-----------------------------------------------------------------------------
(***************************************************************************)
(* The tables.                                                             *)
(***************************************************************************)
\* What the tables hold of an order.
LEMMA OrderFacts ==
  ASSUME TablesInv, RowsInv, NEW o \in 1..Len(orders)
  PROVE  /\ o \in Ids /\ o \in Nat /\ o \in DOMAIN orders /\ o \in 1..Len(book) /\ o \in DOMAIN book
         /\ orders[o] \in Row /\ orders[o].strategy \in Strategies /\ orders[o].side \in {"buy", "sell"}
         /\ orders[o].quantity \in 1..MaxUnits /\ orders[o].number = o
         /\ book[o] \in BookRow /\ AtBroker(o) = book[o] /\ book[o].filled \in Nat
         /\ book[o].quantity \in Nat \ {0} /\ book[o].amount \in Nat /\ book[o].at \in Nat
         /\ executions[o] \in Seq(Entry) /\ FilledQuantity(o) \in Nat /\ FilledAmount(o) \in Nat
         /\ RealizedCost(o) \in Nat /\ RealizedCost(o) = Total(Bases(executions[o]))
  <1>1. orders \in Seq(Row) /\ book \in Seq(BookRow) /\ executions \in [Ids -> Seq(Entry)]
    BY DEF TablesInv
  <1>2. Len(orders) \in Nat /\ Len(orders) <= MaxOrders /\ Len(book) = Len(orders) /\ MaxOrders \in Nat
    BY <1>1, LenProperties, FillLedgerAssumption DEF RowsInv
  <1>3. o \in Ids /\ o \in Nat /\ o \in 1..Len(book)
    BY <1>2 DEF Ids
  <1>4. orders[o] \in Row /\ book[o] \in BookRow /\ o \in DOMAIN orders /\ o \in DOMAIN book
    BY <1>1, <1>3, ElementOfSeq, LenProperties
  <1>5. orders[o].number = o /\ orders[o].quantity <= MaxUnits
    BY DEF RowsInv
  <1>6. executions[o] \in Seq(Entry)
    BY <1>1, <1>3
  <1>7. FilledQuantity(o) \in Nat /\ FilledAmount(o) \in Nat
    BY <1>6, EntriesAreCounted DEF FilledQuantity, FilledAmount
  <1>8. RealizedCost(o) = Total(Bases(executions[o])) /\ Total(Bases(executions[o])) \in Nat
    BY <1>6, EntriesAreCounted DEF RealizedCost, Bases
  <1>9. /\ orders[o].strategy \in Strategies /\ orders[o].side \in {"buy", "sell"}
        /\ orders[o].quantity \in Nat \ {0}
    BY <1>4 DEF Row
  <1>10. MaxUnits \in Nat
    BY FillLedgerAssumption
  <1>11. orders[o].quantity \in 1..MaxUnits
    BY <1>5, <1>9, <1>10
  <1>12. /\ book[o].filled \in Nat /\ book[o].quantity \in Nat \ {0} /\ book[o].amount \in Nat
         /\ book[o].at \in Nat
    BY <1>4 DEF BookRow
  <1>13. AtBroker(o) = book[o]
    BY <1>5 DEF AtBroker
  <1> QED
    BY <1>3, <1>4, <1>5, <1>6, <1>7, <1>8, <1>9, <1>11, <1>12, <1>13

\* The fill at the head of the poll.
LEMMA HeadFacts ==
  ASSUME BookInv, fills # <<>>
  PROVE  LET f == Head(fills) IN
         /\ f \in Filling /\ f.order \in 1..Len(orders) /\ Active(f.order) /\ f = fills[1]
         /\ f.quantity \in Nat \ {0} /\ f.price \in Nat \ {0} /\ f.at \in Nat /\ f.no \in Numbers
         /\ PartOf(book[f.order], FilledQuantity(f.order) + f.quantity,
                   FilledAmount(f.order) + f.quantity * f.price)
         /\ Tail(fills) \in Seq(Filling) /\ Len(Tail(fills)) = Len(fills) - 1
         /\ Len(fills) \in Nat /\ 1 \in 1..Len(fills)
         /\ \A i \in 1..Len(Tail(fills)) : /\ i + 1 \in 1..Len(fills) /\ Tail(fills)[i] = fills[i + 1]
                                           /\ Tail(fills)[i].order # f.order
  <1>1. fills \in Seq(Filling)
    BY DEF BookInv, TablesInv
  <1>2. /\ Head(fills) \in Filling /\ Tail(fills) \in Seq(Filling)
        /\ Len(Tail(fills)) = Len(fills) - 1
        /\ \A i \in 1..Len(Tail(fills)) : Tail(fills)[i] = fills[i + 1]
    BY <1>1, HeadTailProperties
  <1>3. Len(fills) \in Nat /\ Len(fills) # 0
    BY <1>1, LenProperties, EmptySeq
  <1>4. 1 \in 1..Len(fills) /\ Head(fills) = fills[1]
    BY <1>1, <1>3
  <1>5. \A i \in 1..Len(Tail(fills)) : i + 1 \in 1..Len(fills) /\ i + 1 # 1
    BY <1>2, <1>3
  <1>6. /\ fills[1].order \in 1..Len(orders) /\ Active(fills[1].order)
        /\ PartOf(book[fills[1].order], FilledQuantity(fills[1].order) + fills[1].quantity,
                  FilledAmount(fills[1].order) + fills[1].quantity * fills[1].price)
    BY <1>4 DEF BookInv, FillsInv, IsLacking
  <1>7. \A i \in 1..Len(Tail(fills)) : Tail(fills)[i].order # fills[1].order
    BY <1>2, <1>4, <1>5 DEF BookInv, FillsInv
  <1>8. /\ fills[1].quantity \in Nat \ {0} /\ fills[1].price \in Nat \ {0} /\ fills[1].at \in Nat
        /\ fills[1].no \in Numbers
    BY <1>2, <1>4 DEF Filling
  <1> QED
    BY <1>2, <1>3, <1>4, <1>5, <1>6, <1>7, <1>8

\* What booking the fill at the head changes.
LEMMA BookingIs ==
  ASSUME BookInv, ProcessFill, ~Raises(Ledger, Head(fills))
  PROVE  LET f == Head(fills)
             o == f.order
             s == orders[o].strategy
             isBuy == orders[o].side = "buy"
             held == position[s]
             basis == IF isBuy THEN 0 ELSE CostBasis(lots[s], f.quantity)
         IN
         /\ fills' = Tail(fills) /\ running' = running /\ stops' = stops /\ degraded' = degraded
         /\ book' = book /\ holdings' = holdings /\ clock' = clock
         /\ orders' = [orders EXCEPT ![o].status =
                         StatusAfter(orders[o], FilledQuantity(o) + f.quantity)]
         /\ executions' = [executions EXCEPT ![o] =
                             Append(@, [no |-> f.no, quantity |-> f.quantity, price |-> f.price,
                                        at |-> f.at, basis |-> basis])]
         /\ isBuy => /\ lots' = [lots EXCEPT ![s] =
                                   Added(@, [at |-> f.at, price |-> f.price, open |-> f.quantity,
                                             left |-> f.quantity])]
                     /\ position' = [position EXCEPT ![s] =
                                       [quantity |-> @.quantity + f.quantity,
                                        cost |-> @.cost + f.price * f.quantity,
                                        highest |-> Higher(@.highest, f.price)]]
         /\ ~isBuy => /\ f.quantity <= LeftIn(lots[s])
                      /\ lots' = [lots EXCEPT ![s] = Consumed(@, f.quantity)]
                      /\ position' = [position EXCEPT
                           ![s].quantity = Max({held.quantity - f.quantity, 0}),
                           ![s].cost = IF held.quantity - f.quantity <= 0 THEN 0
                                       ELSE CostOf(Consumed(lots[s], f.quantity))]
  <1> DEFINE f == Head(fills)
             o == f.order
             s == orders[o].strategy
             isBuy == orders[o].side = "buy"
             held == position[s]
             basis == IF isBuy THEN 0 ELSE CostBasis(lots[s], f.quantity)
             l == Booked(Ledger, f)
  <1>1. /\ fills' = Tail(fills) /\ running' = running /\ stops' = stops /\ degraded' = degraded
        /\ book' = book /\ holdings' = holdings /\ clock' = clock
        /\ orders' = l.orders /\ executions' = l.executions
        /\ lots' = l.lots /\ position' = l.position
    BY DEF ProcessFill, SetLedger, brokerVars, processVars
  <1>2. fills # <<>> /\ f.quantity \in Nat \ {0} /\ o \in 1..Len(orders)
    BY HeadFacts DEF ProcessFill
  <1>3. s \in Strategies /\ orders[o].side \in {"buy", "sell"} /\ o \in Ids
    BY <1>2, OrderFacts DEF BookInv
  <1>4. lots[s] \in Seq(Lot)
    BY <1>3 DEF BookInv, TablesInv
  <1>5. ~isBuy => f.quantity <= LeftIn(lots[s])
    BY <1>2, <1>3, <1>4, LotsAreCounted DEF Raises, Ledger
  <1>6. CASE isBuy
    <2>1. l = [ApplyBuy(Ledger, s, f) EXCEPT
                 !.executions[o] = Append(@, [no |-> f.no, quantity |-> f.quantity, price |-> f.price,
                                              at |-> f.at, basis |-> 0]),
                 !.orders[o].status = StatusAfter(orders[o], FilledQuantity(o) + f.quantity)]
      BY <1>6 DEF Booked, Ledger, FilledQuantity
    <2> QED
      BY <1>1, <1>6, <2>1, ZenonT(40) DEF ApplyBuy, Ledger
  <1>7. CASE ~isBuy
    <2>1. l = [ApplySell(Ledger, s, f) EXCEPT
                 !.executions[o] = Append(@, [no |-> f.no, quantity |-> f.quantity, price |-> f.price,
                                              at |-> f.at, basis |-> CostBasis(lots[s], f.quantity)]),
                 !.orders[o].status = StatusAfter(orders[o], FilledQuantity(o) + f.quantity)]
      BY <1>7 DEF Booked, Ledger, FilledQuantity
    <2> DEFINE n == Max({held.quantity - f.quantity, 0})
               cost == IF held.quantity - f.quantity <= 0 THEN 0
                       ELSE CostOf(Consumed(lots[s], f.quantity))
    <2>2. ApplySell(Ledger, s, f) =
            [Ledger EXCEPT !.position[s].quantity = n, !.position[s].cost = cost,
                           !.lots[s] = Consumed(lots[s], f.quantity)]
      BY DEF ApplySell, Ledger, CostLeft
    <2> DEFINE e == [no |-> f.no, quantity |-> f.quantity, price |-> f.price, at |-> f.at,
                     basis |-> CostBasis(lots[s], f.quantity)]
               status == StatusAfter(orders[o], FilledQuantity(o) + f.quantity)
               rest == Consumed(lots[s], f.quantity)
               sold == ApplySell(Ledger, s, f)
    <2>3. l = [sold EXCEPT !.executions[o] = Append(@, e), !.orders[o].status = status]
      BY <2>1
    <2>4. sold = [Ledger EXCEPT !.position[s].quantity = n, !.position[s].cost = cost,
                                !.lots[s] = rest]
      BY <2>2
    <2> HIDE DEF l, sold, n, cost, e, status, rest, s, o
    <2>5. /\ sold.orders = orders /\ sold.executions = executions
          /\ sold.lots = [lots EXCEPT ![s] = rest]
          /\ sold.position = [position EXCEPT ![s].quantity = n, ![s].cost = cost]
      BY <2>4 DEF Ledger
    <2>6. /\ l.orders = [orders EXCEPT ![o].status = status]
          /\ l.executions = [executions EXCEPT ![o] = Append(@, e)]
          /\ l.lots = sold.lots /\ l.position = sold.position
      BY <2>3, <2>4, <2>5 DEF Ledger
    <2>7. /\ l.lots = [lots EXCEPT ![s] = rest]
          /\ l.position = [position EXCEPT ![s].quantity = n, ![s].cost = cost]
      BY <2>5, <2>6
    <2> USE DEF l, sold, n, cost, e, status, rest, s, o
    <2> QED
      BY <1>1, <1>5, <1>7, <2>6, <2>7, ZenonT(20)
  <1> QED
    BY <1>6, <1>7, ZenonT(20)

-----------------------------------------------------------------------------
(***************************************************************************)
(* Orders, executions and fills against the broker's book.                 *)
(***************************************************************************)
LEMMA InitBook ==
  ASSUME Init
  PROVE  BookInv
  <1>1. /\ orders = <<>> /\ book = <<>> /\ fills = <<>> /\ executions = [o \in Ids |-> <<>>]
        /\ lots = [s \in Strategies |-> <<>>] /\ position = [s \in Strategies |-> NoPosition]
        /\ holdings = 0 /\ clock = 0 /\ degraded = FALSE /\ running = TRUE /\ stops = 0
    BY DEF Init
  <1>2. /\ orders \in Seq(Row) /\ book \in Seq(BookRow) /\ fills \in Seq(Filling)
        /\ executions \in [Ids -> Seq(Entry)] /\ lots \in [Strategies -> Seq(Lot)]
        /\ Len(orders) = 0 /\ Len(book) = 0 /\ Len(fills) = 0
    BY <1>1
  <1>3. position \in [Strategies -> Holding]
    <2>1. NoPosition \in Holding
      BY DEF NoPosition, Holding
    <2> QED
      BY <1>1, <2>1
  <1>4. TablesInv
    BY <1>1, <1>2, <1>3 DEF TablesInv
  <1>5. MaxOrders \in Nat /\ \A i \in 1..0 : FALSE
    BY FillLedgerAssumption
  <1>6. RowsInv
    BY <1>1, <1>2, <1>5 DEF RowsInv
  <1>7. MoneyInv /\ FillsInv
    BY <1>2, <1>5 DEF MoneyInv, FillsInv
  <1> QED
    BY <1>4, <1>6, <1>7 DEF BookInv

\* Orders that a step leaves as they are.
LEMMA SameOrder ==
  ASSUME NEW o, orders'[o] = orders[o], executions'[o] = executions[o]
  PROVE  /\ Active(o)' = Active(o) /\ FilledQuantity(o)' = FilledQuantity(o)
         /\ FilledAmount(o)' = FilledAmount(o) /\ RealizedCost(o)' = RealizedCost(o)
  BY DEF Active, FilledQuantity, FilledAmount, RealizedCost

LEMMA SubmitKeepsBook ==
  ASSUME BookInv, NEW s \in Strategies, NEW side \in {"buy", "sell"}, NEW n \in 1..MaxUnits,
         SubmitOrder(s, side, n)
  PROVE  BookInv'
  <1> DEFINE row == [strategy |-> s, side |-> side, quantity |-> n,
                     status |-> "submitted", number |-> Len(book) + 1,
                     orgno |-> Len(book) + 1 \in OrgnoInAnswer]
  <1> PICK m : m = Len(orders)
    OBVIOUS
  <1>1. /\ orders' = Append(orders, row) /\ book' = Append(book, Booking(side, n))
        /\ executions' = executions /\ lots' = lots /\ position' = position
        /\ holdings' = holdings /\ clock' = clock /\ fills' = fills
        /\ degraded' = degraded /\ running' = running /\ stops' = stops
        /\ m < MaxOrders /\ NoActiveOrder(s)
    BY DEF SubmitOrder, ledgerVars, processVars
  <1>2. TablesInv /\ RowsInv /\ MoneyInv /\ FillsInv
    BY DEF BookInv
  <1>3. /\ m \in Nat /\ Len(book) = m /\ MaxOrders \in Nat /\ MaxUnits \in Nat /\ n \in Nat \ {0}
        /\ orders \in Seq(Row) /\ book \in Seq(BookRow) /\ DOMAIN orders = 1..m
    BY <1>2, LenProperties, FillLedgerAssumption DEF TablesInv, RowsInv
  <1>4. row \in Row /\ Booking(side, n) \in BookRow
    BY <1>3 DEF Row, BookRow, Booking
  <1>5. /\ orders' \in Seq(Row) /\ Len(orders') = m + 1 /\ orders'[m + 1] = row
        /\ \A o \in 1..m : orders'[o] = orders[o]
    BY <1>1, <1>3, <1>4, AppendProperties
  <1>6. /\ book' \in Seq(BookRow) /\ Len(book') = m + 1 /\ book'[m + 1] = Booking(side, n)
        /\ \A o \in 1..m : book'[o] = book[o]
    BY <1>1, <1>3, <1>4, AppendProperties
  <1>7. \A o \in 1..m : /\ Active(o)' = Active(o) /\ FilledQuantity(o)' = FilledQuantity(o)
                        /\ FilledAmount(o)' = FilledAmount(o)
    BY <1>1, <1>5, SameOrder
  <1>8. executions[m + 1] = <<>>
    <2>1. m + 1 \in Ids /\ m + 1 > m
      BY <1>1, <1>3 DEF Ids
    <2> QED
      BY <1>2, <2>1 DEF RowsInv
  <1>9. FilledQuantity(m + 1)' = 0 /\ FilledAmount(m + 1)' = 0 /\ Active(m + 1)'
    <2>1. FilledQuantity(m + 1)' = 0 /\ FilledAmount(m + 1)' = 0
      BY <1>1, <1>8, NoEntries DEF FilledQuantity, FilledAmount
    <2>2. Active(m + 1)'
      BY <1>5 DEF Active
    <2> QED
      BY <2>1, <2>2
  <1>10. \A o \in 1..(m + 1) : o \in 1..m \/ o = m + 1
    BY <1>3
  <1>11. TablesInv'
    BY <1>1, <1>2, <1>5, <1>6 DEF TablesInv
  <1>12. RowsInv'
    <2>1. Len(orders') = Len(book') /\ Len(orders') <= MaxOrders
      BY <1>1, <1>3, <1>5, <1>6
    <2>2. ASSUME NEW o \in 1..(m + 1)
          PROVE  /\ orders'[o].number = o /\ orders'[o].side = book'[o].side
                 /\ orders'[o].quantity = book'[o].quantity /\ orders'[o].quantity <= MaxUnits
                 /\ Active(o)' <=> FilledQuantity(o)' < orders'[o].quantity
      <3>1. CASE o \in 1..m
        BY <1>2, <1>5, <1>6, <1>7, <3>1 DEF RowsInv
      <3>2. CASE o = m + 1
        BY <1>3, <1>5, <1>6, <1>9, <3>2 DEF Booking
      <3> QED
        BY <1>10, <3>1, <3>2
    <2>3. \A o \in Ids : o > m + 1 => executions'[o] = <<>>
      <3>1. \A o \in Ids : o > m + 1 => o > m
        BY <1>3 DEF Ids
      <3> QED
        BY <1>1, <1>2, <3>1 DEF RowsInv
    <2>4. ASSUME NEW o \in 1..(m + 1), NEW p \in 1..(m + 1), Active(o)', Active(p)',
                 orders'[o].strategy = orders'[p].strategy
          PROVE  o = p
      <3>1. \A q \in 1..m : Active(q)' => orders'[q].strategy # s
        BY <1>1, <1>3, <1>5, <1>7 DEF NoActiveOrder
      <3>2. orders'[m + 1].strategy = s
        BY <1>5
      <3>3. CASE o \in 1..m /\ p \in 1..m
        BY <1>2, <1>5, <1>7, <2>4, <3>3 DEF RowsInv
      <3>4. CASE o = m + 1 \/ p = m + 1
        BY <1>10, <2>4, <3>1, <3>2, <3>4
      <3> QED
        BY <1>10, <3>3, <3>4
    <2> QED
      BY <1>5, <2>1, <2>2, <2>3, <2>4 DEF RowsInv
  <1>13. MoneyInv'
    <2> SUFFICES ASSUME NEW o \in 1..(m + 1)
                 PROVE  /\ book'[o].filled <= book'[o].quantity /\ Divisible(book'[o].amount)
                        /\ PartOf(book'[o], FilledQuantity(o)', FilledAmount(o)')
      BY <1>5 DEF MoneyInv, PartOf, Divisible
    <2>1. CASE o \in 1..m
      BY <1>2, <1>6, <1>7, <2>1 DEF MoneyInv
    <2>2. CASE o = m + 1
      <3>1. Divisible(0)
        <4>1. \A k \in 1..MaxUnits : 0 = 0 * k
          BY <1>3
        <4> QED
          BY <4>1 DEF Divisible
      <3> QED
        BY <1>3, <1>6, <1>9, <2>2, <3>1 DEF Booking, PartOf
    <2> QED
      BY <1>10, <2>1, <2>2
  <1>14. FillsInv'
    <2>1. ASSUME NEW i \in 1..Len(fills), NEW f, f = fills[i] PROVE IsLacking(f)'
      <3>1. /\ f.order \in 1..m /\ Active(f.order)
            /\ PartOf(book[f.order], FilledQuantity(f.order) + f.quantity,
                      FilledAmount(f.order) + f.quantity * f.price)
        BY <1>2, <2>1 DEF FillsInv, IsLacking
      <3>2. f.order \in 1..(m + 1)
        BY <1>3, <3>1
      <3> QED
        BY <1>5, <1>6, <1>7, <3>1, <3>2 DEF IsLacking, PartOf, Divisible
    <2>2. \A i, j \in 1..Len(fills) : fills[i].order = fills[j].order => i = j
      BY <1>2 DEF FillsInv
    <2> QED
      BY <1>1, <2>1, <2>2 DEF FillsInv
  <1> QED
    BY <1>11, <1>12, <1>13, <1>14 DEF BookInv

\* A step that only takes fills from the poll, or stops or starts the process.
FewerFills ==
  /\ fills' = fills \/ fills' = <<>> \/ (fills # <<>> /\ fills' = Tail(fills))
  /\ degraded' \in BOOLEAN /\ running' \in BOOLEAN /\ stops' \in Nat
  /\ orders' = orders /\ executions' = executions /\ lots' = lots /\ position' = position
  /\ book' = book /\ holdings' = holdings /\ clock' = clock

LEMMA FewerFillsIs ==
  ASSUME fills \in Seq(Filling), FewerFills
  PROVE  /\ fills' \in Seq(Filling)
         /\ \E d \in 0..1 : \A i \in 1..Len(fills') : i + d \in 1..Len(fills) /\ fills'[i] = fills[i + d]
  <1>1. CASE fills' = fills
    BY <1>1, LenProperties
  <1>2. CASE fills' = <<>>
    BY <1>2
  <1>3. CASE fills # <<>> /\ fills' = Tail(fills)
    <2>1. /\ fills' \in Seq(Filling) /\ Len(fills') = Len(fills) - 1 /\ Len(fills) \in Nat
          /\ \A i \in 1..Len(fills') : fills'[i] = fills[i + 1]
      BY <1>3, HeadTailProperties, LenProperties
    <2> QED
      BY <2>1
  <1> QED
    BY <1>1, <1>2, <1>3 DEF FewerFills

LEMMA FewerFillsKeepBook ==
  ASSUME BookInv, FewerFills
  PROVE  BookInv'
  <1>1. fills \in Seq(Filling)
    BY DEF BookInv, TablesInv
  <1>2. /\ fills' \in Seq(Filling)
        /\ \E d \in 0..1 : \A i \in 1..Len(fills') : i + d \in 1..Len(fills) /\ fills'[i] = fills[i + d]
    BY <1>1, FewerFillsIs
  <1>3. PICK d \in 0..1 :
          \A i \in 1..Len(fills') : i + d \in 1..Len(fills) /\ fills'[i] = fills[i + d]
    BY <1>2
  <1>4. /\ orders' = orders /\ executions' = executions /\ lots' = lots /\ position' = position
        /\ book' = book /\ holdings' = holdings /\ clock' = clock
        /\ degraded' \in BOOLEAN /\ running' \in BOOLEAN /\ stops' \in Nat
    BY DEF FewerFills
  <1>5. \A o : /\ Active(o)' = Active(o) /\ FilledQuantity(o)' = FilledQuantity(o)
               /\ FilledAmount(o)' = FilledAmount(o)
    BY <1>4, SameOrder
  <1>6. TablesInv'
    BY <1>2, <1>4 DEF BookInv, TablesInv
  <1>7. RowsInv'
    BY <1>4, <1>5 DEF BookInv, RowsInv
  <1>8. MoneyInv'
    BY <1>4, <1>5 DEF BookInv, MoneyInv, PartOf, Divisible
  <1>9. FillsInv'
    <2>1. ASSUME NEW i \in 1..Len(fills'), NEW f, f = fills'[i] PROVE IsLacking(f)'
      <3>1. IsLacking(f)
        BY <1>3, <2>1 DEF BookInv, FillsInv
      <3> QED
        BY <1>4, <1>5, <3>1 DEF IsLacking, PartOf, Divisible
    <2>2. ASSUME NEW i \in 1..Len(fills'), NEW j \in 1..Len(fills'), fills'[i].order = fills'[j].order
          PROVE  i = j
      <3>1. i + d = j + d
        BY <1>3, <2>2 DEF BookInv, FillsInv
      <3>2. Len(fills') \in Nat
        BY <1>2, LenProperties
      <3> QED
        BY <3>1, <3>2
    <2> QED
      BY <2>1, <2>2 DEF FillsInv
  <1> QED
    BY <1>6, <1>7, <1>8, <1>9 DEF BookInv

\* The steps of that kind.
LEMMA FewerFillsSteps ==
  ASSUME BookInv,
         \/ DropDuplicate \/ Stop \/ Start \/ UNCHANGED vars
         \/ ProcessFill /\ Raises(Ledger, Head(fills))
  PROVE  FewerFills
  <1>1. degraded \in BOOLEAN /\ running \in BOOLEAN /\ stops \in Nat
    BY DEF BookInv, TablesInv
  <1>2. CASE DropDuplicate
    BY <1>1, <1>2 DEF DropDuplicate, FewerFills, ledgerVars, brokerVars, processVars
  <1>3. CASE Stop
    <2>1. stops' \in Nat
      BY <1>1, <1>3 DEF Stop
    <2>2. fills' = <<>> /\ degraded' \in BOOLEAN /\ running' \in BOOLEAN
      BY <1>3 DEF Stop
    <2>3. UNCHANGED <<orders, ledgerVars, brokerVars>>
      BY <1>3 DEF Stop
    <2> QED
      BY <2>1, <2>2, <2>3 DEF FewerFills, ledgerVars, brokerVars
  <1>4. CASE Start
    BY <1>1, <1>4 DEF Start, FewerFills, ledgerVars, brokerVars
  <1>5. CASE UNCHANGED vars
    BY <1>1, <1>5 DEF vars, FewerFills
  <1>6. CASE ProcessFill /\ Raises(Ledger, Head(fills))
    BY <1>1, <1>6 DEF ProcessFill, FewerFills, ledgerVars, brokerVars, processVars
  <1> QED
    BY <1>2, <1>3, <1>4, <1>5, <1>6

LEMMA BrokerFillIs ==
  ASSUME BookInv, NEW n \in DOMAIN book, NEW p \in Prices, BrokerFill(n, p)
  PROVE  /\ orders' = orders /\ executions' = executions /\ lots' = lots /\ position' = position
         /\ fills' = fills /\ degraded' = degraded /\ running' = running /\ stops' = stops
         /\ clock' = clock + 1 /\ clock \in Nat /\ holdings' \in Nat
         /\ n \in 1..Len(orders) /\ book[n].filled < book[n].quantity
         /\ p \in Nat \ {0} /\ Divisible(p)
         /\ book' \in Seq(BookRow) /\ Len(book') = Len(book)
         /\ book'[n] = [book[n] EXCEPT !.filled = @ + 1, !.amount = @ + p, !.at = clock + 1]
         /\ book'[n].quantity = book[n].quantity /\ book'[n].side = book[n].side
         /\ book'[n].filled = book[n].filled + 1 /\ book'[n].amount = book[n].amount + p
         /\ book'[n].at = clock + 1
         /\ \A o \in 1..Len(orders) : o # n => book'[o] = book[o]
  <1>1. /\ orders' = orders /\ executions' = executions /\ lots' = lots /\ position' = position
        /\ fills' = fills /\ degraded' = degraded /\ running' = running /\ stops' = stops
        /\ clock' = clock + 1 /\ book[n].filled < book[n].quantity
        /\ book[n].side = "sell" => holdings > 0
        /\ holdings' = IF book[n].side = "buy" THEN holdings + 1 ELSE holdings - 1
        /\ book' = [book EXCEPT ![n].filled = @ + 1, ![n].amount = @ + p, ![n].at = clock + 1]
    BY DEF BrokerFill, ledgerVars, processVars
  <1>2. book \in Seq(BookRow) /\ clock \in Nat /\ holdings \in Nat
    BY DEF BookInv, TablesInv
  <1>3. Len(book) \in Nat /\ DOMAIN book = 1..Len(book) /\ book \in [1..Len(book) -> BookRow]
    BY <1>2, LenProperties
  <1>4. n \in 1..Len(orders) /\ Len(orders) = Len(book)
    BY <1>3 DEF BookInv, RowsInv
  <1>5. p \in Nat \ {0} /\ Divisible(p)
    BY PricesAreShared
  <1> DEFINE b == [book[n] EXCEPT !.filled = @ + 1, !.amount = @ + p, !.at = clock + 1]
  <1>6. book' = [book EXCEPT ![n] = b]
    BY <1>1
  <1>7. b \in BookRow /\ book[n].side \in {"buy", "sell"}
    <2>1. book[n] \in BookRow
      BY <1>3
    <2>2. /\ book[n].side \in {"buy", "sell"} /\ book[n].filled \in Nat /\ book[n].amount \in Nat
      BY <2>1 DEF BookRow
    <2>3. book[n].filled + 1 \in Nat /\ book[n].amount + p \in Nat /\ clock + 1 \in Nat
      BY <1>2, <1>5, <2>2
    <2> QED
      BY <2>1, <2>2, <2>3 DEF BookRow
  <1>8. /\ b.quantity = book[n].quantity /\ b.side = book[n].side /\ b.filled = book[n].filled + 1
        /\ b.amount = book[n].amount + p /\ b.at = clock + 1
    <2>1. book[n] \in BookRow
      BY <1>3
    <2> QED
      BY <2>1 DEF BookRow
  <1> HIDE DEF b
  <1>9. book' \in [1..Len(book) -> BookRow] /\ book'[n] = b /\ \A o \in 1..Len(orders) : o # n => book'[o] = book[o]
    BY <1>3, <1>4, <1>6, <1>7
  <1>10. book' \in Seq(BookRow) /\ Len(book') = Len(book)
    BY <1>3, <1>9, Listed
  <1>11. holdings' \in Nat
    BY <1>1, <1>2, <1>7
  <1> QED
    BY <1>1, <1>2, <1>4, <1>5, <1>8, <1>9, <1>10, <1>11 DEF b

LEMMA BrokerFillKeepsBook ==
  ASSUME BookInv, NEW n \in DOMAIN book, NEW p \in Prices, BrokerFill(n, p)
  PROVE  BookInv'
  <1>1. /\ orders' = orders /\ executions' = executions /\ lots' = lots /\ position' = position
        /\ fills' = fills /\ degraded' = degraded /\ running' = running /\ stops' = stops
        /\ clock' = clock + 1 /\ clock \in Nat /\ holdings' \in Nat
        /\ n \in 1..Len(orders) /\ book[n].filled < book[n].quantity
        /\ p \in Nat \ {0} /\ Divisible(p)
        /\ book' \in Seq(BookRow) /\ Len(book') = Len(book)
        /\ book'[n].quantity = book[n].quantity /\ book'[n].side = book[n].side
        /\ book'[n].filled = book[n].filled + 1 /\ book'[n].amount = book[n].amount + p
        /\ \A o \in 1..Len(orders) : o # n => book'[o] = book[o]
    BY BrokerFillIs, ZenonT(20)
  <1>2. TablesInv /\ RowsInv /\ MoneyInv /\ FillsInv
    BY DEF BookInv
  <1>3. \A o : /\ Active(o)' = Active(o) /\ FilledQuantity(o)' = FilledQuantity(o)
               /\ FilledAmount(o)' = FilledAmount(o)
    BY <1>1, SameOrder
  <1>4. book[n].filled \in Nat /\ book[n].quantity \in Nat /\ book[n].amount \in Nat
    BY <1>1, <1>2, OrderFacts
  <1>5. Divisible(book[n].amount + p)
    BY <1>1, <1>2, <1>4, SumsAreShared DEF MoneyInv
  <1>6. TablesInv'
    <2>1. clock' \in Nat
      BY <1>1
    <2> QED
      BY <1>1, <1>2, <2>1 DEF TablesInv
  <1>7. RowsInv'
    <2>1. \A o \in 1..Len(orders) : book'[o].side = book[o].side /\ book'[o].quantity = book[o].quantity
      BY <1>1
    <2>2. ASSUME NEW o \in 1..Len(orders)
          PROVE  /\ orders'[o].number = o /\ orders'[o].side = book'[o].side
                 /\ orders'[o].quantity = book'[o].quantity /\ orders'[o].quantity <= MaxUnits
                 /\ Active(o)' <=> FilledQuantity(o)' < orders'[o].quantity
      BY <1>1, <1>2, <1>3, <2>1 DEF RowsInv
    <2>3. \A o \in Ids : o > Len(orders) => executions'[o] = <<>>
      BY <1>1, <1>2 DEF RowsInv
    <2>4. \A o, q \in 1..Len(orders) :
            Active(o)' /\ Active(q)' /\ orders'[o].strategy = orders'[q].strategy => o = q
      BY <1>1, <1>2, <1>3 DEF RowsInv
    <2>5. Len(orders') = Len(book') /\ Len(orders') <= MaxOrders
      BY <1>1, <1>2 DEF RowsInv
    <2> QED
      BY <1>1, <2>2, <2>3, <2>4, <2>5 DEF RowsInv
  <1>8. ASSUME NEW units \in Nat, NEW amount \in Nat, PartOf(book[n], units, amount)
        PROVE  PartOf(book'[n], units, amount)
    <2>1. /\ units <= book[n].filled /\ amount <= book[n].amount /\ Divisible(amount)
          /\ units = book[n].filled <=> amount = book[n].amount
      BY <1>8 DEF PartOf
    <2>2. book'[n].filled = book[n].filled + 1 /\ book'[n].amount = book[n].amount + p /\ p \in Nat \ {0}
      BY <1>1
    <2>3. /\ units <= book'[n].filled /\ amount <= book'[n].amount
          /\ units # book'[n].filled /\ amount # book'[n].amount
      BY <1>4, <2>1, <2>2
    <2> QED
      BY <2>1, <2>3 DEF PartOf
  <1>9. MoneyInv'
    <2> SUFFICES ASSUME NEW o \in 1..Len(orders)
                 PROVE  /\ book'[o].filled <= book'[o].quantity /\ Divisible(book'[o].amount)
                        /\ PartOf(book'[o], FilledQuantity(o), FilledAmount(o))
      BY <1>1, <1>3 DEF MoneyInv, PartOf, Divisible
    <2>1. FilledQuantity(o) \in Nat /\ FilledAmount(o) \in Nat
      BY <1>2, OrderFacts
    <2>2. CASE o = n
      BY <1>1, <1>2, <1>4, <1>5, <1>8, <2>1, <2>2 DEF MoneyInv
    <2>3. CASE o # n
      BY <1>1, <1>2, <2>3 DEF MoneyInv
    <2> QED
      BY <2>2, <2>3
  <1>10. FillsInv'
    <2>1. ASSUME NEW i \in 1..Len(fills), NEW f, f = fills[i] PROVE IsLacking(f)'
      <3>1. /\ f.order \in 1..Len(orders) /\ Active(f.order)
            /\ PartOf(book[f.order], FilledQuantity(f.order) + f.quantity,
                      FilledAmount(f.order) + f.quantity * f.price)
        BY <1>2, <2>1 DEF FillsInv, IsLacking
      <3>2. f.quantity \in Nat /\ f.price \in Nat
        <4>1. f \in Filling
          BY <1>2, <2>1, ElementOfSeq DEF TablesInv
        <4> QED
          BY <4>1 DEF Filling
      <3>3. FilledQuantity(f.order) \in Nat /\ FilledAmount(f.order) \in Nat
        BY <1>2, <3>1, OrderFacts
      <3>4. f.quantity * f.price \in Nat
        BY <3>2
      <3>5. /\ FilledQuantity(f.order) + f.quantity \in Nat
            /\ FilledAmount(f.order) + f.quantity * f.price \in Nat
        BY <3>2, <3>3, <3>4
      <3>6. PartOf(book'[f.order], FilledQuantity(f.order) + f.quantity,
                   FilledAmount(f.order) + f.quantity * f.price)
        BY <1>1, <1>8, <3>1, <3>5
      <3> QED
        BY <1>1, <1>3, <3>1, <3>6 DEF IsLacking, PartOf, Divisible
    <2>2. \A i, j \in 1..Len(fills) : fills[i].order = fills[j].order => i = j
      BY <1>2 DEF FillsInv
    <2> QED
      BY <1>1, <2>1, <2>2 DEF FillsInv
  <1> QED
    BY <1>6, <1>7, <1>9, <1>10 DEF BookInv

\* A fill that a poll finds is all that the executions lack.
LEMMA FillOfIs ==
  ASSUME BookInv, NEW o \in 1..Len(orders), HasFill(o)
  PROVE  /\ FillOf(o) \in Filling /\ FillOf(o).order = o /\ FillOf(o).at = book[o].at
         /\ FilledQuantity(o) < book[o].filled
         /\ FilledQuantity(o) + FillOf(o).quantity = book[o].filled
         /\ FilledAmount(o) + FillOf(o).quantity * FillOf(o).price = book[o].amount
  <1>1. TablesInv /\ RowsInv /\ MoneyInv
    BY DEF BookInv
  <1>2. /\ AtBroker(o) = book[o] /\ book[o].filled \in Nat /\ book[o].amount \in Nat /\ book[o].at \in Nat
        /\ book[o].quantity \in Nat /\ orders[o].quantity \in 1..MaxUnits /\ orders[o].number = o
        /\ FilledQuantity(o) \in Nat /\ FilledAmount(o) \in Nat
        /\ executions[o] \in Seq(Entry) /\ o \in Nat /\ MaxUnits \in Nat
    BY <1>1, OrderFacts, FillLedgerAssumption
  <1>3. FilledQuantity(o) < book[o].filled
    BY <1>2 DEF HasFill
  <1>4. /\ book[o].filled <= book[o].quantity /\ book[o].quantity = orders[o].quantity
        /\ Divisible(book[o].amount) /\ PartOf(book[o], FilledQuantity(o), FilledAmount(o))
    BY <1>1 DEF MoneyInv, RowsInv
  <1>5. FilledAmount(o) < book[o].amount /\ Divisible(FilledAmount(o))
    BY <1>2, <1>3, <1>4 DEF PartOf
  <1> DEFINE n == book[o].filled - FilledQuantity(o)
             left == book[o].amount - FilledAmount(o)
  <1>6. n \in 1..MaxUnits /\ n \in Nat \ {0} /\ FilledQuantity(o) + n = book[o].filled
    BY <1>2, <1>3, <1>4, SMTT(30)
  <1>7. left > 0 /\ left \in Int
    BY <1>2, <1>5, SMTT(30)
  <1>8. left \div n \in Nat \ {0} /\ n * (left \div n) = left
    <2>1. /\ book[o].amount \in Nat /\ FilledAmount(o) \in Nat /\ Divisible(book[o].amount)
          /\ Divisible(FilledAmount(o)) /\ FilledAmount(o) < book[o].amount
      BY <1>2, <1>4, <1>5
    <2> HIDE DEF n
    <2> QED
      BY <1>6, <2>1, RestIsShared
  <1>9. DeltaPrice(o, n) = left \div n
    BY <1>2, <1>7 DEF DeltaPrice
  <1>10. FillOf(o) = [no |-> ExecutionNumber(o), order |-> o, quantity |-> n, price |-> DeltaPrice(o, n),
                      at |-> book[o].at]
    BY <1>2 DEF FillOf
  <1>11. ExecutionNumber(o) \in Numbers
    <2>1. Len(executions[o]) + 1 \in Nat
      BY <1>2, LenProperties
    <2> QED
      BY <1>2, <2>1 DEF ExecutionNumber, Numbers
  <1> HIDE DEF n, left
  <1>12. FillOf(o).quantity = n /\ FillOf(o).price = left \div n
    BY <1>9, <1>10
  <1>13. FilledAmount(o) + n * (left \div n) = book[o].amount
    BY <1>2, <1>8 DEF left
  <1>14. FillOf(o) \in Filling
    BY <1>2, <1>6, <1>8, <1>9, <1>10, <1>11 DEF Filling
  <1> QED
    BY <1>3, <1>6, <1>10, <1>12, <1>13, <1>14

LEMMA CollectIs ==
  ASSUME BookInv, CollectFills
  PROVE  /\ orders' = orders /\ executions' = executions /\ lots' = lots /\ position' = position
         /\ book' = book /\ holdings' = holdings /\ clock' = clock /\ degraded' = degraded
         /\ running' = running /\ stops' = stops
         /\ fills' \in Seq(Filling) /\ Len(fills') \in Nat
         /\ \A i \in 1..Len(fills') : LET o == fills'[i].order IN
              o \in 1..Len(orders) /\ HasFill(o) /\ fills'[i] = FillOf(o)
         /\ \A i, j \in 1..Len(fills') : fills'[i].order = fills'[j].order => i = j
  <1> DEFINE found == {o \in DOMAIN orders : HasFill(o)}
  <1>1. PICK due \in Due : fills' = [i \in DOMAIN due |-> FillOf(due[i])]
    BY DEF CollectFills
  <1>2. orders \in Seq(Row) /\ DOMAIN orders = 1..Len(orders) /\ Len(orders) \in Nat
    BY LenProperties DEF BookInv, TablesInv
  <1>3. Cardinality(found) \in Nat
    <2>1. found \subseteq 1..Len(orders)
      BY <1>2
    <2>2. 1 \in Int /\ Len(orders) \in Int
      BY <1>2
    <2>3. IsFiniteSet(1..Len(orders))
      BY <2>2, FS_Interval
    <2> HIDE DEF found
    <2> QED
      BY <2>1, <2>3, FS_Subset, FS_CardinalityType
  <1> DEFINE c == Cardinality(found)
  <1>4. due \in [1..c -> found] /\ \A i, j \in 1..c : i # j => due[i] # due[j]
    BY DEF Due, SetToSeqs
  <1> HIDE DEF found, c
  <1>5. ASSUME NEW i \in 1..c
        PROVE  /\ due[i] \in 1..Len(orders) /\ HasFill(due[i])
               /\ FillOf(due[i]) \in Filling /\ FillOf(due[i]).order = due[i]
    <2>1. due[i] \in 1..Len(orders) /\ HasFill(due[i])
      BY <1>2, <1>4 DEF found
    <2> QED
      BY <2>1, FillOfIs
  <1>6. fills' \in [1..c -> Filling] /\ \A i \in 1..c : fills'[i] = FillOf(due[i])
    BY <1>1, <1>4, <1>5
  <1>7. fills' \in Seq(Filling) /\ Len(fills') = c /\ c \in Nat
    BY <1>3, <1>6, Listed DEF c
  <1>8. ASSUME NEW i \in 1..c, NEW j \in 1..c, fills'[i].order = fills'[j].order PROVE i = j
    BY <1>4, <1>5, <1>6, <1>8
  <1>9. /\ orders' = orders /\ executions' = executions /\ lots' = lots /\ position' = position
        /\ book' = book /\ holdings' = holdings /\ clock' = clock /\ degraded' = degraded
        /\ running' = running /\ stops' = stops
    BY DEF CollectFills, ledgerVars, brokerVars, processVars
  <1> QED
    BY <1>5, <1>6, <1>7, <1>8, <1>9

LEMMA CollectKeepsBook ==
  ASSUME BookInv, CollectFills
  PROVE  BookInv'
  <1>1. TablesInv /\ RowsInv /\ MoneyInv /\ FillsInv
    BY DEF BookInv
  <1>2. /\ orders' = orders /\ executions' = executions /\ lots' = lots /\ position' = position
        /\ book' = book /\ holdings' = holdings /\ clock' = clock /\ degraded' = degraded
        /\ running' = running /\ stops' = stops /\ fills' \in Seq(Filling)
    BY CollectIs
  <1>3. \A o : /\ Active(o)' = Active(o) /\ FilledQuantity(o)' = FilledQuantity(o)
               /\ FilledAmount(o)' = FilledAmount(o)
    BY <1>2, SameOrder
  <1>4. TablesInv'
    BY <1>1, <1>2 DEF TablesInv
  <1>5. RowsInv'
    BY <1>1, <1>2, <1>3 DEF RowsInv
  <1>6. MoneyInv'
    BY <1>1, <1>2, <1>3 DEF MoneyInv, PartOf, Divisible
  <1>7. ASSUME NEW i \in 1..Len(fills'), NEW f, f = fills'[i] PROVE IsLacking(f)'
    <2>1. PICK o : o = f.order
      OBVIOUS
    <2>2. o \in 1..Len(orders) /\ HasFill(o) /\ f = FillOf(o)
      BY <1>7, <2>1, CollectIs
    <2>3. /\ FilledQuantity(o) + f.quantity = book[o].filled
          /\ FilledAmount(o) + f.quantity * f.price = book[o].amount
      BY <2>2, FillOfIs
    <2>4. book[o].filled \in Nat /\ book[o].amount \in Nat /\ Divisible(book[o].amount)
      BY <1>1, <2>2, OrderFacts DEF MoneyInv
    <2>5. PartOf(book[o], FilledQuantity(o) + f.quantity, FilledAmount(o) + f.quantity * f.price)
      BY <2>3, <2>4 DEF PartOf
    <2>6. Active(o)
      BY <2>2 DEF HasFill
    <2> QED
      BY <1>2, <1>3, <2>1, <2>2, <2>5, <2>6 DEF IsLacking, PartOf, Divisible
  <1>8. FillsInv'
    BY <1>7, CollectIs DEF FillsInv
  <1> QED
    BY <1>4, <1>5, <1>6, <1>8 DEF BookInv

\* Booking a fill, in the orders and the executions.
LEMMA BookingRows ==
  ASSUME BookInv, ProcessFill, ~Raises(Ledger, Head(fills)),
         NEW f, f = Head(fills), NEW o, o = f.order, NEW s, s = orders[o].strategy
  PROVE  /\ o \in 1..Len(orders) /\ s \in Strategies /\ f \in Filling
         /\ orders' \in Seq(Row) /\ Len(orders') = Len(orders)
         /\ \A p \in 1..Len(orders) : p # o => orders'[p] = orders[p] /\ executions'[p] = executions[p]
         /\ orders'[o] = [orders[o] EXCEPT !.status = StatusAfter(orders[o], FilledQuantity(o) + f.quantity)]
         /\ executions' \in [Ids -> Seq(Entry)]
         /\ \A p \in Ids : p # o => executions'[p] = executions[p]
         /\ FilledQuantity(o)' = FilledQuantity(o) + f.quantity
         /\ FilledAmount(o)' = FilledAmount(o) + f.quantity * f.price
         /\ RealizedCost(o)' = RealizedCost(o) +
              (IF orders[o].side = "buy" THEN 0 ELSE CostBasis(lots[s], f.quantity))
         /\ orders[o].side # "buy" => CostBasis(lots[s], f.quantity) \in Nat
  <1> DEFINE basis == IF orders[o].side = "buy" THEN 0 ELSE CostBasis(lots[s], f.quantity)
             e == [no |-> f.no, quantity |-> f.quantity, price |-> f.price, at |-> f.at,
                   basis |-> basis]
             status == StatusAfter(orders[o], FilledQuantity(o) + f.quantity)
  <1>1. /\ orders' = [orders EXCEPT ![o].status = status]
        /\ executions' = [executions EXCEPT ![o] = Append(@, e)]
        /\ orders[o].side # "buy" => f.quantity <= LeftIn(lots[s])
    BY BookingIs, ZenonT(20)
  <1>2. /\ fills # <<>> /\ f \in Filling /\ o \in 1..Len(orders)
        /\ f.quantity \in Nat \ {0} /\ f.price \in Nat \ {0} /\ f.at \in Nat /\ f.no \in Numbers
    BY HeadFacts DEF ProcessFill
  <1>3. /\ s \in Strategies /\ o \in Ids /\ executions[o] \in Seq(Entry) /\ orders[o] \in Row
    BY <1>2, OrderFacts DEF BookInv
  <1>4. /\ orders \in Seq(Row) /\ executions \in [Ids -> Seq(Entry)] /\ lots[s] \in Seq(Lot)
    BY <1>3 DEF BookInv, TablesInv
  <1>5. orders[o].side # "buy" => CostBasis(lots[s], f.quantity) \in Nat
    BY <1>1, <1>2, <1>4, SaleIsTaken
  <1>6. basis \in Nat
    BY <1>5
  <1> HIDE DEF basis
  <1>7. e \in Entry
    BY <1>2, <1>6 DEF Entry
  <1>8. status \in {"submitted", "partially_filled", "filled"}
    BY DEF StatusAfter
  <1>9. /\ orders' \in Seq(Row) /\ Len(orders') = Len(orders)
        /\ \A p \in 1..Len(orders) : p # o => orders'[p] = orders[p]
        /\ orders'[o] = [orders[o] EXCEPT !.status = status]
    <2> HIDE DEF status
    <2> DEFINE row == [orders[o] EXCEPT !.status = status]
    <2>1. Len(orders) \in Nat /\ orders \in [1..Len(orders) -> Row]
      BY <1>4, LenProperties
    <2>2. row \in Row
      BY <1>3, <1>8 DEF Row
    <2>3. orders' = [orders EXCEPT ![o] = row]
      BY <1>1
    <2> HIDE DEF row
    <2>4. orders' \in [1..Len(orders) -> Row] /\ orders'[o] = row
          /\ \A p \in 1..Len(orders) : p # o => orders'[p] = orders[p]
      BY <1>2, <2>1, <2>2, <2>3
    <2>5. orders' \in Seq(Row) /\ Len(orders') = Len(orders)
      BY <2>1, <2>4, Listed
    <2> QED
      BY <2>4, <2>5 DEF row
  <1> DEFINE more == Append(executions[o], e)
  <1>10. /\ more \in Seq(Entry)
         /\ Total(Quantities(more)) = Total(Quantities(executions[o])) + f.quantity
         /\ Total(Amounts(more)) = Total(Amounts(executions[o])) + f.quantity * f.price
         /\ Total(Bases(more)) = Total(Bases(executions[o])) + basis
    <2>1. e.quantity = f.quantity /\ e.price = f.price /\ e.basis = basis
      OBVIOUS
    <2> HIDE DEF e
    <2> QED
      BY <1>3, <1>7, <2>1, SumsOfAppended
  <1>11. executions' = [executions EXCEPT ![o] = more]
    BY <1>1
  <1> HIDE DEF more
  <1>12. executions' \in [Ids -> Seq(Entry)] /\ executions'[o] = more
         /\ \A p \in Ids : p # o => executions'[p] = executions[p]
    BY <1>3, <1>4, <1>10, <1>11
  <1>13. /\ FilledQuantity(o)' = FilledQuantity(o) + f.quantity
         /\ FilledAmount(o)' = FilledAmount(o) + f.quantity * f.price
    BY <1>10, <1>12 DEF FilledQuantity, FilledAmount
  <1>14. RealizedCost(o)' = RealizedCost(o) + basis
    BY <1>10, <1>12 DEF RealizedCost, Bases
  <1>15. \A p \in 1..Len(orders) : p \in Ids
    BY OrderFacts DEF BookInv
  <1> QED
    BY <1>2, <1>3, <1>5, <1>9, <1>12, <1>13, <1>14, <1>15 DEF basis

LEMMA HigherIs ==
  ASSUME NEW p \in Nat, NEW q \in Nat
  PROVE  Higher(p, q) \in Nat /\ Higher(p, q) >= p /\ Higher(p, q) >= q
  BY DEF Higher, Max

LEMMA NoLessThanNone ==
  ASSUME NEW n \in Int
  PROVE  Max({n, 0}) = IF n <= 0 THEN 0 ELSE n
  BY DEF Max

\* Booking a fill, in the lots and the position of the strategy.
LEMMA BookingLots ==
  ASSUME BookInv, ProcessFill, ~Raises(Ledger, Head(fills)),
         NEW f, f = Head(fills), NEW o, o = f.order, NEW s, s = orders[o].strategy,
         NEW lot, lot = [at |-> f.at, price |-> f.price, open |-> f.quantity, left |-> f.quantity]
  PROVE  /\ lots \in [Strategies -> Seq(Lot)] /\ position \in [Strategies -> Holding] /\ lot \in Lot
         /\ lots' \in [Strategies -> Seq(Lot)] /\ position' \in [Strategies -> Holding]
         /\ \A t \in Strategies : t # s => lots'[t] = lots[t] /\ position'[t] = position[t]
         /\ orders[o].side = "buy" =>
              /\ lots'[s] = Added(lots[s], lot)
              /\ position'[s].quantity = position[s].quantity + f.quantity
              /\ position'[s].cost = position[s].cost + f.quantity * f.price
              /\ position'[s].highest >= position[s].highest /\ position'[s].highest >= f.price
         /\ orders[o].side # "buy" =>
              /\ f.quantity <= LeftIn(lots[s])
              /\ lots'[s] = Consumed(lots[s], f.quantity)
              /\ position'[s].highest = position[s].highest
              /\ position'[s].quantity = IF f.quantity < position[s].quantity
                                         THEN position[s].quantity - f.quantity ELSE 0
              /\ position'[s].cost = IF f.quantity < position[s].quantity
                                     THEN CostOf(Consumed(lots[s], f.quantity)) ELSE 0
  <1>1. /\ fills # <<>> /\ o \in 1..Len(orders)
        /\ f.quantity \in Nat \ {0} /\ f.price \in Nat \ {0} /\ f.at \in Nat
    BY HeadFacts DEF ProcessFill
  <1>2. s \in Strategies
    BY <1>1, OrderFacts DEF BookInv
  <1>3. lots \in [Strategies -> Seq(Lot)] /\ position \in [Strategies -> Holding]
    BY DEF BookInv, TablesInv
  <1>4. lots[s] \in Seq(Lot) /\ position[s] \in Holding /\ lot \in Lot
    BY <1>1, <1>2, <1>3 DEF Lot
  <1>5. /\ position[s].quantity \in Nat /\ position[s].cost \in Nat /\ position[s].highest \in Nat
    BY <1>4 DEF Holding
  <1>6. CASE orders[o].side = "buy"
    <2> DEFINE now == [quantity |-> position[s].quantity + f.quantity,
                       cost |-> position[s].cost + f.price * f.quantity,
                       highest |-> Higher(position[s].highest, f.price)]
               all == Added(lots[s], lot)
    <2>1. lots' = [lots EXCEPT ![s] = all] /\ position' = [position EXCEPT ![s] = now]
      BY <1>6, BookingIs
    <2>2. all \in Seq(Lot)
      BY <1>4, AddedIs DEF AddedAt
    <2>3. /\ Higher(position[s].highest, f.price) \in Nat
          /\ Higher(position[s].highest, f.price) >= position[s].highest
          /\ Higher(position[s].highest, f.price) >= f.price
      BY <1>1, <1>5, HigherIs
    <2>4. /\ position[s].quantity + f.quantity \in Nat
          /\ f.price * f.quantity \in Nat /\ f.price * f.quantity = f.quantity * f.price
      BY <1>1, <1>5, SMTT(30)
    <2>5. position[s].cost + f.price * f.quantity \in Nat
      BY <1>5, <2>4
    <2>6. now \in Holding
      BY <2>3, <2>4, <2>5 DEF Holding
    <2>7. /\ now.quantity = position[s].quantity + f.quantity
          /\ now.cost = position[s].cost + f.quantity * f.price
          /\ now.highest >= position[s].highest /\ now.highest >= f.price
      BY <2>3, <2>4
    <2> HIDE DEF now, all
    <2>8. /\ lots' \in [Strategies -> Seq(Lot)] /\ position' \in [Strategies -> Holding]
          /\ lots'[s] = all /\ position'[s] = now
          /\ \A t \in Strategies : t # s => lots'[t] = lots[t] /\ position'[t] = position[t]
      BY <1>2, <1>3, <2>1, <2>2, <2>6
    <2> QED
      BY <1>3, <1>4, <1>6, <2>7, <2>8 DEF all
  <1>7. CASE orders[o].side # "buy"
    <2> DEFINE n == position[s].quantity - f.quantity
               rest == Consumed(lots[s], f.quantity)
               units == Max({n, 0})
               cost == IF n <= 0 THEN 0 ELSE CostOf(rest)
               now == [position[s] EXCEPT !.quantity = units, !.cost = cost]
    <2>1. /\ f.quantity <= LeftIn(lots[s]) /\ lots' = [lots EXCEPT ![s] = rest]
          /\ position' = [position EXCEPT ![s].quantity = units, ![s].cost = cost]
      BY <1>7, BookingIs, ZenonT(20)
    <2>2. rest \in Seq(Lot) /\ CostOf(rest) \in Nat
      <3>1. rest \in Seq(Lot)
        BY <1>1, <1>4, ConsumedIs
      <3> HIDE DEF rest
      <3> QED
        BY <3>1, LotsAreCounted
    <2>3. n \in Int /\ (n <= 0 <=> ~(f.quantity < position[s].quantity)) /\ (~(n <= 0) => n \in Nat)
      BY <1>1, <1>5, SMTT(30)
    <2>4. /\ units = IF f.quantity < position[s].quantity THEN n ELSE 0
          /\ cost = IF f.quantity < position[s].quantity THEN CostOf(rest) ELSE 0
          /\ units \in Nat /\ cost \in Nat
      <3> HIDE DEF n, rest
      <3>1. units = IF n <= 0 THEN 0 ELSE n
        BY <2>3, NoLessThanNone
      <3> QED
        BY <2>2, <2>3, <3>1
    <2> HIDE DEF units, cost, rest
    <2>5. now \in Holding /\ now.quantity = units /\ now.cost = cost /\ now.highest = position[s].highest
      BY <1>4, <2>4, ZenonT(20) DEF Holding
    <2>6. position' = [position EXCEPT ![s] = now]
      BY <1>2, <1>3, <2>1, ZenonT(20)
    <2> HIDE DEF now
    <2>7. /\ lots' \in [Strategies -> Seq(Lot)] /\ position' \in [Strategies -> Holding]
          /\ lots'[s] = rest /\ position'[s] = now
          /\ \A t \in Strategies : t # s => lots'[t] = lots[t] /\ position'[t] = position[t]
      <3>1. /\ lots' \in [Strategies -> Seq(Lot)] /\ lots'[s] = rest
            /\ \A t \in Strategies : t # s => lots'[t] = lots[t]
        BY <1>2, <1>3, <2>1, <2>2
      <3>2. /\ position' \in [Strategies -> Holding] /\ position'[s] = now
            /\ \A t \in Strategies : t # s => position'[t] = position[t]
        BY <1>2, <1>3, <2>5, <2>6
      <3> QED
        BY <3>1, <3>2, Zenon
    <2> QED
      BY <1>3, <1>4, <1>7, <2>1, <2>4, <2>5, <2>7, ZenonT(20) DEF rest
  <1> QED
    BY <1>6, <1>7, ZenonT(20)

LEMMA BookingKeepsBook ==
  ASSUME BookInv, ProcessFill, ~Raises(Ledger, Head(fills))
  PROVE  BookInv'
  <1> PICK f : f = Head(fills)
    OBVIOUS
  <1> PICK o : o = f.order
    OBVIOUS
  <1> PICK s : s = orders[o].strategy
    OBVIOUS
  <1> PICK lot : lot = [at |-> f.at, price |-> f.price, open |-> f.quantity, left |-> f.quantity]
    BY Zenon
  <1>1. TablesInv /\ RowsInv /\ MoneyInv /\ FillsInv
    BY DEF BookInv
  <1>2. /\ fills' = Tail(fills) /\ running' = running /\ stops' = stops /\ degraded' = degraded
        /\ book' = book /\ holdings' = holdings /\ clock' = clock
    BY BookingIs, ZenonT(20)
  <1>3. /\ fills # <<>> /\ o \in 1..Len(orders) /\ Active(o)
        /\ f.quantity \in Nat \ {0} /\ f.price \in Nat \ {0}
        /\ PartOf(book[o], FilledQuantity(o) + f.quantity, FilledAmount(o) + f.quantity * f.price)
        /\ fills' \in Seq(Filling) /\ Len(fills) \in Nat
        /\ \A i \in 1..Len(fills') : /\ i + 1 \in 1..Len(fills) /\ fills'[i] = fills[i + 1]
                                     /\ fills'[i].order # o
    BY <1>2, HeadFacts DEF ProcessFill
  <1>4. /\ orders' \in Seq(Row) /\ Len(orders') = Len(orders)
        /\ \A p \in 1..Len(orders) : p # o => orders'[p] = orders[p] /\ executions'[p] = executions[p]
        /\ orders'[o] = [orders[o] EXCEPT !.status = StatusAfter(orders[o], FilledQuantity(o) + f.quantity)]
        /\ executions' \in [Ids -> Seq(Entry)]
        /\ \A p \in Ids : p # o => executions'[p] = executions[p]
        /\ FilledQuantity(o)' = FilledQuantity(o) + f.quantity
        /\ FilledAmount(o)' = FilledAmount(o) + f.quantity * f.price
    BY BookingRows
  <1>5. lots' \in [Strategies -> Seq(Lot)] /\ position' \in [Strategies -> Holding]
    BY BookingLots
  <1>6. \A p \in 1..Len(orders) : p # o =>
          /\ Active(p)' = Active(p) /\ FilledQuantity(p)' = FilledQuantity(p)
          /\ FilledAmount(p)' = FilledAmount(p)
    BY <1>4, SameOrder
  <1>7. /\ FilledQuantity(o) \in Nat /\ FilledAmount(o) \in Nat /\ book[o].filled \in Nat
        /\ orders[o] \in Row /\ orders[o].quantity \in Nat
    <2>1. /\ FilledQuantity(o) \in Nat /\ FilledAmount(o) \in Nat /\ book[o].filled \in Nat
          /\ orders[o] \in Row
      BY <1>1, <1>3, OrderFacts
    <2> QED
      BY <2>1 DEF Row
  <1>8. /\ orders'[o].strategy = orders[o].strategy /\ orders'[o].side = orders[o].side
        /\ orders'[o].quantity = orders[o].quantity /\ orders'[o].number = orders[o].number
        /\ orders'[o].status = StatusAfter(orders[o], FilledQuantity(o) + f.quantity)
    BY <1>4, <1>7 DEF Row
  <1>9. Active(o)' <=> FilledQuantity(o)' < orders[o].quantity
    BY <1>3, <1>4, <1>7, <1>8, SMTT(30) DEF Active, StatusAfter
  <1>10. TablesInv'
    BY <1>1, <1>2, <1>3, <1>4, <1>5 DEF TablesInv
  <1>11. RowsInv'
    <2>1. ASSUME NEW p \in 1..Len(orders)
          PROVE  /\ orders'[p].number = p /\ orders'[p].side = book'[p].side
                 /\ orders'[p].quantity = book'[p].quantity /\ orders'[p].quantity <= MaxUnits
                 /\ Active(p)' <=> FilledQuantity(p)' < orders'[p].quantity
      <3>1. CASE p = o
        BY <1>1, <1>2, <1>8, <1>9, <3>1 DEF RowsInv
      <3>2. CASE p # o
        BY <1>1, <1>2, <1>4, <1>6, <3>2 DEF RowsInv
      <3> QED
        BY <3>1, <3>2
    <2>2. \A p \in Ids : p > Len(orders) => executions'[p] = <<>>
      <3>1. \A p \in Ids : p > Len(orders) => p # o
        BY <1>3
      <3> QED
        BY <1>1, <1>4, <3>1 DEF RowsInv
    <2>3. ASSUME NEW p \in 1..Len(orders), NEW q \in 1..Len(orders), Active(p)', Active(q)',
                 orders'[p].strategy = orders'[q].strategy
          PROVE  p = q
      <3>1. Active(p) /\ Active(q)
        BY <1>3, <1>6, <2>3
      <3>2. orders[p].strategy = orders[q].strategy
        BY <1>4, <1>8, <2>3
      <3> QED
        BY <1>1, <3>1, <3>2 DEF RowsInv
    <2>4. Len(orders') = Len(book') /\ Len(orders') <= MaxOrders
      BY <1>1, <1>2, <1>4 DEF RowsInv
    <2> QED
      BY <1>4, <2>1, <2>2, <2>3, <2>4 DEF RowsInv
  <1>12. MoneyInv'
    <2> SUFFICES ASSUME NEW p \in 1..Len(orders)
                 PROVE  /\ book[p].filled <= book[p].quantity /\ Divisible(book[p].amount)
                        /\ PartOf(book[p], FilledQuantity(p)', FilledAmount(p)')
      BY <1>2, <1>4 DEF MoneyInv, PartOf, Divisible
    <2>1. CASE p = o
      BY <1>1, <1>3, <1>4, <2>1 DEF MoneyInv
    <2>2. CASE p # o
      BY <1>1, <1>6, <2>2 DEF MoneyInv
    <2> QED
      BY <2>1, <2>2
  <1>13. FillsInv'
    <2>1. ASSUME NEW i \in 1..Len(fills'), NEW g, g = fills'[i] PROVE IsLacking(g)'
      <3>1. IsLacking(g) /\ g.order # o
        BY <1>1, <1>3, <2>1 DEF FillsInv
      <3>2. /\ g.order \in 1..Len(orders) /\ Active(g.order)
            /\ PartOf(book[g.order], FilledQuantity(g.order) + g.quantity,
                      FilledAmount(g.order) + g.quantity * g.price)
        BY <3>1 DEF IsLacking
      <3> QED
        BY <1>2, <1>4, <1>6, <3>1, <3>2 DEF IsLacking, PartOf, Divisible
    <2>2. ASSUME NEW i \in 1..Len(fills'), NEW j \in 1..Len(fills'), fills'[i].order = fills'[j].order
          PROVE  i = j
      <3>1. i + 1 = j + 1
        BY <1>1, <1>3, <2>2, SMTT(30) DEF FillsInv
      <3>2. Len(fills') \in Nat
        BY <1>3, LenProperties
      <3> QED
        BY <3>1, <3>2
    <2> QED
      BY <2>1, <2>2 DEF FillsInv
  <1> QED
    BY <1>10, <1>11, <1>12, <1>13 DEF BookInv

\* The steps there are.
LEMMA NextSteps ==
  ASSUME BookInv, [Next]_vars
  PROVE  \/ \E s \in Strategies, side \in {"buy", "sell"}, n \in 1..MaxUnits : SubmitOrder(s, side, n)
         \/ \E n \in DOMAIN book, p \in Prices : BrokerFill(n, p)
         \/ CollectFills
         \/ ProcessFill /\ ~Raises(Ledger, Head(fills))
         \/ FewerFills
  BY FewerFillsSteps DEF Next

LEMMA BookIsKept ==
  ASSUME BookInv, [Next]_vars
  PROVE  BookInv'
  <1>1. ASSUME NEW s \in Strategies, NEW side \in {"buy", "sell"}, NEW n \in 1..MaxUnits,
               SubmitOrder(s, side, n)
        PROVE  BookInv'
    BY <1>1, SubmitKeepsBook
  <1>2. ASSUME NEW n \in DOMAIN book, NEW p \in Prices, BrokerFill(n, p) PROVE BookInv'
    BY <1>2, BrokerFillKeepsBook
  <1>3. CASE CollectFills
    BY <1>3, CollectKeepsBook
  <1>4. CASE ProcessFill /\ ~Raises(Ledger, Head(fills))
    BY <1>4, BookingKeepsBook
  <1>5. CASE FewerFills
    BY <1>5, FewerFillsKeepBook
  <1> QED
    BY <1>1, <1>2, <1>3, <1>4, <1>5, NextSteps

-----------------------------------------------------------------------------
(***************************************************************************)
(* Lots and positions.                                                     *)
(***************************************************************************)
\* Only booking a fill changes them, and the executions.
LEMMA LotsChangeOnBooking ==
  ASSUME BookInv, [Next]_vars
  PROVE  \/ ProcessFill /\ ~Raises(Ledger, Head(fills))
         \/ lots' = lots /\ position' = position /\ executions' = executions
  <1>1. ASSUME NEW s \in Strategies, NEW side \in {"buy", "sell"}, NEW n \in 1..MaxUnits,
               SubmitOrder(s, side, n)
        PROVE  lots' = lots /\ position' = position /\ executions' = executions
    BY <1>1 DEF SubmitOrder, ledgerVars
  <1>2. ASSUME NEW n \in DOMAIN book, NEW p \in Prices, BrokerFill(n, p)
        PROVE  lots' = lots /\ position' = position /\ executions' = executions
    BY <1>2 DEF BrokerFill, ledgerVars
  <1>3. CASE CollectFills
    BY <1>3 DEF CollectFills, ledgerVars
  <1>4. CASE FewerFills
    BY <1>4 DEF FewerFills
  <1> QED
    BY <1>1, <1>2, <1>3, <1>4, NextSteps

\* The lots of a strategy against its position.
Explains(queue, held) ==
  /\ Sorted(queue) /\ Counted(queue)
  /\ held.quantity = LeftIn(queue) /\ held.cost = CostOf(queue)
  /\ \A i \in 1..Len(queue) : queue[i].left > 0 => queue[i].price <= held.highest

LEMMA LotsAreExplained == LotsInv <=> \A s \in Strategies : Explains(lots[s], position[s])
  BY DEF LotsInv, Explains

LEMMA AddedExplains ==
  ASSUME NEW queue \in Seq(Lot), NEW lot \in Lot, NEW held \in Holding, NEW now \in Holding,
         Explains(queue, held), lot.left = lot.open,
         now.quantity = held.quantity + lot.left, now.cost = held.cost + lot.left * lot.price,
         now.highest >= held.highest, now.highest >= lot.price
  PROVE  Explains(Added(queue, lot), now)
  <1> DEFINE all == Added(queue, lot)
  <1>1. /\ Sorted(queue) /\ Counted(queue)
        /\ held.quantity = LeftIn(queue) /\ held.cost = CostOf(queue)
        /\ \A i \in 1..Len(queue) : queue[i].left > 0 => queue[i].price <= held.highest
    BY DEF Explains
  <1>2. /\ LeftIn(all) = LeftIn(queue) + lot.left
        /\ CostOf(all) = CostOf(queue) + lot.left * lot.price
        /\ Counted(all) /\ Sorted(all)
    BY <1>1, AddedSums
  <1>3. PICK k : AddedAt(queue, lot, k)
    BY AddedIs
  <1>4. /\ k \in 0..Len(queue) /\ Len(all) = Len(queue) + 1 /\ Len(queue) \in Nat
        /\ \A i \in 1..k : all[i] = queue[i]
        /\ all[k + 1] = lot
        /\ \A i \in (k + 1)..Len(queue) : all[i + 1] = queue[i]
    BY <1>3, LotsAreCounted DEF AddedAt
  <1> HIDE DEF all
  <1>5. ASSUME NEW i \in 1..Len(all) PROVE all[i] = lot \/ \E j \in 1..Len(queue) : all[i] = queue[j]
    <2>1. CASE i \in 1..k
      BY <1>4, <2>1
    <2>2. CASE i = k + 1
      BY <1>4, <2>2
    <2>3. CASE i > k + 1
      <3>1. i - 1 \in (k + 1)..Len(queue) /\ i - 1 \in 1..Len(queue) /\ (i - 1) + 1 = i
        BY <1>4, <2>3
      <3> QED
        BY <1>4, <3>1
    <2> QED
      BY <1>4, <2>1, <2>2, <2>3
  <1>6. /\ held.highest \in Nat /\ now.highest \in Nat
        /\ \A j \in 1..Len(queue) : queue[j].price \in Nat
    BY LotsAreCounted DEF Holding
  <1>7. ASSUME NEW i \in 1..Len(all), all[i].left > 0 PROVE all[i].price <= now.highest
    BY <1>1, <1>5, <1>6, <1>7
  <1> QED
    BY <1>1, <1>2, <1>7 DEF Explains, all

LEMMA ConsumedExplains ==
  ASSUME NEW queue \in Seq(Lot), NEW n \in Nat, NEW held \in Holding, NEW now \in Holding,
         Explains(queue, held), n <= LeftIn(queue),
         now.quantity = IF n < held.quantity THEN held.quantity - n ELSE 0,
         now.cost = IF n < held.quantity THEN CostOf(Consumed(queue, n)) ELSE 0,
         now.highest = held.highest
  PROVE  Explains(Consumed(queue, n), now)
  <1> DEFINE rest == Consumed(queue, n)
  <1>1. /\ Sorted(queue) /\ Counted(queue)
        /\ held.quantity = LeftIn(queue) /\ held.cost = CostOf(queue)
        /\ \A i \in 1..Len(queue) : queue[i].left > 0 => queue[i].price <= held.highest
    BY DEF Explains
  <1>2. Sorted(rest) /\ Counted(rest)
    BY <1>1, ConsumedKeeps
  <1>3. /\ rest \in Seq(Lot) /\ Len(rest) = Len(queue)
        /\ \A i \in 1..Len(queue) : /\ rest[i].price = queue[i].price /\ rest[i].left \in Nat
                                    /\ rest[i].left + Taken(queue, n)[i] = queue[i].left
    BY ConsumedIs
  <1>4. \A i \in 1..Len(queue) : Taken(queue, n)[i] \in Nat
    BY TakenInAll
  <1>5. LeftIn(rest) + n = LeftIn(queue) /\ LeftIn(queue) \in Nat
    BY SaleIsTaken, LotsAreCounted
  <1> HIDE DEF rest
  <1>6. LeftIn(rest) \in Nat /\ CostOf(rest) \in Nat /\ (LeftIn(rest) = 0 => CostOf(rest) = 0)
    BY <1>3, LotsAreCounted, NoUnitsNoCost
  <1>7. now.quantity = LeftIn(rest)
    BY <1>1, <1>5, <1>6
  <1>8. now.cost = CostOf(rest)
    <2>1. CASE n < held.quantity
      BY <2>1 DEF rest
    <2>2. CASE ~(n < held.quantity)
      BY <1>1, <1>5, <1>6, <2>2
    <2> QED
      BY <2>1, <2>2
  <1>9. ASSUME NEW i \in 1..Len(rest), rest[i].left > 0 PROVE rest[i].price <= now.highest
    <2>1. i \in 1..Len(queue) /\ queue[i].left > 0
      BY <1>3, <1>4, <1>9
    <2> QED
      BY <1>1, <1>3, <2>1
  <1> QED
    BY <1>2, <1>7, <1>8, <1>9 DEF Explains, rest

LEMMA LotsAreKept ==
  ASSUME BookInv, LotsInv, [Next]_vars
  PROVE  LotsInv'
  <1>1. CASE lots' = lots /\ position' = position
    BY <1>1 DEF LotsInv
  <1>2. CASE ProcessFill /\ ~Raises(Ledger, Head(fills))
    <2> PICK f : f = Head(fills)
      OBVIOUS
    <2> PICK o : o = f.order
      OBVIOUS
    <2> PICK s : s = orders[o].strategy
      OBVIOUS
    <2> PICK lot : lot = [at |-> f.at, price |-> f.price, open |-> f.quantity, left |-> f.quantity]
      OBVIOUS
    <2>1. s \in Strategies /\ f.quantity \in Nat \ {0}
      <3>1. s \in Strategies /\ f \in Filling
        BY <1>2, BookingRows
      <3> QED
        BY <3>1 DEF Filling
    <2>2. /\ lots \in [Strategies -> Seq(Lot)] /\ position \in [Strategies -> Holding] /\ lot \in Lot
          /\ lots' \in [Strategies -> Seq(Lot)] /\ position' \in [Strategies -> Holding]
          /\ \A t \in Strategies : t # s => lots'[t] = lots[t] /\ position'[t] = position[t]
      BY <1>2, BookingLots
    <2>3. \A t \in Strategies : Explains(lots[t], position[t])
      BY LotsAreExplained
    <2>4. CASE orders[o].side = "buy"
      <3>1. /\ lots'[s] = Added(lots[s], lot)
            /\ position'[s].quantity = position[s].quantity + lot.left
            /\ position'[s].cost = position[s].cost + lot.left * lot.price
            /\ position'[s].highest >= position[s].highest /\ position'[s].highest >= lot.price
            /\ lot.left = lot.open
        BY <1>2, <2>4, BookingLots, SMTT(30)
      <3>2. Explains(lots'[s], position'[s])
        <4> DEFINE queue == lots[s]
                   held == position[s]
                   now == position'[s]
        <4>1. /\ queue \in Seq(Lot) /\ lot \in Lot /\ held \in Holding /\ now \in Holding
              /\ Explains(queue, held) /\ lot.left = lot.open
              /\ now.quantity = held.quantity + lot.left /\ now.cost = held.cost + lot.left * lot.price
              /\ now.highest >= held.highest /\ now.highest >= lot.price
          BY <2>1, <2>2, <2>3, <3>1
        <4> HIDE DEF queue, held, now
        <4>2. Explains(Added(queue, lot), now)
          BY ONLY <4>1, AddedExplains
        <4> QED
          BY <3>1, <4>2 DEF queue, now
      <3> QED
        BY <2>2, <2>3, <3>2, ZenonT(20) DEF LotsInv, Explains
    <2>5. CASE orders[o].side # "buy"
      <3>1. /\ f.quantity <= LeftIn(lots[s])
            /\ lots'[s] = Consumed(lots[s], f.quantity)
            /\ position'[s].highest = position[s].highest
            /\ position'[s].quantity = IF f.quantity < position[s].quantity
                                       THEN position[s].quantity - f.quantity ELSE 0
            /\ position'[s].cost = IF f.quantity < position[s].quantity
                                   THEN CostOf(Consumed(lots[s], f.quantity)) ELSE 0
        BY <1>2, <2>5, BookingLots, SMTT(30)
      <3>2. Explains(lots'[s], position'[s])
        <4>1. lots[s] \in Seq(Lot) /\ position[s] \in Holding /\ position'[s] \in Holding
          BY <2>1, <2>2
        <4> DEFINE queue == lots[s]
                   held == position[s]
                   now == position'[s]
                   n == f.quantity
        <4>2. /\ queue \in Seq(Lot) /\ n \in Nat /\ held \in Holding /\ now \in Holding
              /\ Explains(queue, held) /\ n <= LeftIn(queue)
              /\ now.quantity = (IF n < held.quantity THEN held.quantity - n ELSE 0)
              /\ now.cost = (IF n < held.quantity THEN CostOf(Consumed(queue, n)) ELSE 0)
              /\ now.highest = held.highest
          BY <2>1, <2>3, <3>1, <4>1
        <4> HIDE DEF queue, held, now, n
        <4>3. Explains(Consumed(queue, n), now)
          BY ONLY <4>2, ConsumedExplains
        <4> QED
          BY <3>1, <4>3 DEF queue, now, n
      <3> QED
        BY <2>2, <2>3, <3>2 DEF LotsInv, Explains
    <2> QED
      BY <2>4, <2>5
  <1> QED
    BY <1>1, <1>2, LotsChangeOnBooking

-----------------------------------------------------------------------------
(***************************************************************************)
(* Lots and sells in time.                                                 *)
(***************************************************************************)
\* A lot at the end.
LEMMA AppendedLot ==
  ASSUME NEW queue \in Seq(Lot), NEW lot \in Lot
  PROVE  /\ Append(queue, lot) \in Seq(Lot) /\ Len(Append(queue, lot)) = Len(queue) + 1
         /\ DOMAIN Append(queue, lot) = 1..(Len(queue) + 1) /\ Len(queue) \in Nat
         /\ \A i \in 1..Len(queue) : Append(queue, lot)[i] = queue[i]
         /\ Append(queue, lot)[Len(queue) + 1] = lot
  <1>1. /\ Append(queue, lot) \in Seq(Lot) /\ Len(Append(queue, lot)) = Len(queue) + 1
        /\ \A i \in 1..Len(queue) : Append(queue, lot)[i] = queue[i]
        /\ Append(queue, lot)[Len(queue) + 1] = lot
    BY AppendProperties
  <1> QED
    BY <1>1, LenProperties

\* Two sequences of lots with the same elements.
LEMMA SameLots ==
  ASSUME NEW queue \in Seq(Lot), NEW other \in Seq(Lot), Len(queue) = Len(other),
         \A i \in 1..Len(queue) : queue[i] = other[i]
  PROVE  queue = other
  <1>1. /\ queue = [i \in 1..Len(queue) |-> queue[i]] /\ other = [i \in 1..Len(queue) |-> other[i]]
    BY LenProperties
  <1> QED
    BY <1>1

LEMMA AppendedEntry ==
  ASSUME NEW sales \in Seq(Entry), NEW e \in Entry
  PROVE  /\ Append(sales, e) \in Seq(Entry) /\ Len(Append(sales, e)) = Len(sales) + 1
         /\ \A i \in 1..Len(sales) : Append(sales, e)[i] = sales[i]
         /\ Append(sales, e)[Len(sales) + 1] = e
  BY AppendProperties

\* A lot that is not older than the others comes last.
LEMMA AddedLast ==
  ASSUME NEW queue \in Seq(Lot), NEW lot \in Lot, Sorted(queue),
         \A i \in 1..Len(queue) : queue[i].at <= lot.at
  PROVE  Added(queue, lot) = Append(queue, lot)
  <1>1. PICK k : AddedAt(queue, lot, k)
    BY AddedIs
  <1>2. /\ Len(queue) \in Nat /\ k \in 0..Len(queue)
        /\ Added(queue, lot) \in Seq(Lot) /\ Len(Added(queue, lot)) = Len(queue) + 1
        /\ \A i \in 1..k : Added(queue, lot)[i] = queue[i]
        /\ Added(queue, lot)[k + 1] = lot
        /\ \A i \in 1..Len(queue) : i <= k
    BY <1>1, LotsAreCounted DEF AddedAt
  <1>3. k = Len(queue)
    <2>1. Len(queue) # 0 => Len(queue) \in 1..Len(queue)
      BY <1>2
    <2> QED
      BY <1>2, <2>1
  <1>4. /\ Append(queue, lot) \in Seq(Lot) /\ Len(Append(queue, lot)) = Len(queue) + 1
        /\ \A i \in 1..Len(queue) : Append(queue, lot)[i] = queue[i]
        /\ Append(queue, lot)[Len(queue) + 1] = lot
    BY AppendedLot
  <1>5. \A i \in 1..(Len(queue) + 1) : i \in 1..Len(queue) \/ i = Len(queue) + 1
    BY <1>2
  <1>6. \A i \in 1..(Len(queue) + 1) : Added(queue, lot)[i] = Append(queue, lot)[i]
    BY <1>2, <1>3, <1>4, <1>5
  <1> QED
    BY <1>2, <1>4, <1>6, SameLots

IsSell(rows, entries, s, o, e) ==
  rows[o].strategy = s /\ rows[o].side = "sell" /\ \E i \in DOMAIN entries[o] : e = entries[o][i]

LEMMA SellsInIs ==
  ASSUME NEW rows, NEW entries, NEW s, NEW n, DOMAIN rows = 1..n, NEW e
  PROVE  e \in SellsIn(rows, entries, s) <=> \E o \in 1..n : IsSell(rows, entries, s, o, e)
  BY DEF SellsIn, IsSell, ToSet

LEMMA SellsAreEntries ==
  ASSUME TablesInv, RowsInv, NEW s
  PROVE  SellsOf(s) \in SUBSET Entry
  <1> SUFFICES ASSUME NEW e \in SellsOf(s) PROVE e \in Entry
    OBVIOUS
  <1>1. DOMAIN orders = 1..Len(orders)
    BY LenProperties DEF TablesInv
  <1>2. PICK o \in 1..Len(orders) : IsSell(orders, executions, s, o, e)
    BY <1>1, SellsInIs DEF SellsOf
  <1>3. executions[o] \in Seq(Entry)
    BY OrderFacts
  <1> QED
    BY <1>2, <1>3, EntriesAreCounted DEF IsSell

LEMMA SubmitSells ==
  ASSUME BookInv, NEW s \in Strategies, NEW side \in {"buy", "sell"}, NEW n \in 1..MaxUnits,
         SubmitOrder(s, side, n), NEW t
  PROVE  SellsOf(t)' = SellsOf(t)
  <1> PICK row : row = [strategy |-> s, side |-> side, quantity |-> n,
                        status |-> "submitted", number |-> Len(book) + 1,
                        orgno |-> Len(book) + 1 \in OrgnoInAnswer]
    OBVIOUS
  <1> PICK m : m = Len(orders)
    OBVIOUS
  <1>1. orders' = Append(orders, row) /\ executions' = executions /\ m < MaxOrders
    BY DEF SubmitOrder, ledgerVars
  <1>2. TablesInv /\ RowsInv
    BY DEF BookInv
  <1>3. /\ m \in Nat /\ Len(book) = m /\ n \in Nat \ {0} /\ MaxOrders \in Nat
        /\ orders \in Seq(Row) /\ DOMAIN orders = 1..m
    BY <1>2, LenProperties, FillLedgerAssumption DEF TablesInv, RowsInv
  <1>4. row \in Row
    BY <1>3 DEF Row
  <1>5. /\ orders' \in Seq(Row) /\ Len(orders') = m + 1 /\ \A o \in 1..m : orders'[o] = orders[o]
    BY <1>1, <1>3, <1>4, AppendProperties
  <1>6. DOMAIN orders' = 1..(m + 1)
    BY <1>5, LenProperties
  <1>7. executions[m + 1] = <<>>
    <2>1. m + 1 \in Ids /\ m + 1 > Len(orders)
      BY <1>1, <1>3 DEF Ids
    <2> QED
      BY <1>2, <2>1 DEF RowsInv
  <1>8. \A o \in 1..(m + 1) : o \in 1..m \/ o = m + 1
    BY <1>3
  <1>9. \A o \in 1..m : o \in 1..(m + 1)
    BY <1>3
  <1>10. ASSUME NEW e PROVE e \in SellsIn(orders', executions, t) <=> e \in SellsIn(orders, executions, t)
    <2>1. e \in SellsIn(orders', executions, t) <=> \E o \in 1..(m + 1) : IsSell(orders', executions, t, o, e)
      BY <1>6, SellsInIs
    <2>2. e \in SellsIn(orders, executions, t) <=> \E o \in 1..m : IsSell(orders, executions, t, o, e)
      BY <1>3, SellsInIs
    <2>3. ~IsSell(orders', executions, t, m + 1, e)
      BY <1>7 DEF IsSell
    <2>4. \A o \in 1..m : IsSell(orders', executions, t, o, e) <=> IsSell(orders, executions, t, o, e)
      BY <1>5, Zenon DEF IsSell
    <2> QED
      BY <1>8, <1>9, <2>1, <2>2, <2>3, <2>4
  <1> QED
    BY <1>1, <1>10 DEF SellsOf

\* The execution that a fill is booked as.
LEMMA BookingSells ==
  ASSUME BookInv, ProcessFill, ~Raises(Ledger, Head(fills)),
         NEW f, f = Head(fills), NEW o, o = f.order, NEW s, s = orders[o].strategy,
         NEW e, e = [no |-> f.no, quantity |-> f.quantity, price |-> f.price, at |-> f.at,
                     basis |-> IF orders[o].side = "buy" THEN 0 ELSE CostBasis(lots[s], f.quantity)]
  PROVE  /\ e \in Entry
         /\ \A t : t # s \/ orders[o].side = "buy" => SellsOf(t)' = SellsOf(t)
         /\ orders[o].side # "buy" => SellsOf(s)' = SellsOf(s) \cup {e}
  <1> PICK m : m = Len(orders)
    OBVIOUS
  <1>1. TablesInv /\ RowsInv
    BY DEF BookInv
  <1>2. /\ o \in 1..m /\ f \in Filling /\ Len(orders') = m /\ orders' \in Seq(Row)
        /\ \A p \in 1..m : p # o => orders'[p] = orders[p] /\ executions'[p] = executions[p]
        /\ orders'[o] = [orders[o] EXCEPT !.status = StatusAfter(orders[o], FilledQuantity(o) + f.quantity)]
        /\ orders[o].side # "buy" => CostBasis(lots[s], f.quantity) \in Nat
    BY BookingRows
  <1>3. /\ orders[o] \in Row /\ o \in Ids /\ executions \in [Ids -> Seq(Entry)] /\ executions[o] \in Seq(Entry)
        /\ orders[o].side \in {"buy", "sell"}
    BY <1>1, <1>2, OrderFacts, Zenon DEF TablesInv
  <1>4. executions' = [executions EXCEPT ![o] = Append(@, e)]
    BY BookingIs
  <1>5. executions'[o] = Append(executions[o], e)
    BY <1>3, <1>4
  <1>6. e \in Entry
    BY <1>2 DEF Entry, Filling
  <1>7. /\ orders'[o].strategy = s /\ orders'[o].side = orders[o].side
    BY <1>2, <1>3 DEF Row
  <1>8. DOMAIN orders = 1..m /\ DOMAIN orders' = 1..m
    BY <1>1, <1>2, LenProperties DEF TablesInv
  <1>9. ASSUME NEW t, NEW x
        PROVE  /\ x \in SellsOf(t) <=> \E p \in 1..m : IsSell(orders, executions, t, p, x)
               /\ x \in SellsOf(t)' <=> \E p \in 1..m : IsSell(orders', executions', t, p, x)
               /\ \A p \in 1..m : p # o => (IsSell(orders', executions', t, p, x) <=> IsSell(orders, executions, t, p, x))
    <2>1. x \in SellsIn(orders, executions, t) <=> \E p \in 1..m : IsSell(orders, executions, t, p, x)
      BY <1>8, SellsInIs
    <2>2. x \in SellsIn(orders', executions', t) <=> \E p \in 1..m : IsSell(orders', executions', t, p, x)
      BY <1>8, SellsInIs
    <2>3. \A p \in 1..m : p # o => (IsSell(orders', executions', t, p, x) <=> IsSell(orders, executions, t, p, x))
      BY <1>2 DEF IsSell
    <2> QED
      BY <2>1, <2>2, <2>3 DEF SellsOf
  <1>10. ASSUME NEW t, t # s \/ orders[o].side = "buy" PROVE SellsOf(t)' = SellsOf(t)
    <2>1. ASSUME NEW x PROVE ~IsSell(orders', executions', t, o, x) /\ ~IsSell(orders, executions, t, o, x)
      BY <1>7, <1>10 DEF IsSell
    <2>2. \A x : x \in SellsOf(t)' <=> x \in SellsOf(t)
      BY <1>9, <2>1
    <2> QED
      BY <2>2
  <1>11. ASSUME orders[o].side # "buy" PROVE SellsOf(s)' = SellsOf(s) \cup {e}
    <2>1. orders[o].side = "sell" /\ orders'[o].side = "sell"
      BY <1>3, <1>7, <1>11
    <2> PICK entries : entries = executions[o]
      OBVIOUS
    <2> PICK n : n = Len(entries)
      OBVIOUS
    <2> PICK more : more = executions'[o]
      OBVIOUS
    <2>2. entries \in Seq(Entry) /\ e \in Entry /\ more = Append(entries, e) /\ n = Len(entries)
      BY <1>3, <1>5, <1>6
    <2>3. /\ more \in Seq(Entry) /\ Len(more) = n + 1 /\ more[n + 1] = e
          /\ \A i \in 1..n : more[i] = entries[i]
      BY ONLY <2>2, AppendedEntry
    <2>4. ASSUME NEW x PROVE IsSell(orders', executions', s, o, x) <=> IsSell(orders, executions, s, o, x) \/ x = e
      <3>1. n \in Nat /\ DOMAIN entries = 1..n /\ DOMAIN more = 1..(n + 1)
        BY <2>2, <2>3, EntriesAreCounted
      <3>2. /\ n + 1 \in 1..(n + 1) /\ \A i \in 1..n : i \in 1..(n + 1)
            /\ \A i \in 1..(n + 1) : i \in 1..n \/ i = n + 1
        BY ONLY <3>1
      <3>3. IsSell(orders', executions', s, o, x) <=> \E i \in 1..(n + 1) : x = more[i]
        BY <1>7, <2>1, <3>1 DEF IsSell
      <3>4. IsSell(orders, executions, s, o, x) <=> \E i \in 1..n : x = entries[i]
        BY <2>1, <3>1 DEF IsSell
      <3>5. (\E i \in 1..(n + 1) : x = more[i]) <=> (\E i \in 1..n : x = entries[i]) \/ x = e
        BY ONLY <2>3, <3>2
      <3> QED
        BY ONLY <3>3, <3>4, <3>5
    <2>5. \A x : x \in SellsOf(s)' <=> x \in SellsOf(s) \/ x = e
      BY <1>2, <1>9, <2>4
    <2> QED
      BY <2>5
  <1> QED
    BY <1>6, <1>10, <1>11

\* Steps that book nothing.
LEMMA NothingBooked ==
  ASSUME lots' = lots, NEW s, SellsOf(s)' = SellsOf(s), NEW at
  PROVE  NewerThan(s, at)' <=> NewerThan(s, at)
  BY DEF NewerThan

LEMMA SameSells ==
  ASSUME orders' = orders, executions' = executions, NEW s
  PROVE  SellsOf(s)' = SellsOf(s)
  BY DEF SellsOf

LEMMA NewerLater ==
  ASSUME TablesInv, RowsInv, NEW s \in Strategies, NewerThan(s, clock + 1)
  PROVE  NewerThan(s, (clock + 1) + 1)
  <1>1. clock \in Nat /\ lots[s] \in Seq(Lot)
    BY DEF TablesInv
  <1>2. \A i \in 1..Len(lots[s]) : lots[s][i].at \in Nat
    BY <1>1, LotsAreCounted
  <1>3. \A e \in SellsOf(s) : e.at \in Nat
    <2>1. SellsOf(s) \in SUBSET Entry
      BY SellsAreEntries
    <2> QED
      BY <2>1 DEF Entry
  <1>4. \A x \in Nat : x < clock + 1 => x < (clock + 1) + 1
    BY <1>1
  <1> QED
    BY <1>2, <1>3, <1>4 DEF NewerThan

LEMMA InitTime ==
  ASSUME Init
  PROVE  TimeInv /\ \A s : SellsOf(s) = {}
  <1>1. /\ orders = <<>> /\ fills = <<>> /\ lots = [s \in Strategies |-> <<>>]
    BY DEF Init
  <1>2. DOMAIN orders = {} /\ Len(orders) = 0 /\ Len(fills) = 0 /\ 1..0 = {}
    BY <1>1
  <1>3. \A s : SellsOf(s) = {}
    BY <1>2 DEF SellsOf, SellsIn
  <1>4. ASSUME NEW s \in Strategies PROVE UsedInOrder(lots[s]) /\ NewerThan(s, clock + 1)
    <2>1. lots[s] = <<>>
      BY <1>1
    <2>2. Len(lots[s]) = 0
      BY <2>1
    <2> QED
      BY <1>2, <1>3, <2>2 DEF NewerThan, UsedInOrder
  <1> QED
    BY <1>2, <1>3, <1>4 DEF TimeInv

LEMMA SubmitKeepsTime ==
  ASSUME BookInv, TimeInv, NEW s \in Strategies, NEW side \in {"buy", "sell"}, NEW n \in 1..MaxUnits,
         SubmitOrder(s, side, n)
  PROVE  TimeInv'
  <1> PICK row : row = [strategy |-> s, side |-> side, quantity |-> n,
                        status |-> "submitted", number |-> Len(book) + 1,
                        orgno |-> Len(book) + 1 \in OrgnoInAnswer]
    OBVIOUS
  <1> PICK m : m = Len(orders)
    OBVIOUS
  <1>1. /\ orders' = Append(orders, row) /\ book' = Append(book, Booking(side, n))
        /\ executions' = executions /\ lots' = lots /\ clock' = clock /\ fills' = fills
    BY DEF SubmitOrder, ledgerVars
  <1>2. TablesInv /\ RowsInv /\ FillsInv
    BY DEF BookInv
  <1>3. /\ m \in Nat /\ Len(book) = m /\ n \in Nat \ {0} /\ clock \in Nat
        /\ orders \in Seq(Row) /\ book \in Seq(BookRow)
    BY <1>2, LenProperties, FillLedgerAssumption DEF TablesInv, RowsInv
  <1>4. row \in Row /\ Booking(side, n) \in BookRow
    BY <1>3 DEF Row, BookRow, Booking
  <1>5. /\ Len(orders') = m + 1 /\ \A o \in 1..m : orders'[o] = orders[o]
        /\ Len(book') = m + 1 /\ \A o \in 1..m : book'[o] = book[o]
        /\ book'[m + 1] = Booking(side, n)
    BY <1>1, <1>3, <1>4, AppendProperties
  <1>6. \A o \in 1..m : FilledQuantity(o)' = FilledQuantity(o)
    BY <1>1, <1>5, SameOrder
  <1>7. FilledQuantity(m + 1)' \in Nat
    <2>1. m + 1 \in Ids
      BY <1>1, <1>3, FillLedgerAssumption DEF SubmitOrder, Ids
    <2>2. executions'[m + 1] \in Seq(Entry)
      BY <1>1, <1>2, <2>1 DEF TablesInv
    <2> QED
      BY <2>2, EntriesAreCounted DEF FilledQuantity
  <1>8. \A o \in 1..(m + 1) : o \in 1..m \/ o = m + 1
    BY <1>3
  <1>9. \A t, at : NewerThan(t, at)' <=> NewerThan(t, at)
    BY <1>1, SubmitSells, NothingBooked
  <1>10. ASSUME NEW t \in Strategies PROVE UsedInOrder(lots'[t]) /\ NewerThan(t, clock + 1)'
    BY <1>1, <1>9 DEF TimeInv
  <1>11. ASSUME NEW o \in 1..Len(orders') PROVE OrderIsNewer(o)'
    <2>1. CASE o \in 1..m
      <3> PICK t : t = orders[o].strategy
        OBVIOUS
      <3> PICK at : at = book[o].at
        OBVIOUS
      <3>1. at <= clock /\ (FilledQuantity(o) < book[o].filled => NewerThan(t, at))
        BY <2>1 DEF TimeInv, OrderIsNewer
      <3>2. orders'[o].strategy = t /\ book'[o] = book[o] /\ FilledQuantity(o)' = FilledQuantity(o)
        BY <1>5, <1>6, <2>1
      <3>3. NewerThan(t, at) => NewerThan(t, at)'
        BY <1>9
      <3> QED
        BY <1>1, <3>1, <3>2, <3>3 DEF OrderIsNewer
    <2>2. CASE o = m + 1
      <3>1. ~(FilledQuantity(o)' < book'[o].filled) /\ book'[o].at <= clock
        BY <1>3, <1>5, <1>7, <2>2 DEF Booking
      <3> QED
        BY <1>1, <3>1 DEF OrderIsNewer
    <2> QED
      BY <1>5, <1>8, <2>1, <2>2
  <1>12. ASSUME NEW i \in 1..Len(fills), NEW f, f = fills[i] PROVE FillIsNewer(f)'
    <2>1. FillIsNewer(f) /\ f.order \in 1..m
      BY <1>2, <1>12 DEF TimeInv, FillsInv, IsLacking
    <2> PICK o : o = f.order
      OBVIOUS
    <2> PICK t : t = orders[o].strategy
      OBVIOUS
    <2> PICK at : at = f.at
      OBVIOUS
    <2>2. /\ orders'[o].strategy = t /\ book'[o] = book[o] /\ FilledQuantity(o)' = FilledQuantity(o)
      BY <1>5, <1>6, <2>1
    <2>3. NewerThan(t, at)'
      BY <1>9, <2>1 DEF FillIsNewer
    <2> QED
      BY <1>1, <2>1, <2>2, <2>3 DEF FillIsNewer
  <1> QED
    BY <1>1, <1>10, <1>11, <1>12 DEF TimeInv

LEMMA BrokerFillKeepsTime ==
  ASSUME BookInv, TimeInv, NEW n \in DOMAIN book, NEW p \in Prices, BrokerFill(n, p)
  PROVE  TimeInv'
  <1>1. /\ orders' = orders /\ executions' = executions /\ lots' = lots /\ fills' = fills
        /\ clock' = clock + 1 /\ clock \in Nat /\ n \in 1..Len(orders) /\ Len(book') = Len(book)
        /\ book'[n].at = clock + 1 /\ book'[n].filled = book[n].filled + 1
        /\ \A o \in 1..Len(orders) : o # n => book'[o] = book[o]
    BY BrokerFillIs, ZenonT(20)
  <1>2. TablesInv /\ RowsInv /\ FillsInv
    BY DEF BookInv
  <1>3. \A o : FilledQuantity(o)' = FilledQuantity(o)
    BY <1>1, SameOrder
  <1>4. \A t, at : NewerThan(t, at)' <=> NewerThan(t, at)
    BY <1>1, SameSells, NothingBooked
  <1>5. \A t \in Strategies : UsedInOrder(lots[t]) /\ NewerThan(t, clock + 1)
    BY DEF TimeInv
  <1>6. ASSUME NEW t \in Strategies PROVE UsedInOrder(lots'[t]) /\ NewerThan(t, clock + 1)'
    <2>1. NewerThan(t, (clock + 1) + 1)
      BY <1>2, <1>5, NewerLater
    <2> PICK at : at = (clock + 1) + 1
      OBVIOUS
    <2>2. NewerThan(t, at)'
      BY <1>4, <2>1
    <2>3. at = clock' + 1
      BY <1>1
    <2> QED
      BY <1>1, <1>5, <2>2, <2>3
  <1>7. ASSUME NEW o \in 1..Len(orders) PROVE OrderIsNewer(o)'
    <2> PICK t : t = orders[o].strategy
      OBVIOUS
    <2>1. t \in Strategies /\ book[o].at \in Nat
      BY <1>2, OrderFacts
    <2> PICK now : now = clock + 1
      OBVIOUS
    <2>2. CASE o = n
      <3>1. NewerThan(t, now)'
        BY <1>4, <1>5, <2>1
      <3>2. now <= now
        BY <1>1
      <3> QED
        BY <1>1, <2>2, <3>1, <3>2 DEF OrderIsNewer
    <2>3. CASE o # n
      <3> PICK at : at = book[o].at
        OBVIOUS
      <3>1. OrderIsNewer(o) /\ book'[o] = book[o]
        BY <1>1, <2>3 DEF TimeInv
      <3>2. NewerThan(t, at) => NewerThan(t, at)'
        BY <1>4
      <3>3. at <= clock + 1
        BY <1>1, <2>1, <3>1 DEF OrderIsNewer
      <3> QED
        BY <1>1, <1>3, <3>1, <3>2, <3>3 DEF OrderIsNewer
    <2> QED
      BY <2>2, <2>3
  <1>8. ASSUME NEW i \in 1..Len(fills), NEW f, f = fills[i] PROVE FillIsNewer(f)'
    <2> PICK o : o = f.order
      OBVIOUS
    <2> PICK t : t = orders[o].strategy
      OBVIOUS
    <2> PICK at : at = f.at
      OBVIOUS
    <2>1. FillIsNewer(f) /\ o \in 1..Len(orders)
      BY <1>2, <1>8 DEF TimeInv, FillsInv, IsLacking
    <2>2. NewerThan(t, at)'
      BY <1>4, <2>1 DEF FillIsNewer
    <2>3. at < clock + 1 /\ at <= clock + 1
      <3>1. f \in Filling
        BY <1>2, <1>8, ElementOfSeq DEF TablesInv
      <3>2. at \in Nat /\ at <= clock
        BY <2>1, <3>1 DEF Filling, FillIsNewer
      <3> QED
        BY <1>1, <3>2
    <2>4. FilledQuantity(o) + f.quantity < book'[o].filled => at < book'[o].at
      <3>1. CASE o = n
        BY <1>1, <2>3, <3>1
      <3>2. CASE o # n
        <4>1. book'[o] = book[o]
          BY <1>1, <2>1, <3>2
        <4> QED
          BY <2>1, <4>1 DEF FillIsNewer
      <3> QED
        BY <3>1, <3>2
    <2> QED
      BY <1>1, <1>3, <2>2, <2>3, <2>4 DEF FillIsNewer
  <1> QED
    BY <1>1, <1>6, <1>7, <1>8 DEF TimeInv

\* Steps that change the fills at hand alone.
LEMMA FillsAlone ==
  ASSUME BookInv, TimeInv, orders' = orders, executions' = executions, lots' = lots, book' = book,
         clock' = clock, \A i \in 1..Len(fills') : FillIsNewer(fills'[i])
  PROVE  TimeInv'
  <1>1. \A o : FilledQuantity(o)' = FilledQuantity(o)
    BY SameOrder
  <1>2. \A t, at : NewerThan(t, at)' <=> NewerThan(t, at)
    BY SameSells, NothingBooked
  <1>3. ASSUME NEW t \in Strategies PROVE UsedInOrder(lots'[t]) /\ NewerThan(t, clock + 1)'
    BY <1>2 DEF TimeInv
  <1>4. ASSUME NEW o \in 1..Len(orders) PROVE OrderIsNewer(o)'
    <2> PICK t : t = orders[o].strategy
      OBVIOUS
    <2> PICK at : at = book[o].at
      OBVIOUS
    <2>1. OrderIsNewer(o)
      BY DEF TimeInv
    <2>2. NewerThan(t, at) => NewerThan(t, at)'
      BY <1>2
    <2> QED
      BY <1>1, <2>1, <2>2 DEF OrderIsNewer
  <1>5. ASSUME NEW i \in 1..Len(fills'), NEW f, f = fills'[i] PROVE FillIsNewer(f)'
    <2> PICK t : t = orders[f.order].strategy
      OBVIOUS
    <2> PICK at : at = f.at
      OBVIOUS
    <2>1. FillIsNewer(f)
      BY <1>5
    <2>2. NewerThan(t, at)'
      BY <1>2, <2>1 DEF FillIsNewer
    <2> QED
      BY <1>1, <2>1, <2>2 DEF FillIsNewer
  <1> QED
    BY <1>3, <1>4, <1>5 DEF TimeInv

LEMMA CollectKeepsTime ==
  ASSUME BookInv, TimeInv, CollectFills
  PROVE  TimeInv'
  <1>1. /\ orders' = orders /\ executions' = executions /\ lots' = lots /\ book' = book /\ clock' = clock
    BY CollectIs
  <1>2. ASSUME NEW i \in 1..Len(fills'), NEW f, f = fills'[i] PROVE FillIsNewer(f)
    <2> PICK o : o = f.order
      OBVIOUS
    <2>1. o \in 1..Len(orders) /\ HasFill(o) /\ f = FillOf(o)
      BY <1>2, CollectIs
    <2>2. f.at = book[o].at /\ FilledQuantity(o) < book[o].filled /\ FilledQuantity(o) + f.quantity = book[o].filled
      BY <2>1, FillOfIs
    <2>3. f.at <= clock /\ NewerThan(orders[o].strategy, f.at)
      BY <2>1, <2>2 DEF TimeInv, OrderIsNewer
    <2>4. ~(FilledQuantity(o) + f.quantity < book[o].filled)
      <3>1. book[o].filled \in Nat
        BY <2>1, OrderFacts DEF BookInv
      <3> QED
        BY ONLY <2>2, <3>1
    <2> QED
      BY <2>3, <2>4 DEF FillIsNewer
  <1> QED
    BY <1>1, <1>2, FillsAlone

LEMMA FewerFillsKeepTime ==
  ASSUME BookInv, TimeInv, FewerFills
  PROVE  TimeInv'
  <1>1. /\ orders' = orders /\ executions' = executions /\ lots' = lots /\ book' = book /\ clock' = clock
    BY DEF FewerFills
  <1>2. fills \in Seq(Filling)
    BY DEF BookInv, TablesInv
  <1>3. PICK d \in 0..1 :
          \A i \in 1..Len(fills') : i + d \in 1..Len(fills) /\ fills'[i] = fills[i + d]
    BY <1>2, FewerFillsIs
  <1>4. \A i \in 1..Len(fills') : FillIsNewer(fills'[i])
    BY <1>3 DEF TimeInv
  <1> QED
    BY <1>1, <1>4, FillsAlone

\* Only an order that is not filled has something at the broker to be booked.
LEMMA LackingIsActive ==
  ASSUME BookInv, NEW p \in 1..Len(orders), FilledQuantity(p) < book[p].filled
  PROVE  Active(p)
  <1>1. TablesInv /\ RowsInv /\ MoneyInv
    BY DEF BookInv
  <1>2. /\ FilledQuantity(p) \in Nat /\ book[p].filled \in Nat /\ book[p].quantity \in Nat
        /\ book[p].filled <= book[p].quantity /\ orders[p].quantity = book[p].quantity
    BY <1>1, OrderFacts DEF MoneyInv, RowsInv
  <1>3. FilledQuantity(p) < orders[p].quantity
    BY <1>2
  <1> QED
    BY <1>1, <1>3 DEF RowsInv

\* Lots before a time.
Before(queue, at) == \A i \in 1..Len(queue) : queue[i].at < at

LEMMA ConsumedBefore ==
  ASSUME NEW queue \in Seq(Lot), NEW n \in Nat, n <= LeftIn(queue), UsedInOrder(queue),
         NEW at, Before(queue, at)
  PROVE  UsedInOrder(Consumed(queue, n)) /\ Before(Consumed(queue, n), at)
  <1> PICK rest : rest = Consumed(queue, n)
    OBVIOUS
  <1>1. Len(rest) = Len(queue) /\ \A i \in 1..Len(queue) : rest[i].at = queue[i].at
    BY ConsumedIs
  <1>2. Before(rest, at)
    BY <1>1 DEF Before
  <1>3. UsedInOrder(rest)
    BY ConsumedKeeps
  <1> QED
    BY <1>2, <1>3

LEMMA AppendedBefore ==
  ASSUME NEW queue \in Seq(Lot), NEW lot \in Lot, lot.left = lot.open, UsedInOrder(queue),
         NEW at, Before(queue, at), lot.at < at
  PROVE  UsedInOrder(Append(queue, lot)) /\ Before(Append(queue, lot), at)
  <1> PICK n : n = Len(queue)
    OBVIOUS
  <1> PICK all : all = Append(queue, lot)
    OBVIOUS
  <1>1. /\ Len(all) = n + 1 /\ n \in Nat /\ \A i \in 1..n : all[i] = queue[i]
        /\ all[n + 1] = lot /\ ~(lot.left < lot.open)
    BY AppendedLot DEF Lot
  <1>2. \A i \in 1..(n + 1) : i \in 1..n \/ i = n + 1
    BY <1>1
  <1>3. Before(all, at)
    <2>1. \A i \in 1..(n + 1) : all[i].at < at
      BY <1>1, <1>2 DEF Before
    <2> QED
      BY <1>1, <2>1 DEF Before
  <1>4. UsedInOrder(all)
    <2> SUFFICES ASSUME NEW i \in 1..(n + 1), NEW j \in 1..(n + 1), i < j, all[j].left < all[j].open
                 PROVE  all[i].left = 0
      BY <1>1 DEF UsedInOrder
    <2>1. j \in 1..n
      BY <1>1, <1>2
    <2>2. i \in 1..n
      BY <1>1, <2>1
    <2> QED
      BY <1>1, <2>1, <2>2 DEF UsedInOrder
  <1> QED
    BY <1>3, <1>4

\* A booking adds a lot behind those of its strategy, or a sell and takes lots.
BookedAs(s, lot, e) ==
  /\ lot \in Lot /\ lot.left = lot.open /\ e \in Entry
  /\ \A t \in Strategies \ {s} : lots'[t] = lots[t] /\ SellsOf(t)' = SellsOf(t)
  /\ \/ lots'[s] = Append(lots[s], lot) /\ SellsOf(s)' = SellsOf(s)
     \/ /\ lots'[s] = Consumed(lots[s], e.quantity) /\ SellsOf(s)' = SellsOf(s) \cup {e}
        /\ e.quantity <= LeftIn(lots[s]) /\ e.basis = CostBasis(lots[s], e.quantity)

LEMMA BookingIsLast ==
  ASSUME BookInv, LotsInv, TimeInv, ProcessFill, ~Raises(Ledger, Head(fills)),
         NEW f, f = Head(fills), NEW s, s = orders[f.order].strategy
  PROVE  /\ s \in Strategies /\ lots[s] \in Seq(Lot) /\ UsedInOrder(lots[s])
         /\ f.at \in Nat /\ f.at <= clock /\ NewerThan(s, f.at)
         /\ \E lot, e : lot.at = f.at /\ e.at = f.at /\ BookedAs(s, lot, e)
  <1> PICK o : o = f.order
    OBVIOUS
  <1> PICK lot : lot = [at |-> f.at, price |-> f.price, open |-> f.quantity, left |-> f.quantity]
    BY Zenon
  <1> PICK e : e = [no |-> f.no, quantity |-> f.quantity, price |-> f.price, at |-> f.at,
                    basis |-> IF orders[o].side = "buy" THEN 0 ELSE CostBasis(lots[s], f.quantity)]
    BY Zenon
  <1> PICK queue : queue = lots[s]
    OBVIOUS
  <1>1. /\ fills # <<>> /\ f = fills[1] /\ 1 \in 1..Len(fills) /\ o \in 1..Len(orders) /\ f.at \in Nat
    BY HeadFacts DEF ProcessFill
  <1>2. s \in Strategies
    BY <1>1, OrderFacts DEF BookInv
  <1>3. f.at <= clock /\ NewerThan(s, f.at) /\ UsedInOrder(queue) /\ Sorted(queue)
    BY <1>1, <1>2 DEF TimeInv, FillIsNewer, LotsInv
  <1>4. /\ lot \in Lot /\ queue \in Seq(Lot)
        /\ \A t \in Strategies : t # s => lots'[t] = lots[t]
        /\ orders[o].side = "buy" => lots'[s] = Added(queue, lot)
        /\ orders[o].side # "buy" => f.quantity <= LeftIn(queue) /\ lots'[s] = Consumed(queue, f.quantity)
    BY <1>2, BookingLots
  <1>5. e \in Entry /\ \A t : t # s \/ orders[o].side = "buy" => SellsOf(t)' = SellsOf(t)
    BY BookingSells
  <1>6. lot.at = f.at /\ lot.left = lot.open /\ e.at = f.at /\ e.quantity = f.quantity
    OBVIOUS
  <1>7. \A t \in Strategies \ {s} : lots'[t] = lots[t] /\ SellsOf(t)' = SellsOf(t)
    BY <1>4, <1>5, Zenon
  <1>8. CASE orders[o].side = "buy"
    <2>1. \A i \in 1..Len(queue) : queue[i].at \in Nat /\ queue[i].at < f.at
      BY <1>3, <1>4, LotsAreCounted DEF NewerThan
    <2>2. \A x \in Nat : x < f.at => x <= f.at
      BY <1>1
    <2>3. \A i \in 1..Len(queue) : queue[i].at <= lot.at
      BY <1>6, <2>1, <2>2, Zenon
    <2>4. lots'[s] = Append(lots[s], lot)
      BY <1>3, <1>4, <1>8, <2>3, AddedLast, Zenon
    <2>5. SellsOf(s)' = SellsOf(s)
      BY <1>5, <1>8
    <2>6. BookedAs(s, lot, e)
      BY <1>4, <1>5, <1>6, <1>7, <2>4, <2>5 DEF BookedAs
    <2> QED
      BY <1>1, <1>2, <1>3, <1>4, <1>6, <2>6, Zenon
  <1>9. CASE orders[o].side # "buy"
    <2>1. SellsOf(s)' = SellsOf(s) \cup {e}
      BY <1>9, BookingSells
    <2>2. e.basis = CostBasis(lots[s], e.quantity)
      BY <1>9
    <2>3. lots'[s] = Consumed(lots[s], e.quantity) /\ e.quantity <= LeftIn(lots[s])
      BY <1>4, <1>6, <1>9, Zenon
    <2>4. BookedAs(s, lot, e)
      BY <1>4, <1>5, <1>6, <1>7, <2>1, <2>2, <2>3 DEF BookedAs
    <2> QED
      BY <1>1, <1>2, <1>3, <1>4, <1>6, <2>4
  <1> QED
    BY <1>8, <1>9

\* After a booking a strategy is newer than any time after it.
LEMMA BookingIsNewer ==
  ASSUME BookInv, LotsInv, TimeInv, ProcessFill, ~Raises(Ledger, Head(fills)),
         NEW f, f = Head(fills), NEW s, s = orders[f.order].strategy
  PROVE  /\ \A t \in Strategies \ {s} : \A at : NewerThan(t, at) => NewerThan(t, at)'
         /\ \A t \in Strategies : UsedInOrder(lots'[t])
         /\ \A at \in Nat : f.at < at => NewerThan(s, at)'
  <1>1. /\ s \in Strategies /\ lots[s] \in Seq(Lot) /\ UsedInOrder(lots[s])
        /\ f.at \in Nat /\ NewerThan(s, f.at)
    BY BookingIsLast
  <1>2. PICK lot, e : lot.at = f.at /\ e.at = f.at /\ BookedAs(s, lot, e)
    BY BookingIsLast, Zenon
  <1>3. \A t \in Strategies \ {s} : lots'[t] = lots[t] /\ SellsOf(t)' = SellsOf(t)
    BY <1>2, Zenon DEF BookedAs
  <1>4. ASSUME NEW t \in Strategies \ {s}, NEW at, NewerThan(t, at) PROVE NewerThan(t, at)'
    BY <1>3, <1>4, Zenon DEF NewerThan
  <1>5. ASSUME NEW at \in Nat, f.at < at PROVE UsedInOrder(lots'[s]) /\ NewerThan(s, at)'
    <2>1. /\ \A i \in 1..Len(lots[s]) : lots[s][i].at \in Nat /\ lots[s][i].at < f.at
          /\ \A x \in SellsOf(s) : x.at \in Nat /\ x.at < f.at
      <3>1. SellsOf(s) \in SUBSET Entry
        BY SellsAreEntries DEF BookInv
      <3>2. \A x \in SellsOf(s) : x.at \in Nat
        BY <3>1 DEF Entry
      <3> QED
        BY <1>1, <3>2, LotsAreCounted DEF NewerThan
    <2>2. \A x \in Nat : x < f.at => x < at
      BY <1>1, <1>5
    <2>3. Before(lots[s], at) /\ \A x \in SellsOf(s) : x.at < at
      BY <2>1, <2>2, Zenon DEF Before
    <2>4. CASE lots'[s] = Append(lots[s], lot) /\ SellsOf(s)' = SellsOf(s)
      <3>1. UsedInOrder(lots'[s]) /\ Before(lots'[s], at)
        BY <1>1, <1>2, <1>5, <2>3, <2>4, AppendedBefore, Zenon DEF BookedAs
      <3> QED
        BY <2>3, <2>4, <3>1, Zenon DEF NewerThan, Before
    <2>5. CASE lots'[s] = Consumed(lots[s], e.quantity) /\ SellsOf(s)' = SellsOf(s) \cup {e}
               /\ e.quantity <= LeftIn(lots[s])
      <3>1. e.quantity \in Nat
        BY <1>2 DEF BookedAs, Entry
      <3>2. UsedInOrder(lots'[s]) /\ Before(lots'[s], at)
        BY <1>1, <2>3, <2>5, <3>1, ConsumedBefore, Zenon
      <3> QED
        BY <1>2, <1>5, <2>3, <2>5, <3>2, Zenon DEF NewerThan, Before
    <2> QED
      BY <1>2, <2>4, <2>5, Zenon DEF BookedAs
  <1>6. UsedInOrder(lots'[s])
    <2>1. f.at + 1 \in Nat /\ f.at < f.at + 1
      BY <1>1
    <2> QED
      BY <1>5, <2>1
  <1>7. \A t \in Strategies : UsedInOrder(lots'[t])
    BY <1>3, <1>6 DEF TimeInv
  <1> QED
    BY <1>4, <1>5, <1>7

LEMMA BookingKeepsTime ==
  ASSUME BookInv, LotsInv, TimeInv, ProcessFill, ~Raises(Ledger, Head(fills))
  PROVE  TimeInv'
  <1> PICK f : f = Head(fills)
    OBVIOUS
  <1> PICK o : o = f.order
    OBVIOUS
  <1> PICK s : s = orders[o].strategy
    OBVIOUS
  <1>1. TablesInv /\ RowsInv /\ FillsInv
    BY DEF BookInv
  <1>2. fills' = Tail(fills) /\ book' = book /\ clock' = clock /\ clock \in Nat
    BY <1>1, BookingIs, ZenonT(20) DEF TablesInv
  <1>3. /\ fills # <<>> /\ o \in 1..Len(orders) /\ Active(o) /\ f = fills[1] /\ 1 \in 1..Len(fills)
        /\ f.quantity \in Nat \ {0} /\ f.at \in Nat
        /\ \A i \in 1..Len(fills') : /\ i + 1 \in 1..Len(fills) /\ fills'[i] = fills[i + 1]
                                     /\ fills'[i].order # o
    BY <1>2, HeadFacts DEF ProcessFill
  <1>4. /\ Len(orders') = Len(orders) /\ s \in Strategies
        /\ \A p \in 1..Len(orders) : p # o => orders'[p] = orders[p] /\ executions'[p] = executions[p]
        /\ orders'[o] = [orders[o] EXCEPT !.status = StatusAfter(orders[o], FilledQuantity(o) + f.quantity)]
        /\ FilledQuantity(o)' = FilledQuantity(o) + f.quantity
    BY BookingRows
  <1>5. /\ orders[o] \in Row /\ FilledQuantity(o) \in Nat /\ book[o].filled \in Nat /\ book[o].at \in Nat
    BY <1>1, <1>3, OrderFacts
  <1>6. /\ orders'[o].strategy = s
        /\ \A p \in 1..Len(orders) : p # o => FilledQuantity(p)' = FilledQuantity(p)
    <2>1. orders'[o].strategy = s
      BY <1>4, <1>5 DEF Row
    <2> QED
      BY <1>4, <2>1, SameOrder
  <1>7. \A p \in 1..Len(orders) : Active(p) /\ orders[p].strategy = s => p = o
    BY <1>1, <1>3 DEF RowsInv
  <1>8. FillIsNewer(f) /\ f.at <= clock
    BY <1>3 DEF TimeInv, FillIsNewer
  <1>9. /\ \A t \in Strategies \ {s} : \A at : NewerThan(t, at) => NewerThan(t, at)'
        /\ \A t \in Strategies : UsedInOrder(lots'[t])
        /\ \A at \in Nat : f.at < at => NewerThan(s, at)'
    BY BookingIsNewer
  <1>10. ASSUME NEW t \in Strategies PROVE UsedInOrder(lots'[t]) /\ NewerThan(t, clock + 1)'
    <2> PICK now : now = clock + 1
      OBVIOUS
    <2>1. now \in Nat /\ f.at < now
      BY <1>2, <1>3, <1>8
    <2>2. NewerThan(t, now)
      BY DEF TimeInv
    <2>3. NewerThan(t, now)'
      BY <1>9, <2>1, <2>2
    <2> QED
      BY <1>2, <1>9, <2>3
  <1>11. ASSUME NEW p \in 1..Len(orders) PROVE OrderIsNewer(p)'
    <2>1. book[p].at <= clock
      BY DEF TimeInv, OrderIsNewer
    <2> PICK at : at = book[p].at
      OBVIOUS
    <2>2. ASSUME FilledQuantity(p)' < book[p].filled PROVE NewerThan(orders[p].strategy, at)'
      <3>1. CASE p = o
        <4>1. FilledQuantity(o) + f.quantity < book[o].filled
          BY <1>4, <2>2, <3>1
        <4>2. f.at < at /\ at \in Nat
          BY <1>5, <1>8, <3>1, <4>1 DEF FillIsNewer
        <4>3. NewerThan(s, at)'
          BY <1>9, <4>2
        <4> QED
          BY <1>6, <3>1, <4>3
      <3>2. CASE p # o
        <4> PICK t : t = orders[p].strategy
          OBVIOUS
        <4>1. FilledQuantity(p) < book[p].filled /\ orders'[p].strategy = t
          BY <1>4, <1>6, <2>2, <3>2
        <4>2. Active(p)
          BY <4>1, LackingIsActive
        <4>3. t \in Strategies \ {s}
          BY <1>1, <1>7, <3>2, <4>2, OrderFacts
        <4>4. NewerThan(t, at)
          BY <4>1 DEF TimeInv, OrderIsNewer
        <4>5. NewerThan(t, at)'
          BY <1>9, <4>3, <4>4
        <4> QED
          BY <4>1, <4>5
      <3> QED
        BY <3>1, <3>2
    <2> QED
      BY <1>2, <2>1, <2>2 DEF OrderIsNewer
  <1>12. ASSUME NEW i \in 1..Len(fills'), NEW g, g = fills'[i] PROVE FillIsNewer(g)'
    <2> PICK p : p = g.order
      OBVIOUS
    <2> PICK at : at = g.at
      OBVIOUS
    <2> PICK t : t = orders[p].strategy
      OBVIOUS
    <2>1. FillIsNewer(g) /\ p \in 1..Len(orders) /\ Active(p) /\ p # o
      BY <1>1, <1>3, <1>12 DEF TimeInv, FillsInv, IsLacking
    <2>2. t \in Strategies \ {s}
      BY <1>1, <1>7, <2>1, OrderFacts
    <2>3. NewerThan(t, at)'
      BY <1>9, <2>1, <2>2 DEF FillIsNewer
    <2>4. orders'[p].strategy = t /\ FilledQuantity(p)' = FilledQuantity(p)
      BY <1>4, <1>6, <2>1
    <2> QED
      BY <1>2, <2>1, <2>3, <2>4 DEF FillIsNewer
  <1> QED
    BY <1>2, <1>4, <1>10, <1>11, <1>12 DEF TimeInv

LEMMA TimeIsKept ==
  ASSUME BookInv, LotsInv, TimeInv, [Next]_vars
  PROVE  TimeInv'
  <1>1. ASSUME NEW s \in Strategies, NEW side \in {"buy", "sell"}, NEW n \in 1..MaxUnits,
               SubmitOrder(s, side, n)
        PROVE  TimeInv'
    BY <1>1, SubmitKeepsTime
  <1>2. ASSUME NEW n \in DOMAIN book, NEW p \in Prices, BrokerFill(n, p) PROVE TimeInv'
    BY <1>2, BrokerFillKeepsTime
  <1>3. CASE CollectFills
    BY <1>3, CollectKeepsTime
  <1>4. CASE ProcessFill /\ ~Raises(Ledger, Head(fills))
    BY <1>4, BookingKeepsTime
  <1>5. CASE FewerFills
    BY <1>5, FewerFillsKeepTime
  <1> QED
    BY <1>1, <1>2, <1>3, <1>4, <1>5, NextSteps

-----------------------------------------------------------------------------
(***************************************************************************)
(* Executions against lots.                                                *)
(***************************************************************************)
UnitTerms(s, side) == [o \in DOMAIN orders |-> IF IsOf(o, s, side) THEN FilledQuantity(o) ELSE 0]
PaidTerms(s) == [o \in DOMAIN orders |-> IF IsOf(o, s, "buy") THEN FilledAmount(o) ELSE 0]
CostTerms(s) == [o \in DOMAIN orders |-> IF IsOf(o, s, "sell") THEN RealizedCost(o) ELSE 0]

LEMMA TermsAre ==
  ASSUME TablesInv, RowsInv, NEW s, NEW side
  PROVE  /\ Len(orders) \in Nat /\ DOMAIN orders = 1..Len(orders)
         /\ UnitTerms(s, side) \in [1..Len(orders) -> Nat]
         /\ PaidTerms(s) \in [1..Len(orders) -> Nat]
         /\ CostTerms(s) \in [1..Len(orders) -> Nat]
  <1>1. Len(orders) \in Nat /\ DOMAIN orders = 1..Len(orders)
    BY LenProperties DEF TablesInv
  <1>2. \A o \in 1..Len(orders) : /\ FilledQuantity(o) \in Nat /\ FilledAmount(o) \in Nat
                                  /\ RealizedCost(o) \in Nat
    BY OrderFacts
  <1> QED
    BY <1>1, <1>2 DEF UnitTerms, PaidTerms, CostTerms

LEMMA ExplainedBy ==
  ExecutionsExplainLots <=>
    \A s \in Strategies :
      /\ Total(UnitTerms(s, "buy")) = Total(Opened(lots[s]))
      /\ Total(UnitTerms(s, "sell")) = Total(Gone(lots[s]))
      /\ Total(PaidTerms(s)) = Total(CostTerms(s)) + CostOf(lots[s])
  BY DEF ExecutionsExplainLots, UnitsFilled, AmountPaid, CostRealized, UnitTerms, PaidTerms, CostTerms

LEMMA NothingAdded ==
  ASSUME NEW n \in Nat, NEW f \in [1..n -> Nat], NEW g, g = [i \in 1..(n + 1) |-> g[i]],
         \A i \in 1..n : g[i] = f[i], g[n + 1] = 0
  PROVE  Total(g) = Total(f)
  <1>1. \A i \in 1..(n + 1) : i \in 1..n \/ i = n + 1
    OBVIOUS
  <1>2. ASSUME NEW i \in 1..(n + 1) PROVE g[i] \in Nat
    <2>1. CASE i \in 1..n
      <3>1. f[i] \in Nat /\ g[i] = f[i]
        BY <2>1
      <3> QED
        BY <3>1
    <2>2. CASE i = n + 1
      BY <2>2
    <2> QED
      BY <1>1, <2>1, <2>2
  <1>3. g \in [1..(n + 1) -> Nat]
    BY <1>2
  <1>4. Total(g) = Total(f) + g[n + 1]
    BY <1>3, SumsAppend
  <1>5. Total(f) \in Nat
    BY SumsAreNatural
  <1> QED
    BY <1>4, <1>5

\* A new order has no executions.
LEMMA SubmitAddsNothing ==
  ASSUME BookInv, NEW s \in Strategies, NEW side \in {"buy", "sell"}, NEW n \in 1..MaxUnits,
         SubmitOrder(s, side, n), NEW t, NEW kind
  PROVE  /\ Total(UnitTerms(t, kind)') = Total(UnitTerms(t, kind))
         /\ Total(PaidTerms(t)') = Total(PaidTerms(t))
         /\ Total(CostTerms(t)') = Total(CostTerms(t))
  <1> PICK row : row = [strategy |-> s, side |-> side, quantity |-> n,
                        status |-> "submitted", number |-> Len(book) + 1,
                        orgno |-> Len(book) + 1 \in OrgnoInAnswer]
    OBVIOUS
  <1> PICK m : m = Len(orders)
    OBVIOUS
  <1>1. orders' = Append(orders, row) /\ executions' = executions /\ m < MaxOrders
    BY DEF SubmitOrder, ledgerVars
  <1>2. /\ TablesInv /\ RowsInv /\ TablesInv' /\ RowsInv'
    BY SubmitKeepsBook DEF BookInv
  <1>3. /\ m \in Nat /\ Len(book) = m /\ n \in Nat \ {0} /\ orders \in Seq(Row) /\ DOMAIN orders = 1..m
    BY <1>2, LenProperties, FillLedgerAssumption DEF TablesInv, RowsInv
  <1>4. row \in Row
    BY <1>3 DEF Row
  <1>5. Len(orders') = m + 1 /\ \A o \in 1..m : orders'[o] = orders[o]
    BY <1>1, <1>3, <1>4, AppendProperties
  <1>6. \A o \in 1..m : /\ FilledQuantity(o)' = FilledQuantity(o) /\ FilledAmount(o)' = FilledAmount(o)
                        /\ RealizedCost(o)' = RealizedCost(o)
    BY <1>1, <1>5, SameOrder
  <1>7. FilledQuantity(m + 1)' = 0 /\ FilledAmount(m + 1)' = 0 /\ RealizedCost(m + 1)' = 0
    <2>1. m + 1 \in Ids /\ m + 1 > m
      BY <1>1, <1>3, FillLedgerAssumption DEF Ids
    <2>2. executions'[m + 1] = <<>>
      BY <1>1, <1>2, <2>1 DEF RowsInv
    <2> QED
      BY <2>2, NoEntries DEF FilledQuantity, FilledAmount, RealizedCost, Bases
  <1>8. /\ UnitTerms(t, kind) \in [1..m -> Nat] /\ PaidTerms(t) \in [1..m -> Nat]
        /\ CostTerms(t) \in [1..m -> Nat]
    BY <1>2, TermsAre
  <1>9. DOMAIN orders' = 1..(m + 1) /\ m + 1 \in 1..(m + 1) /\ \A o \in 1..m : o \in 1..(m + 1)
    BY <1>2, <1>3, <1>5, LenProperties DEF TablesInv
  <1>10. \A o \in 1..m : \A k : IsOf(o, t, k)' = IsOf(o, t, k)
    BY <1>5 DEF IsOf
  <1> DEFINE units == UnitTerms(t, kind)'
             paid == PaidTerms(t)'
             costs == CostTerms(t)'
  <1>11. /\ units = [o \in 1..(m + 1) |-> IF IsOf(o, t, kind)' THEN FilledQuantity(o)' ELSE 0]
         /\ paid = [o \in 1..(m + 1) |-> IF IsOf(o, t, "buy")' THEN FilledAmount(o)' ELSE 0]
         /\ costs = [o \in 1..(m + 1) |-> IF IsOf(o, t, "sell")' THEN RealizedCost(o)' ELSE 0]
    BY <1>9 DEF UnitTerms, PaidTerms, CostTerms
  <1>12. /\ \A o \in 1..m : units[o] = UnitTerms(t, kind)[o] /\ paid[o] = PaidTerms(t)[o]
                            /\ costs[o] = CostTerms(t)[o]
         /\ units[m + 1] = 0 /\ paid[m + 1] = 0 /\ costs[m + 1] = 0
    <2> HIDE DEF units, paid, costs
    <2>1. \A o \in 1..m : units[o] = UnitTerms(t, kind)[o]
      BY <1>3, <1>6, <1>9, <1>10, <1>11 DEF UnitTerms
    <2>2. \A o \in 1..m : paid[o] = PaidTerms(t)[o]
      BY <1>3, <1>6, <1>9, <1>10, <1>11 DEF PaidTerms
    <2>3. \A o \in 1..m : costs[o] = CostTerms(t)[o]
      BY <1>3, <1>6, <1>9, <1>10, <1>11 DEF CostTerms
    <2>4. units[m + 1] = 0 /\ paid[m + 1] = 0 /\ costs[m + 1] = 0
      BY <1>7, <1>9, <1>11
    <2> QED
      BY <2>1, <2>2, <2>3, <2>4
  <1> HIDE DEF units, paid, costs
  <1>13. units = [o \in 1..(m + 1) |-> units[o]]
    BY <1>11
  <1>14. paid = [o \in 1..(m + 1) |-> paid[o]]
    BY <1>11
  <1>15. costs = [o \in 1..(m + 1) |-> costs[o]]
    BY <1>11
  <1>16. Total(units) = Total(UnitTerms(t, kind))
    <2> DEFINE f == UnitTerms(t, kind)
    <2>1. /\ m \in Nat /\ f \in [1..m -> Nat] /\ units = [o \in 1..(m + 1) |-> units[o]]
          /\ \A o \in 1..m : units[o] = f[o]
          /\ units[m + 1] = 0
      BY <1>3, <1>8, <1>12, <1>13
    <2> HIDE DEF f
    <2>2. Total(units) = Total(f)
      BY ONLY <2>1, NothingAdded, ZenonT(40)
    <2> QED
      BY <2>2 DEF f
  <1>17. Total(paid) = Total(PaidTerms(t))
    <2> DEFINE f == PaidTerms(t)
    <2>1. /\ m \in Nat /\ f \in [1..m -> Nat] /\ paid = [o \in 1..(m + 1) |-> paid[o]]
          /\ \A o \in 1..m : paid[o] = f[o]
          /\ paid[m + 1] = 0
      BY <1>3, <1>8, <1>12, <1>14
    <2> HIDE DEF f
    <2>2. Total(paid) = Total(f)
      BY ONLY <2>1, NothingAdded, ZenonT(40)
    <2> QED
      BY <2>2 DEF f
  <1>18. Total(costs) = Total(CostTerms(t))
    <2> DEFINE f == CostTerms(t)
    <2>1. /\ m \in Nat /\ f \in [1..m -> Nat] /\ costs = [o \in 1..(m + 1) |-> costs[o]]
          /\ \A o \in 1..m : costs[o] = f[o]
          /\ costs[m + 1] = 0
      BY <1>3, <1>8, <1>12, <1>15
    <2> HIDE DEF f
    <2>2. Total(costs) = Total(f)
      BY ONLY <2>1, NothingAdded, ZenonT(40)
    <2> QED
      BY <2>2 DEF f
  <1> QED
    BY <1>16, <1>17, <1>18 DEF units, paid, costs

LEMMA OneTermGrows ==
  ASSUME NEW n \in Nat, NEW f \in [1..n -> Nat], NEW g, g = [i \in 1..n |-> g[i]],
         NEW j \in 1..n, NEW x \in Nat, g[j] = f[j] + x, \A i \in 1..n : i # j => g[i] = f[i]
  PROVE  Total(g) = Total(f) + x
  <1>1. ASSUME NEW i \in 1..n PROVE g[i] \in Nat
    <2>1. f[i] \in Nat
      OBVIOUS
    <2>2. CASE i = j
      BY <2>1, <2>2
    <2>3. CASE i # j
      BY <2>1, <2>3
    <2> QED
      BY <2>2, <2>3
  <1>2. g \in [1..n -> Nat]
    BY <1>1
  <1> QED
    BY <1>2, SumsChange

\* A fill adds its units, its amount and its basis to the terms of its order.
LEMMA BookingAdds ==
  ASSUME BookInv, ProcessFill, ~Raises(Ledger, Head(fills)),
         NEW f, f = Head(fills), NEW o, o = f.order, NEW s, s = orders[o].strategy, NEW t, NEW kind
  PROVE  /\ Total(UnitTerms(t, kind)') = Total(UnitTerms(t, kind)) +
              (IF t = s /\ kind = orders[o].side THEN f.quantity ELSE 0)
         /\ Total(PaidTerms(t)') = Total(PaidTerms(t)) +
              (IF t = s /\ orders[o].side = "buy" THEN f.quantity * f.price ELSE 0)
         /\ Total(CostTerms(t)') = Total(CostTerms(t)) +
              (IF t = s /\ orders[o].side = "sell" THEN CostBasis(lots[s], f.quantity) ELSE 0)
  <1> PICK m : m = Len(orders)
    OBVIOUS
  <1>1. /\ TablesInv /\ RowsInv /\ TablesInv' /\ RowsInv'
    BY BookingKeepsBook DEF BookInv
  <1>2. /\ o \in 1..m /\ f \in Filling /\ Len(orders') = m
        /\ \A p \in 1..m : p # o => orders'[p] = orders[p] /\ executions'[p] = executions[p]
        /\ orders'[o] = [orders[o] EXCEPT !.status = StatusAfter(orders[o], FilledQuantity(o) + f.quantity)]
        /\ FilledQuantity(o)' = FilledQuantity(o) + f.quantity
        /\ FilledAmount(o)' = FilledAmount(o) + f.quantity * f.price
        /\ RealizedCost(o)' = RealizedCost(o) +
             (IF orders[o].side = "buy" THEN 0 ELSE CostBasis(lots[s], f.quantity))
        /\ orders[o].side # "buy" => CostBasis(lots[s], f.quantity) \in Nat
    BY BookingRows
  <1>3. orders[o] \in Row /\ orders[o].side \in {"buy", "sell"} /\ RealizedCost(o) \in Nat
        /\ FilledQuantity(o) \in Nat /\ FilledAmount(o) \in Nat
    BY <1>1, <1>2, OrderFacts
  <1>4. f.quantity \in Nat /\ f.price \in Nat /\ f.quantity * f.price \in Nat
    <2>1. f.quantity \in Nat /\ f.price \in Nat
      BY <1>2 DEF Filling
    <2> QED
      BY <2>1
  <1>5. \A p \in 1..m : \A k : IsOf(p, t, k)' = IsOf(p, t, k)
    <2>1. orders'[o].strategy = orders[o].strategy /\ orders'[o].side = orders[o].side
      BY <1>2, <1>3 DEF Row
    <2>2. \A p \in 1..m : orders'[p].strategy = orders[p].strategy /\ orders'[p].side = orders[p].side
      BY <1>2, <2>1
    <2> QED
      BY <2>2 DEF IsOf
  <1>6. \A p \in 1..m : p # o =>
          /\ FilledQuantity(p)' = FilledQuantity(p) /\ FilledAmount(p)' = FilledAmount(p)
          /\ RealizedCost(p)' = RealizedCost(p)
    BY <1>2, SameOrder
  <1>7. \A k : IsOf(o, t, k) <=> (t = s /\ k = orders[o].side)
    BY DEF IsOf
  <1>8. /\ m \in Nat /\ DOMAIN orders = 1..m
        /\ UnitTerms(t, kind) \in [1..m -> Nat] /\ PaidTerms(t) \in [1..m -> Nat]
        /\ CostTerms(t) \in [1..m -> Nat]
    BY <1>1, TermsAre
  <1> DEFINE units == UnitTerms(t, kind)'
             paid == PaidTerms(t)'
             costs == CostTerms(t)'
  <1>9. DOMAIN orders' = 1..m
    BY <1>1, <1>2, LenProperties DEF TablesInv
  <1>10. /\ units = [p \in 1..m |-> IF IsOf(p, t, kind)' THEN FilledQuantity(p)' ELSE 0]
         /\ paid = [p \in 1..m |-> IF IsOf(p, t, "buy")' THEN FilledAmount(p)' ELSE 0]
         /\ costs = [p \in 1..m |-> IF IsOf(p, t, "sell")' THEN RealizedCost(p)' ELSE 0]
    BY <1>9 DEF UnitTerms, PaidTerms, CostTerms
  <1> HIDE DEF units, paid, costs
  <1>11. Total(units) = Total(UnitTerms(t, kind)) +
           (IF t = s /\ kind = orders[o].side THEN f.quantity ELSE 0)
    <2> DEFINE g == UnitTerms(t, kind)
               x == IF t = s /\ kind = orders[o].side THEN f.quantity ELSE 0
    <2>1. x \in Nat
      BY <1>4
    <2>2. \A p \in 1..m : p # o => units[p] = g[p]
      BY <1>5, <1>6, <1>8, <1>10 DEF UnitTerms
    <2>3. units[o] = g[o] + x /\ g[o] \in Nat
      <3>1. units[o] = IF IsOf(o, t, kind)' THEN FilledQuantity(o)' ELSE 0
        BY <1>2, <1>10
      <3>2. g[o] = IF IsOf(o, t, kind) THEN FilledQuantity(o) ELSE 0
        BY <1>2, <1>8 DEF UnitTerms
      <3>3. IsOf(o, t, kind)' = IsOf(o, t, kind)
        BY <1>2, <1>5
      <3>4. x = IF IsOf(o, t, kind) THEN f.quantity ELSE 0
        BY <1>7
      <3>5. FilledQuantity(o)' = FilledQuantity(o) + f.quantity
        BY <1>2
      <3> HIDE DEF g, x
      <3> QED
        BY <1>3, <1>4, <3>1, <3>2, <3>3, <3>4, <3>5
    <2> HIDE DEF g, x
    <2>4. /\ m \in Nat /\ g \in [1..m -> Nat] /\ units = [p \in 1..m |-> units[p]] /\ o \in 1..m
          /\ x \in Nat /\ units[o] = g[o] + x /\ \A p \in 1..m : p # o => units[p] = g[p]
      BY <1>2, <1>8, <1>10, <2>1, <2>2, <2>3 DEF g
    <2>5. Total(units) = Total(g) + x
      BY ONLY <2>4, OneTermGrows
    <2> QED
      BY <2>5 DEF g, x
  <1>12. Total(paid) = Total(PaidTerms(t)) +
           (IF t = s /\ orders[o].side = "buy" THEN f.quantity * f.price ELSE 0)
    <2> DEFINE g == PaidTerms(t)
               x == IF t = s /\ orders[o].side = "buy" THEN f.quantity * f.price ELSE 0
    <2>1. x \in Nat
      BY <1>4
    <2>2. \A p \in 1..m : p # o => paid[p] = g[p]
      BY <1>5, <1>6, <1>8, <1>10 DEF PaidTerms
    <2>3. paid[o] = g[o] + x /\ g[o] \in Nat
      <3>1. paid[o] = IF IsOf(o, t, "buy")' THEN FilledAmount(o)' ELSE 0
        BY <1>2, <1>10
      <3>2. g[o] = IF IsOf(o, t, "buy") THEN FilledAmount(o) ELSE 0
        BY <1>2, <1>8 DEF PaidTerms
      <3>3. IsOf(o, t, "buy")' = IsOf(o, t, "buy")
        BY <1>2, <1>5
      <3>4. x = IF IsOf(o, t, "buy") THEN f.quantity * f.price ELSE 0
        BY <1>7
      <3>5. FilledAmount(o)' = FilledAmount(o) + f.quantity * f.price
        BY <1>2
      <3> HIDE DEF g, x
      <3> QED
        BY <1>3, <1>4, <3>1, <3>2, <3>3, <3>4, <3>5
    <2> HIDE DEF g, x
    <2>4. /\ m \in Nat /\ g \in [1..m -> Nat] /\ paid = [p \in 1..m |-> paid[p]] /\ o \in 1..m
          /\ x \in Nat /\ paid[o] = g[o] + x /\ \A p \in 1..m : p # o => paid[p] = g[p]
      BY <1>2, <1>8, <1>10, <2>1, <2>2, <2>3 DEF g
    <2>5. Total(paid) = Total(g) + x
      BY ONLY <2>4, OneTermGrows
    <2> QED
      BY <2>5 DEF g, x
  <1>13. Total(costs) = Total(CostTerms(t)) +
           (IF t = s /\ orders[o].side = "sell" THEN CostBasis(lots[s], f.quantity) ELSE 0)
    <2> DEFINE g == CostTerms(t)
               x == IF t = s /\ orders[o].side = "sell" THEN CostBasis(lots[s], f.quantity) ELSE 0
    <2>1. x \in Nat
      BY <1>2
    <2>2. \A p \in 1..m : p # o => costs[p] = g[p]
      BY <1>5, <1>6, <1>8, <1>10 DEF CostTerms
    <2>3. costs[o] = g[o] + x /\ g[o] \in Nat
      <3>1. costs[o] = IF IsOf(o, t, "sell")' THEN RealizedCost(o)' ELSE 0
        BY <1>2, <1>10
      <3>2. g[o] = IF IsOf(o, t, "sell") THEN RealizedCost(o) ELSE 0
        BY <1>2, <1>8 DEF CostTerms
      <3>3. IsOf(o, t, "sell")' = IsOf(o, t, "sell")
        BY <1>2, <1>5
      <3>4. x = IF IsOf(o, t, "sell") THEN CostBasis(lots[s], f.quantity) ELSE 0
        BY <1>7
      <3>5. IsOf(o, t, "sell") => RealizedCost(o)' = RealizedCost(o) + CostBasis(lots[s], f.quantity)
        BY <1>2, <1>7
      <3> HIDE DEF g, x
      <3> QED
        BY <1>3, <3>1, <3>2, <3>3, <3>4, <3>5
    <2> HIDE DEF g, x
    <2>4. /\ m \in Nat /\ g \in [1..m -> Nat] /\ costs = [p \in 1..m |-> costs[p]] /\ o \in 1..m
          /\ x \in Nat /\ costs[o] = g[o] + x /\ \A p \in 1..m : p # o => costs[p] = g[p]
      BY <1>2, <1>8, <1>10, <2>1, <2>2, <2>3 DEF g
    <2>5. Total(costs) = Total(g) + x
      BY ONLY <2>4, OneTermGrows
    <2> QED
      BY <2>5 DEF g, x
  <1> QED
    BY <1>11, <1>12, <1>13 DEF units, paid, costs

LEMMA ExplanationIsKept ==
  ASSUME BookInv, LotsInv, ExecutionsExplainLots, [Next]_vars
  PROVE  ExecutionsExplainLots'
  <1> SUFFICES ASSUME NEW t \in Strategies
               PROVE  /\ Total(UnitTerms(t, "buy")') = Total(Opened(lots'[t]))
                      /\ Total(UnitTerms(t, "sell")') = Total(Gone(lots'[t]))
                      /\ Total(PaidTerms(t)') = Total(CostTerms(t)') + CostOf(lots'[t])
    BY DEF ExecutionsExplainLots, UnitsFilled, AmountPaid, CostRealized, UnitTerms, PaidTerms, CostTerms
  <1>1. /\ Total(UnitTerms(t, "buy")) = Total(Opened(lots[t]))
        /\ Total(UnitTerms(t, "sell")) = Total(Gone(lots[t]))
        /\ Total(PaidTerms(t)) = Total(CostTerms(t)) + CostOf(lots[t])
    BY ExplainedBy
  <1>2. ASSUME NEW s \in Strategies, NEW side \in {"buy", "sell"}, NEW n \in 1..MaxUnits,
               SubmitOrder(s, side, n)
        PROVE  /\ Total(UnitTerms(t, "buy")') = Total(Opened(lots'[t]))
               /\ Total(UnitTerms(t, "sell")') = Total(Gone(lots'[t]))
               /\ Total(PaidTerms(t)') = Total(CostTerms(t)') + CostOf(lots'[t])
    <2>1. lots' = lots
      BY <1>2 DEF SubmitOrder, ledgerVars
    <2> QED
      BY <1>1, <1>2, <2>1, SubmitAddsNothing
  <1>3. CASE orders' = orders /\ executions' = executions /\ lots' = lots
    BY <1>1, <1>3 DEF UnitTerms, PaidTerms, CostTerms, IsOf, FilledQuantity, FilledAmount, RealizedCost
  <1>4. CASE ProcessFill /\ ~Raises(Ledger, Head(fills))
    <2> PICK f : f = Head(fills)
      OBVIOUS
    <2> PICK o : o = f.order
      OBVIOUS
    <2> PICK s : s = orders[o].strategy
      OBVIOUS
    <2> PICK lot : lot = [at |-> f.at, price |-> f.price, open |-> f.quantity, left |-> f.quantity]
      OBVIOUS
    <2> DEFINE q == f.quantity
               basis == CostBasis(lots[s], q)
    <2>1. s \in Strategies /\ f \in Filling /\ o \in 1..Len(orders)
      BY <1>4, BookingRows
    <2>2. q \in Nat /\ f.price \in Nat /\ q * f.price \in Nat
      <3>1. q \in Nat /\ f.price \in Nat
        BY <2>1 DEF Filling
      <3> QED
        BY <3>1
    <2>3. /\ lots[t] \in Seq(Lot) /\ lots[s] \in Seq(Lot) /\ lot \in Lot
          /\ t # s => lots'[t] = lots[t]
          /\ orders[o].side = "buy" => lots'[s] = Added(lots[s], lot)
          /\ orders[o].side # "buy" => q <= LeftIn(lots[s]) /\ lots'[s] = Consumed(lots[s], q)
      BY <1>4, <2>1, BookingLots
    <2>4. /\ Total(UnitTerms(t, "buy")') = Total(UnitTerms(t, "buy")) +
               (IF t = s /\ "buy" = orders[o].side THEN q ELSE 0)
          /\ Total(UnitTerms(t, "sell")') = Total(UnitTerms(t, "sell")) +
               (IF t = s /\ "sell" = orders[o].side THEN q ELSE 0)
          /\ Total(PaidTerms(t)') = Total(PaidTerms(t)) +
               (IF t = s /\ orders[o].side = "buy" THEN q * f.price ELSE 0)
          /\ Total(CostTerms(t)') = Total(CostTerms(t)) +
               (IF t = s /\ orders[o].side = "sell" THEN basis ELSE 0)
      BY <1>4, BookingAdds
    <2>5. orders[o].side \in {"buy", "sell"}
      BY <2>1, OrderFacts DEF BookInv
    <2>6. /\ Total(UnitTerms(t, "buy")) \in Nat /\ Total(UnitTerms(t, "sell")) \in Nat
          /\ Total(PaidTerms(t)) \in Nat /\ Total(CostTerms(t)) \in Nat
      <3>1. TablesInv /\ RowsInv
        BY DEF BookInv
      <3>2. /\ Len(orders) \in Nat
            /\ UnitTerms(t, "buy") \in [1..Len(orders) -> Nat]
            /\ UnitTerms(t, "sell") \in [1..Len(orders) -> Nat]
            /\ PaidTerms(t) \in [1..Len(orders) -> Nat]
            /\ CostTerms(t) \in [1..Len(orders) -> Nat]
        BY <3>1, TermsAre
      <3> QED
        BY <3>2, SumsAreNatural
    <2>7. CostOf(lots[t]) \in Nat
      BY <2>3, LotsAreCounted
    <2>8. Counted(lots[s])
      BY <2>1 DEF LotsInv
    <2> HIDE DEF q, basis
    <2>9. CASE t # s
      <3>1. lots'[t] = lots[t]
        BY <2>3, <2>9
      <3>2. /\ Total(UnitTerms(t, "buy")') = Total(UnitTerms(t, "buy"))
            /\ Total(UnitTerms(t, "sell")') = Total(UnitTerms(t, "sell"))
            /\ Total(PaidTerms(t)') = Total(PaidTerms(t))
            /\ Total(CostTerms(t)') = Total(CostTerms(t))
        BY <2>4, <2>6, <2>9
      <3> QED
        BY <1>1, <3>1, <3>2
    <2>10. CASE t = s /\ orders[o].side = "buy"
      <3>1. lot.left = q /\ lot.open = q /\ lot.price = f.price
        BY DEF q
      <3>2. /\ CostOf(lots'[t]) = CostOf(lots[t]) + q * f.price
            /\ Total(Opened(lots'[t])) = Total(Opened(lots[t])) + q
            /\ Total(Gone(lots'[t])) = Total(Gone(lots[t]))
        <4>1. /\ lots'[t] = Added(lots[t], lot) /\ lots[t] \in Seq(Lot) /\ lot \in Lot
              /\ Counted(lots[t]) /\ lot.left = lot.open
          BY <2>3, <2>8, <2>10, <3>1
        <4>2. /\ CostOf(lots'[t]) = CostOf(lots[t]) + lot.left * lot.price
              /\ Total(Opened(lots'[t])) = Total(Opened(lots[t])) + lot.open
              /\ Total(Gone(lots'[t])) = Total(Gone(lots[t]))
          BY ONLY <4>1, AddedSums
        <4> QED
          BY <3>1, <4>2
      <3>3. /\ Total(UnitTerms(t, "buy")') = Total(UnitTerms(t, "buy")) + q
            /\ Total(UnitTerms(t, "sell")') = Total(UnitTerms(t, "sell"))
            /\ Total(PaidTerms(t)') = Total(PaidTerms(t)) + q * f.price
            /\ Total(CostTerms(t)') = Total(CostTerms(t))
        BY <2>4, <2>6, <2>10
      <3> HIDE DEF q
      <3> QED
        BY <1>1, <2>2, <2>6, <2>7, <3>2, <3>3
    <2>11. CASE t = s /\ orders[o].side = "sell"
      <3>1. q \in Nat /\ q <= LeftIn(lots[t]) /\ lots'[t] = Consumed(lots[t], q) /\ Counted(lots[t])
        BY <2>2, <2>3, <2>8, <2>11
      <3>2. /\ Total(Opened(lots'[t])) = Total(Opened(lots[t]))
            /\ Total(Gone(lots'[t])) = Total(Gone(lots[t])) + q
        BY <2>3, <3>1, ConsumedKeeps
      <3>3. basis \in Nat /\ CostOf(lots'[t]) + basis = CostOf(lots[t])
        <4>1. basis = CostBasis(lots[t], q) /\ lots[t] \in Seq(Lot)
          BY <2>3, <2>11 DEF basis
        <4>2. /\ CostBasis(lots[t], q) \in Nat
              /\ CostOf(Consumed(lots[t], q)) + CostBasis(lots[t], q) = CostOf(lots[t])
          BY <3>1, <4>1, SaleIsTaken
        <4> QED
          BY <3>1, <4>1, <4>2
      <3>4. CostOf(lots'[t]) \in Nat
        <4>1. lots'[t] \in Seq(Lot)
          BY <2>3, <3>1, ConsumedIs
        <4> QED
          BY <4>1, LotsAreCounted
      <3>5. /\ Total(UnitTerms(t, "buy")') = Total(UnitTerms(t, "buy"))
            /\ Total(UnitTerms(t, "sell")') = Total(UnitTerms(t, "sell")) + q
            /\ Total(PaidTerms(t)') = Total(PaidTerms(t))
            /\ Total(CostTerms(t)') = Total(CostTerms(t)) + basis
        BY <2>4, <2>6, <2>11
      <3> QED
        BY <1>1, <2>6, <2>7, <3>2, <3>3, <3>4, <3>5
    <2> QED
      BY <2>5, <2>9, <2>10, <2>11
  <1>5. ASSUME NEW n \in DOMAIN book, NEW p \in Prices, BrokerFill(n, p)
        PROVE  orders' = orders /\ executions' = executions /\ lots' = lots
    BY <1>5 DEF BrokerFill, ledgerVars
  <1>6. CollectFills => orders' = orders /\ executions' = executions /\ lots' = lots
    BY DEF CollectFills, ledgerVars
  <1>7. FewerFills => orders' = orders /\ executions' = executions /\ lots' = lots
    BY DEF FewerFills
  <1> QED
    BY <1>2, <1>3, <1>4, <1>5, <1>6, <1>7, NextSteps

-----------------------------------------------------------------------------
(***************************************************************************)
(* The theorems.                                                           *)
(***************************************************************************)
LEMMA InitLots ==
  ASSUME Init
  PROVE  LotsInv /\ ExecutionsExplainLots
  <1>1. /\ orders = <<>> /\ book = <<>> /\ fills = <<>>
        /\ lots = [s \in Strategies |-> <<>>] /\ position = [s \in Strategies |-> NoPosition]
    BY DEF Init
  <1>2. <<>> \in Seq(Lot) /\ Len(<<>>) = 0 /\ \A i \in 1..0 : FALSE
    BY EmptySeq
  <1>3. /\ Units(<<>>) \in [1..0 -> Nat] /\ Costs(<<>>) \in [1..0 -> Nat]
        /\ Opened(<<>>) \in [1..0 -> Nat] /\ Gone(<<>>) \in [1..0 -> Nat]
    <2>1. Counted(<<>>)
      BY <1>2 DEF Counted
    <2> QED
      BY <1>2, <2>1, LotsAreCounted, OpenedAndGone
  <1>4. /\ LeftIn(<<>>) = 0 /\ CostOf(<<>>) = 0 /\ Total(Opened(<<>>)) = 0 /\ Total(Gone(<<>>)) = 0
    BY <1>2, <1>3, ZeroTotal DEF LeftIn, CostOf
  <1>5. Sorted(<<>>) /\ Counted(<<>>)
    BY <1>2 DEF Sorted, Counted
  <1>6. LotsInv
    BY <1>1, <1>2, <1>4, <1>5 DEF LotsInv, NoPosition
  <1>7. ExecutionsExplainLots
    <2> SUFFICES ASSUME NEW s \in Strategies
                 PROVE  /\ Total(UnitTerms(s, "buy")) = 0 /\ Total(UnitTerms(s, "sell")) = 0
                        /\ Total(PaidTerms(s)) = 0 /\ Total(CostTerms(s)) = 0
      BY <1>1, <1>4, ExplainedBy
    <2>1. TablesInv /\ RowsInv /\ Len(orders) = 0
      BY <1>1, <1>2, InitBook DEF BookInv
    <2>2. /\ UnitTerms(s, "buy") \in [1..0 -> Nat] /\ UnitTerms(s, "sell") \in [1..0 -> Nat]
          /\ PaidTerms(s) \in [1..0 -> Nat] /\ CostTerms(s) \in [1..0 -> Nat]
      BY <2>1, TermsAre
    <2> QED
      BY <1>2, <2>2, ZeroTotal
  <1> QED
    BY <1>6, <1>7

LedgerInv == BookInv /\ LotsInv /\ TimeInv /\ ExecutionsExplainLots

(* The invariant that the theorems follow from.                              *)
THEOREM LedgerIsKept == Spec => []LedgerInv
  <1>1. Init => LedgerInv
    BY InitBook, InitLots, InitTime DEF LedgerInv
  <1>2. LedgerInv /\ [Next]_vars => LedgerInv'
    BY BookIsKept, LotsAreKept, TimeIsKept, ExplanationIsKept DEF LedgerInv
  <1> QED
    BY <1>1, <1>2, PTL DEF Spec

(* Every table holds what its columns may hold, whatever is polled and       *)
(* booked.                                                                   *)
THEOREM TypeCorrect == Spec => []TypeOK
  <1>1. LedgerInv => TypeOK
    <2> SUFFICES ASSUME LedgerInv PROVE TypeOK
      OBVIOUS
    <2>1. TablesInv
      BY DEF LedgerInv, BookInv
    <2>2. \A i \in DOMAIN fills : fills[i].no \in Numbers /\ fills[i].quantity > 0
      <3>1. ASSUME NEW i \in 1..Len(fills) PROVE fills[i].no \in Numbers /\ fills[i].quantity > 0
        <4>1. fills[i] \in Filling
          BY <2>1, ElementOfSeq DEF TablesInv
        <4>2. fills[i].no \in Numbers /\ fills[i].quantity \in Nat \ {0}
          BY <4>1 DEF Filling
        <4> QED
          BY <4>2
      <3> QED
        BY <2>1, <3>1, LenProperties DEF TablesInv
    <2> QED
      BY <2>1, <2>2 DEF TypeOK, TablesInv, Row, Entry, Lot, Holding, BookRow
  <1> QED
    BY <1>1, LedgerIsKept, PTL

(* Position.quantity and Position.avg_cost are what the lots say, though     *)
(* _apply_buy adds to them and _apply_sell computes them anew.               *)
THEOREM PositionsAreTheirLots == Spec => []LotsExplainPosition
  <1>1. LedgerInv => LotsExplainPosition
    BY DEF LedgerInv, LotsInv, LotsExplainPosition
  <1> QED
    BY <1>1, LedgerIsKept, PTL

(* _apply_sell takes from the oldest lot, and no later fill, restart or      *)
(* dropped duplicate puts a lot before one that has been used.               *)
THEOREM LotsAreUsedInOrder == Spec => []OldestLotFirst
  <1>1. LedgerInv => OldestLotFirst
    <2> SUFFICES ASSUME LedgerInv, NEW s \in Strategies, NEW i \in DOMAIN lots[s], NEW j \in DOMAIN lots[s],
                        i < j, lots[s][j].left < lots[s][j].open
                 PROVE  lots[s][i].left = 0
      BY DEF OldestLotFirst
    <2>1. lots[s] \in Seq(Lot)
      BY DEF LedgerInv, BookInv, TablesInv
    <2>2. DOMAIN lots[s] = 1..Len(lots[s])
      BY <2>1, LotsAreCounted
    <2>3. UsedInOrder(lots[s])
      BY DEF LedgerInv, TimeInv
    <2> QED
      BY <2>2, <2>3 DEF UsedInOrder
  <1> QED
    BY <1>1, LedgerIsKept, PTL

(* A filled order has executions for all that the broker filled of it, in    *)
(* units and in money: no rounding of _derive_delta_price and no poll that   *)
(* was cut short leaves a difference.                                        *)
THEOREM FillsMatchBroker == Spec => []FilledMatchesBroker
  <1>1. LedgerInv => FilledMatchesBroker
    <2> SUFFICES ASSUME LedgerInv, NEW o \in DOMAIN orders, orders[o].status = "filled"
                 PROVE  FilledQuantity(o) = AtBroker(o).filled /\ FilledAmount(o) = AtBroker(o).amount
      BY DEF FilledMatchesBroker
    <2>1. TablesInv /\ RowsInv /\ MoneyInv
      BY DEF LedgerInv, BookInv
    <2>2. o \in 1..Len(orders)
      BY <2>1, LenProperties DEF TablesInv
    <2>3. /\ AtBroker(o) = book[o] /\ FilledQuantity(o) \in Nat /\ book[o].filled \in Nat
          /\ book[o].quantity \in Nat
      BY <2>1, <2>2, OrderFacts
    <2>4. ~Active(o)
      BY DEF Active
    <2>5. ~(FilledQuantity(o) < book[o].quantity) /\ book[o].filled <= book[o].quantity
      BY <2>1, <2>2, <2>4 DEF RowsInv, MoneyInv
    <2>6. /\ FilledQuantity(o) <= book[o].filled
          /\ FilledQuantity(o) = book[o].filled <=> FilledAmount(o) = book[o].amount
      BY <2>1, <2>2 DEF MoneyInv, PartOf
    <2>7. FilledQuantity(o) = book[o].filled
      BY <2>3, <2>5, <2>6
    <2> QED
      BY <2>3, <2>6, <2>7
  <1> QED
    BY <1>1, LedgerIsKept, PTL

(* What the buys of a strategy brought is in its lots and what its sells     *)
(* took has left them, and what was paid is in the lots or in the            *)
(* realized_cost_basis of the sells.                                         *)
THEOREM LotsAreExecutions == Spec => []ExecutionsExplainLots
  <1>1. LedgerInv => ExecutionsExplainLots
    BY DEF LedgerInv
  <1> QED
    BY <1>1, LedgerIsKept, PTL

(* Position.highest_price is not below the price of a lot that is still      *)
(* held.                                                                     *)
THEOREM HighestIsReached == Spec => []HighestCoversLots
  <1>1. LedgerInv => HighestCoversLots
    <2> SUFFICES ASSUME LedgerInv, NEW s \in Strategies, NEW i \in DOMAIN lots[s], lots[s][i].left > 0
                 PROVE  lots[s][i].price <= position[s].highest
      BY DEF HighestCoversLots
    <2>1. lots[s] \in Seq(Lot)
      BY DEF LedgerInv, BookInv, TablesInv
    <2>2. DOMAIN lots[s] = 1..Len(lots[s])
      BY <2>1, LotsAreCounted
    <2> QED
      BY <2>2 DEF LedgerInv, LotsInv
  <1> QED
    BY <1>1, LedgerIsKept, PTL

-----------------------------------------------------------------------------
(***************************************************************************)
(* Repairs: the tables as one value, and sums over their rows.             *)
(***************************************************************************)
\* A sum with one term exchanged.
LEMMA TermExchanged ==
  ASSUME NEW n \in Nat, NEW f \in [1..n -> Nat], NEW g \in [1..n -> Nat], NEW j \in 1..n,
         \A i \in 1..n : i # j => g[i] = f[i]
  PROVE  Total(g) + f[j] = Total(f) + g[j]
  <1>1. f[j] \in Nat /\ g[j] \in Nat /\ Total(f) \in Nat /\ Total(g) \in Nat
    BY SumsAreNatural
  <1>2. CASE f[j] <= g[j]
    <2> DEFINE x == g[j] - f[j]
    <2>1. x \in Nat /\ g[j] = f[j] + x
      BY <1>1, <1>2
    <2>2. /\ x \in Nat /\ g[j] = f[j] + x
          /\ n \in Nat /\ f \in [1..n -> Nat] /\ g \in [1..n -> Nat] /\ j \in 1..n
          /\ \A i \in 1..n : i # j => g[i] = f[i]
      BY <2>1
    <2> HIDE DEF x
    <2>3. Total(g) = Total(f) + x
      BY ONLY <2>2, SumsChange
    <2> QED
      BY <1>1, <2>1, <2>3
  <1>3. CASE g[j] <= f[j]
    <2> DEFINE x == f[j] - g[j]
    <2>1. x \in Nat /\ f[j] = g[j] + x
      BY <1>1, <1>3
    <2>2. /\ x \in Nat /\ f[j] = g[j] + x
          /\ n \in Nat /\ f \in [1..n -> Nat] /\ g \in [1..n -> Nat] /\ j \in 1..n
          /\ \A i \in 1..n : i # j => f[i] = g[i]
      BY <2>1
    <2> HIDE DEF x
    <2>3. Total(f) = Total(g) + x
      BY ONLY <2>2, SumsChange
    <2> QED
      BY <1>1, <2>1, <2>3
  <1> QED
    BY <1>1, <1>2, <1>3

\* A sum of smaller terms.
LEMMA SmallerTerms ==
  ASSUME NEW n \in Nat, NEW f \in [1..n -> Nat], NEW g \in [1..n -> Nat],
         \A i \in 1..n : f[i] <= g[i]
  PROVE  Total(f) <= Total(g)
  <1> DEFINE rest == [i \in 1..n |-> g[i] - f[i]]
  <1>1. /\ n \in Nat /\ f \in [1..n -> Nat] /\ rest \in [1..n -> Nat] /\ g \in [1..n -> Nat]
        /\ \A i \in 1..n : g[i] = f[i] + rest[i]
    OBVIOUS
  <1> HIDE DEF rest
  <1>2. Total(g) = Total(f) + Total(rest)
    BY ONLY <1>1, SumsAdd
  <1>3. Total(f) \in Nat /\ Total(rest) \in Nat
    BY <1>1, SumsAreNatural
  <1> QED
    BY <1>2, <1>3

Priced == [no : Numbers, quantity : Nat \ {0}, price : Nat, at : Nat, basis : Nat]
News == [no : Numbers, order : Nat, quantity : Nat \ {0}, price : Nat, at : Nat]
Tables == [orders : Seq(Row), executions : [Ids -> Seq(Priced)],
           lots : [Strategies -> Seq(Lot)], position : [Strategies -> Holding]]

Rows(l) == 1..Len(l.orders)
Open(l, o) == l.orders[o].status \in {"submitted", "partially_filled"}
Filled(l, o) == Total(Quantities(l.executions[o]))
Reports(l, b, o) == b[l.orders[o].number].filled

\* Where the orgno beside a number came from.
IsNamed(row) == \/ row.orgno <=> row.number \in OrgnoInAnswer
                \/ row.orgno <=> row.number \in OrgnoInReport

\* No row has more executions than the broker reports of its order, no strategy
\* has two rows of one key, nor two open rows unless they are sells of two orders.
Shape(l, b) ==
  /\ l \in Tables /\ b \in Seq(BookRow) /\ Len(l.orders) <= MaxOrders
  /\ \A o \in Rows(l) : /\ l.orders[o].number \in 1..Len(b)
                        /\ b[l.orders[o].number].side = l.orders[o].side
                        /\ Filled(l, o) <= Reports(l, b, o) /\ IsNamed(l.orders[o])
  /\ \A o \in Ids : o > Len(l.orders) => l.executions[o] = <<>>
  /\ \A o, p \in Rows(l) :
       o # p /\ l.orders[o].strategy = l.orders[p].strategy =>
         /\ OrderKey(l.orders[o]) # OrderKey(l.orders[p])
         /\ Open(l, o) /\ Open(l, p) =>
              l.orders[o].side = "sell" /\ l.orders[o].number # l.orders[p].number

\* The executions of one more booking.
LEMMA OneMorePriced ==
  ASSUME NEW entries \in Seq(Priced)
  PROVE  /\ Total(Quantities(entries)) \in Nat
         /\ \A e \in Priced : /\ Append(entries, e) \in Seq(Priced)
                              /\ Total(Quantities(Append(entries, e))) = Total(Quantities(entries)) + e.quantity
  <1> DEFINE len == Len(entries)
             f == Quantities(entries)
  <1>1. /\ len \in Nat /\ DOMAIN entries = 1..len
        /\ \A i \in 1..len : entries[i] \in Priced
    BY LenProperties, ElementOfSeq
  <1>2. \A i \in 1..len : entries[i].quantity \in Nat
    BY <1>1 DEF Priced
  <1>3. f \in [1..len -> Nat]
    BY <1>1, <1>2 DEF Quantities
  <1>4. Total(f) \in Nat
    BY <1>1, <1>3, SumsAreNatural
  <1>5. ASSUME NEW e \in Priced
        PROVE  /\ Append(entries, e) \in Seq(Priced)
               /\ Total(Quantities(Append(entries, e))) = Total(f) + e.quantity
    <2> DEFINE more == Append(entries, e)
               g == Quantities(more)
    <2>1. more \in Seq(Priced) /\ Len(more) = len + 1 /\ more[len + 1] = e
          /\ \A i \in 1..len : more[i] = entries[i]
      BY AppendProperties
    <2> HIDE DEF more
    <2>2. DOMAIN more = 1..(len + 1) /\ len + 1 \in 1..(len + 1) /\ \A i \in 1..len : i \in 1..(len + 1)
      BY <1>1, <2>1, LenProperties
    <2>3. e.quantity \in Nat
      BY DEF Priced
    <2>4. \A i \in 1..(len + 1) : more[i].quantity \in Nat
      BY <1>1, <1>2, <2>1, <2>3
    <2>5. g \in [1..(len + 1) -> Nat] /\ g[len + 1] = e.quantity
      BY <2>1, <2>2, <2>4 DEF Quantities
    <2>6. \A i \in 1..len : g[i] = f[i]
      BY <1>1, <2>1, <2>2 DEF Quantities
    <2>7. len \in Nat /\ f \in [1..len -> Nat] /\ g \in [1..(len + 1) -> Nat] /\ \A i \in 1..len : g[i] = f[i]
      BY <1>1, <1>3, <2>5, <2>6
    <2> HIDE DEF f, g, len
    <2>8. Total(g) = Total(f) + g[len + 1]
      BY ONLY <2>7, SumsAppend
    <2> QED
      BY <2>1, <2>5, <2>8 DEF f, g, more
  <1> QED
    BY <1>4, <1>5

\* What a row of sound tables holds.
LEMMA RowFacts ==
  ASSUME NEW l, NEW b, Shape(l, b)
  PROVE  /\ Len(l.orders) \in Nat /\ DOMAIN l.orders = Rows(l) /\ Rows(l) \subseteq Ids
         /\ Len(b) \in Nat /\ DOMAIN b = 1..Len(b)
         /\ \A o \in Rows(l) :
              /\ l.orders[o] \in Row /\ l.orders[o].strategy \in Strategies
              /\ l.orders[o].side \in {"buy", "sell"} /\ l.orders[o].number \in 1..Len(b)
              /\ l.executions[o] \in Seq(Priced) /\ Filled(l, o) \in Nat /\ Reports(l, b, o) \in Nat
              /\ Filled(l, o) <= Reports(l, b, o)
         /\ \A n \in 1..Len(b) :
              b[n] \in BookRow /\ b[n].filled \in Nat /\ b[n].amount \in Nat /\ b[n].at \in Nat
              /\ b[n].quantity \in Nat \ {0} /\ b[n].side \in {"buy", "sell"}
  <1>1. l \in Tables /\ b \in Seq(BookRow) /\ Len(l.orders) <= MaxOrders
    BY DEF Shape
  <1>2. l.orders \in Seq(Row) /\ l.executions \in [Ids -> Seq(Priced)]
    BY <1>1 DEF Tables
  <1>3. Len(l.orders) \in Nat /\ DOMAIN l.orders = Rows(l) /\ Len(b) \in Nat /\ DOMAIN b = 1..Len(b)
    BY <1>1, <1>2, LenProperties DEF Rows
  <1>4. Rows(l) \subseteq Ids
    BY <1>1, <1>3, FillLedgerAssumption DEF Rows, Ids
  <1>5. \A o \in Rows(l) : l.orders[o] \in Row
    BY <1>2, ElementOfSeq DEF Rows
  <1>6. \A n \in 1..Len(b) : b[n] \in BookRow
    BY <1>1, ElementOfSeq
  <1>7. \A n \in 1..Len(b) : b[n].filled \in Nat /\ b[n].amount \in Nat /\ b[n].at \in Nat
          /\ b[n].quantity \in Nat \ {0} /\ b[n].side \in {"buy", "sell"}
    BY <1>6 DEF BookRow
  <1>8. \A o \in Rows(l) : l.orders[o].strategy \in Strategies /\ l.orders[o].side \in {"buy", "sell"}
    BY <1>5 DEF Row
  <1>9. \A o \in Rows(l) : l.orders[o].number \in 1..Len(b) /\ Filled(l, o) <= Reports(l, b, o)
    BY DEF Shape
  <1>10. \A o \in Rows(l) : l.executions[o] \in Seq(Priced)
    BY <1>2, <1>4
  <1>11. \A o \in Rows(l) : Filled(l, o) \in Nat
    BY <1>10, OneMorePriced DEF Filled
  <1>12. \A o \in Rows(l) : Reports(l, b, o) \in Nat
    BY <1>7, <1>9 DEF Reports
  <1> QED
    BY <1>3, <1>4, <1>5, <1>6, <1>7, <1>8, <1>9, <1>10, <1>11, <1>12

-----------------------------------------------------------------------------
(***************************************************************************)
(* A sum over the strategies is one over the first rows of each.           *)
(***************************************************************************)
IsFirst(r, o) == \A p \in 1..(o - 1) : r[p].strategy # r[o].strategy
FirstIn(r, k) == [o \in 1..Len(r) |-> IF IsFirst(r, o) THEN k[r[o].strategy] ELSE 0]
HasRows(r, t) == \E o \in 1..Len(r) : r[o].strategy = t

LEMMA FirstRow ==
  ASSUME NEW r \in Seq(Row), NEW t \in Strategies, HasRows(r, t)
  PROVE  \E j \in 1..Len(r) : /\ IsFirst(r, j) /\ r[j].strategy = t
                              /\ \A i \in 1..Len(r) : IsFirst(r, i) /\ r[i].strategy = t => i = j
  <1> DEFINE T == {o \in 1..Len(r) : r[o].strategy = t}
  <1>1. T \in SUBSET Nat /\ T # {} /\ Len(r) \in Nat
    BY LenProperties DEF HasRows
  <1>2. PICK j \in T : \A o \in T : j <= o
    BY <1>1, LeastNatural
  <1>3. j \in 1..Len(r) /\ r[j].strategy = t
    BY <1>2
  <1>4. IsFirst(r, j)
    <2> SUFFICES ASSUME NEW p \in 1..(j - 1), r[p].strategy = t PROVE FALSE
      BY <1>3 DEF IsFirst
    <2>1. p \in T
      BY <1>1, <1>3
    <2> QED
      BY <1>1, <1>2, <1>3, <2>1
  <1>5. ASSUME NEW i \in 1..Len(r), IsFirst(r, i), r[i].strategy = t PROVE i = j
    <2>1. j <= i
      BY <1>2, <1>5
    <2>2. j < i => j \in 1..(i - 1)
      BY <1>3
    <2> QED
      BY <1>3, <1>5, <2>1, <2>2 DEF IsFirst
  <1> QED
    BY <1>3, <1>4, <1>5

LEMMA FirstIsCounted ==
  ASSUME NEW r \in Seq(Row), NEW k \in [Strategies -> Nat]
  PROVE  /\ Len(r) \in Nat /\ \A o \in 1..Len(r) : r[o].strategy \in Strategies
         /\ FirstIn(r, k) \in [1..Len(r) -> Nat] /\ Total(FirstIn(r, k)) \in Nat
  <1>1. Len(r) \in Nat /\ \A o \in 1..Len(r) : r[o] \in Row
    BY LenProperties, ElementOfSeq
  <1>2. \A o \in 1..Len(r) : r[o].strategy \in Strategies
    BY <1>1 DEF Row
  <1>3. FirstIn(r, k) \in [1..Len(r) -> Nat]
    BY <1>2 DEF FirstIn
  <1>4. Total(FirstIn(r, k)) \in Nat
    BY <1>1, <1>3, SumsAreNatural
  <1> QED
    BY <1>1, <1>2, <1>3, <1>4

\* The sum when one strategy has another number.
LEMMA FirstExchanged ==
  ASSUME NEW r \in Seq(Row), NEW k \in [Strategies -> Nat], NEW m \in [Strategies -> Nat],
         NEW t \in Strategies, HasRows(r, t), \A u \in Strategies : u # t => m[u] = k[u]
  PROVE  Total(FirstIn(r, m)) + k[t] = Total(FirstIn(r, k)) + m[t]
  <1> DEFINE n == Len(r)
             f == FirstIn(r, k)
             g == FirstIn(r, m)
  <1>1. PICK j \in 1..Len(r) : /\ IsFirst(r, j) /\ r[j].strategy = t
                               /\ \A i \in 1..Len(r) : IsFirst(r, i) /\ r[i].strategy = t => i = j
    BY FirstRow
  <1>2. /\ n \in Nat /\ f \in [1..n -> Nat] /\ g \in [1..n -> Nat]
        /\ \A o \in 1..n : r[o].strategy \in Strategies
    BY FirstIsCounted
  <1>3. f[j] = k[t] /\ g[j] = m[t]
    BY <1>1 DEF FirstIn
  <1>4. \A i \in 1..n : i # j => g[i] = f[i]
    BY <1>1, <1>2 DEF FirstIn
  <1>5. /\ n \in Nat /\ f \in [1..n -> Nat] /\ g \in [1..n -> Nat] /\ j \in 1..n
        /\ \A i \in 1..n : i # j => g[i] = f[i]
    BY <1>2, <1>4
  <1> HIDE DEF f, g, n
  <1>6. Total(g) + f[j] = Total(f) + g[j]
    BY ONLY <1>5, TermExchanged
  <1> QED
    BY <1>3, <1>6 DEF f, g

LEMMA FirstSmaller ==
  ASSUME NEW r \in Seq(Row), NEW k \in [Strategies -> Nat], NEW m \in [Strategies -> Nat],
         \A t \in Strategies : k[t] <= m[t]
  PROVE  Total(FirstIn(r, k)) <= Total(FirstIn(r, m))
  <1> DEFINE n == Len(r)
             f == FirstIn(r, k)
             g == FirstIn(r, m)
  <1>1. /\ n \in Nat /\ f \in [1..n -> Nat] /\ g \in [1..n -> Nat]
        /\ \A o \in 1..n : r[o].strategy \in Strategies
    BY FirstIsCounted
  <1>2. \A i \in 1..n : f[i] <= g[i]
    BY <1>1 DEF FirstIn
  <1>3. n \in Nat /\ f \in [1..n -> Nat] /\ g \in [1..n -> Nat] /\ \A i \in 1..n : f[i] <= g[i]
    BY <1>1, <1>2
  <1> HIDE DEF f, g, n
  <1> QED
    BY ONLY <1>3, SmallerTerms DEF f, g

LEMMA FirstAppended ==
  ASSUME NEW r \in Seq(Row), NEW row \in Row, NEW k \in [Strategies -> Nat]
  PROVE  Total(FirstIn(Append(r, row), k)) =
           Total(FirstIn(r, k)) + (IF HasRows(r, row.strategy) THEN 0 ELSE k[row.strategy])
  <1> DEFINE n == Len(r)
             more == Append(r, row)
             f == FirstIn(r, k)
             g == FirstIn(more, k)
  <1>1. more \in Seq(Row) /\ Len(more) = n + 1 /\ more[n + 1] = row /\ \A i \in 1..n : more[i] = r[i]
    BY AppendProperties
  <1> HIDE DEF more
  <1>2. n \in Nat /\ f \in [1..n -> Nat] /\ g \in [1..(n + 1) -> Nat]
    BY <1>1, FirstIsCounted
  <1>3. ASSUME NEW i \in 1..n PROVE g[i] = f[i]
    <2>1. i \in 1..(n + 1) /\ \A p \in 1..(i - 1) : p \in 1..n
      BY <1>2
    <2>2. IsFirst(more, i) <=> IsFirst(r, i)
      BY <1>1, <2>1 DEF IsFirst
    <2> QED
      BY <1>1, <2>1, <2>2 DEF FirstIn
  <1>4. g[n + 1] = IF HasRows(r, row.strategy) THEN 0 ELSE k[row.strategy]
    <2>1. n + 1 \in 1..(n + 1) /\ (n + 1) - 1 = n
      BY <1>2
    <2>2. IsFirst(more, n + 1) <=> ~HasRows(r, row.strategy)
      BY <1>1, <2>1 DEF IsFirst, HasRows
    <2> QED
      BY <1>1, <2>1, <2>2 DEF FirstIn
  <1>5. n \in Nat /\ f \in [1..n -> Nat] /\ g \in [1..(n + 1) -> Nat] /\ \A i \in 1..n : g[i] = f[i]
    BY <1>2, <1>3
  <1> HIDE DEF f, g, n
  <1>6. Total(g) = Total(f) + g[n + 1]
    BY ONLY <1>5, SumsAppend
  <1> QED
    BY <1>4, <1>6 DEF f, g, more

LEMMA FirstOfSameRows ==
  ASSUME NEW r \in Seq(Row), NEW q \in Seq(Row), NEW k, Len(q) = Len(r),
         \A o \in 1..Len(r) : q[o].strategy = r[o].strategy
  PROVE  FirstIn(q, k) = FirstIn(r, k) /\ \A t : HasRows(q, t) <=> HasRows(r, t)
  <1>1. Len(r) \in Nat
    BY LenProperties
  <1>2. ASSUME NEW o \in 1..Len(r) PROVE IsFirst(q, o) <=> IsFirst(r, o)
    <2>1. \A p \in 1..(o - 1) : p \in 1..Len(r)
      BY <1>1
    <2> QED
      BY <2>1 DEF IsFirst
  <1> QED
    BY <1>2 DEF FirstIn, HasRows

\* The sum when only one strategy has a number.
LEMMA FirstOfOne ==
  ASSUME NEW r \in Seq(Row), NEW k \in [Strategies -> Nat], NEW t \in Strategies, HasRows(r, t),
         \A u \in Strategies : u # t => k[u] = 0
  PROVE  Total(FirstIn(r, k)) = k[t]
  <1> DEFINE none == [u \in Strategies |-> 0]
             f == FirstIn(r, none)
             n == Len(r)
  <1>1. none \in [Strategies -> Nat] /\ none[t] = 0 /\ \A u \in Strategies : u # t => k[u] = none[u]
    OBVIOUS
  <1> HIDE DEF none
  <1>2. n \in Nat /\ f \in [1..n -> Nat] /\ \A o \in 1..n : r[o].strategy \in Strategies
    BY <1>1, FirstIsCounted
  <1>3. \A o \in 1..n : f[o] = 0
    BY <1>2 DEF FirstIn, none
  <1>4. n \in Nat /\ f \in [1..n -> Nat] /\ \A o \in 1..n : f[o] = 0
    BY <1>2, <1>3
  <1> HIDE DEF f, n
  <1>5. Total(f) = 0
    BY ONLY <1>4, ZeroTotal
  <1>6. Total(FirstIn(r, k)) + none[t] = Total(FirstIn(r, none)) + k[t]
    BY <1>1, FirstExchanged
  <1>7. Total(FirstIn(r, k)) \in Nat /\ k[t] \in Nat
    BY FirstIsCounted
  <1> QED
    BY <1>1, <1>5, <1>6, <1>7 DEF f

-----------------------------------------------------------------------------
(***************************************************************************)
(* What is executed, reported, pending and traded.                         *)
(***************************************************************************)
IsPending(l, o, t) == l.orders[o].strategy = t /\ l.orders[o].side = "sell" /\ Open(l, o)

ExecutedIn(l, side) == [o \in Rows(l) |-> IF l.orders[o].side = side THEN Filled(l, o) ELSE 0]
ReportedIn(l, b) == [o \in Rows(l) |-> IF l.orders[o].side = "buy" THEN Reports(l, b, o) ELSE 0]
PendingIn(l, b, t) ==
  [o \in Rows(l) |-> IF IsPending(l, o, t) THEN Reports(l, b, o) - Filled(l, o) ELSE 0]
TradedIn(b, side) == [n \in 1..Len(b) |-> IF b[n].side = side THEN b[n].filled ELSE 0]
Held(l) == [t \in Strategies |-> l.position[t].quantity]

Executed(l, side) == Total(ExecutedIn(l, side))
Reported(l, b) == Total(ReportedIn(l, b))
Pending(l, b, t) == Total(PendingIn(l, b, t))
Traded(b, side) == Total(TradedIn(b, side))
OverStrategies(l, k) == Total(FirstIn(l.orders, k))

\* Every buy at the broker has one row: the owner of the account only sells.
BuysFit(l, b) ==
  /\ \A n \in 1..Len(b) : b[n].side = "buy" =>
       \E o \in Rows(l) : \A p \in Rows(l) : l.orders[p].number = n <=> p = o
  /\ Traded(b, "buy") = Reported(l, b)

\* The lots explain the positions, and all positions are what is bought and not sold.
PositionsFit(l) ==
  /\ \A t \in Strategies : Explains(l.lots[t], l.position[t])
  /\ \A t \in Strategies : l.position[t].quantity # 0 => HasRows(l.orders, t)
  /\ OverStrategies(l, Held(l)) + Executed(l, "sell") = Executed(l, "buy")

Sound(l, b) == Shape(l, b) /\ BuysFit(l, b) /\ PositionsFit(l)

LEMMA SumFacts ==
  ASSUME NEW l, NEW b, Shape(l, b)
  PROVE  /\ \A side : ExecutedIn(l, side) \in [Rows(l) -> Nat] /\ Executed(l, side) \in Nat
         /\ ReportedIn(l, b) \in [Rows(l) -> Nat] /\ Reported(l, b) \in Nat
         /\ \A t : PendingIn(l, b, t) \in [Rows(l) -> Nat] /\ Pending(l, b, t) \in Nat
         /\ \A side : TradedIn(b, side) \in [1..Len(b) -> Nat] /\ Traded(b, side) \in Nat
         /\ Held(l) \in [Strategies -> Nat] /\ l.orders \in Seq(Row)
  <1>1. /\ Len(l.orders) \in Nat /\ Len(b) \in Nat
        /\ \A o \in Rows(l) : /\ Filled(l, o) \in Nat /\ Reports(l, b, o) \in Nat
                              /\ Filled(l, o) <= Reports(l, b, o)
        /\ \A n \in 1..Len(b) : b[n].filled \in Nat
    BY RowFacts
  <1>2. \A o \in Rows(l) : Reports(l, b, o) - Filled(l, o) \in Nat
    BY <1>1
  <1>3. ReportedIn(l, b) \in [Rows(l) -> Nat] /\ Reported(l, b) \in Nat
    <2>1. ReportedIn(l, b) \in [Rows(l) -> Nat]
      BY <1>1 DEF ReportedIn
    <2> QED
      BY <1>1, <2>1, SumsAreNatural DEF Reported, Rows
  <1>4. ASSUME NEW side PROVE ExecutedIn(l, side) \in [Rows(l) -> Nat] /\ Executed(l, side) \in Nat
    <2>1. ExecutedIn(l, side) \in [Rows(l) -> Nat]
      BY <1>1 DEF ExecutedIn
    <2> QED
      BY <1>1, <2>1, SumsAreNatural DEF Executed, Rows
  <1>5. ASSUME NEW t PROVE PendingIn(l, b, t) \in [Rows(l) -> Nat] /\ Pending(l, b, t) \in Nat
    <2>1. PendingIn(l, b, t) \in [Rows(l) -> Nat]
      BY <1>2 DEF PendingIn
    <2> QED
      BY <1>1, <2>1, SumsAreNatural DEF Pending, Rows
  <1>6. ASSUME NEW side PROVE TradedIn(b, side) \in [1..Len(b) -> Nat] /\ Traded(b, side) \in Nat
    <2>1. TradedIn(b, side) \in [1..Len(b) -> Nat]
      BY <1>1 DEF TradedIn
    <2> QED
      BY <1>1, <2>1, SumsAreNatural DEF Traded
  <1>7. Held(l) \in [Strategies -> Nat] /\ l.orders \in Seq(Row)
    <2>1. l.orders \in Seq(Row) /\ l.position \in [Strategies -> Holding]
      BY DEF Shape, Tables
    <2>2. \A t \in Strategies : l.position[t].quantity \in Nat
      BY <2>1 DEF Holding
    <2> QED
      BY <2>1, <2>2 DEF Held
  <1> QED
    BY <1>3, <1>4, <1>5, <1>6, <1>7

\* Executions, reports and pending sells are those of the rows one by one.
LEMMA SameSums ==
  ASSUME NEW l, NEW b, NEW m, NEW c, Len(m.orders) = Len(l.orders),
         \A o \in Rows(l) : /\ m.orders[o].side = l.orders[o].side
                            /\ m.orders[o].strategy = l.orders[o].strategy
                            /\ Open(m, o) <=> Open(l, o)
                            /\ Filled(m, o) = Filled(l, o) /\ Reports(m, c, o) = Reports(l, b, o)
  PROVE  /\ \A side : Executed(m, side) = Executed(l, side)
         /\ Reported(m, c) = Reported(l, b) /\ \A t : Pending(m, c, t) = Pending(l, b, t)
  <1>1. Rows(m) = Rows(l)
    BY DEF Rows
  <1>2. \A side : ExecutedIn(m, side) = ExecutedIn(l, side)
    BY <1>1 DEF ExecutedIn
  <1>3. ReportedIn(m, c) = ReportedIn(l, b)
    BY <1>1 DEF ReportedIn
  <1>4. \A t : PendingIn(m, c, t) = PendingIn(l, b, t)
    BY <1>1 DEF PendingIn, IsPending
  <1> QED
    BY <1>2, <1>3, <1>4 DEF Executed, Reported, Pending

\* An order at the broker that has not filled yet.
LEMMA BookLonger ==
  ASSUME NEW l, NEW b, Shape(l, b), NEW x \in BookRow, x.filled = 0
  PROVE  LET c == Append(b, x) IN
         /\ Shape(l, c) /\ Len(c) = Len(b) + 1 /\ c[Len(b) + 1] = x
         /\ \A n \in 1..Len(b) : c[n] = b[n]
         /\ \A o \in Rows(l) : Reports(l, c, o) = Reports(l, b, o)
         /\ \A side : Traded(c, side) = Traded(b, side)
         /\ Reported(l, c) = Reported(l, b) /\ \A t : Pending(l, c, t) = Pending(l, b, t)
  <1> DEFINE c == Append(b, x)
             n == Len(b)
  <1>1. b \in Seq(BookRow) /\ n \in Nat /\ \A o \in Rows(l) : l.orders[o].number \in 1..n
    BY RowFacts DEF Shape
  <1>2. c \in Seq(BookRow) /\ Len(c) = n + 1 /\ c[n + 1] = x /\ \A i \in 1..n : c[i] = b[i]
    BY <1>1, AppendProperties
  <1> HIDE DEF c
  <1>3. \A o \in Rows(l) : Reports(l, c, o) = Reports(l, b, o)
    BY <1>1, <1>2 DEF Reports
  <1>4. Shape(l, c)
    <2>1. \A o \in Rows(l) : l.orders[o].number \in 1..Len(c) /\ c[l.orders[o].number] = b[l.orders[o].number]
      BY <1>1, <1>2
    <2> QED
      BY <1>2, <1>3, <2>1 DEF Shape
  <1>5. Reported(l, c) = Reported(l, b) /\ \A t : Pending(l, c, t) = Pending(l, b, t)
    BY <1>3 DEF Reported, ReportedIn, Pending, PendingIn
  <1>6. ASSUME NEW side PROVE Traded(c, side) = Traded(b, side)
    <2> DEFINE f == TradedIn(b, side)
               g == TradedIn(c, side)
    <2>1. f \in [1..n -> Nat] /\ g \in [1..(n + 1) -> Nat] /\ Total(f) \in Nat
      <3>1. f \in [1..Len(b) -> Nat] /\ Total(f) \in Nat
        BY SumFacts DEF Traded
      <3>2. g \in [1..Len(c) -> Nat]
        BY <1>4, SumFacts
      <3> QED
        BY <1>2, <3>1, <3>2
    <2>2. \A i \in 1..n : g[i] = f[i]
      BY <1>1, <1>2 DEF TradedIn
    <2>3. g[n + 1] = 0
      BY <1>1, <1>2 DEF TradedIn
    <2>4. n \in Nat /\ f \in [1..n -> Nat] /\ g \in [1..(n + 1) -> Nat] /\ \A i \in 1..n : g[i] = f[i]
      BY <1>1, <2>1, <2>2
    <2> HIDE DEF f, g, n
    <2>5. Total(g) = Total(f) + g[n + 1]
      BY ONLY <2>4, SumsAppend
    <2> QED
      BY <2>1, <2>3, <2>5 DEF f, g, Traded
  <1> QED
    BY <1>2, <1>3, <1>4, <1>5, <1>6 DEF c, n

\* A row that has no executions yet.
Longer(l, row) == [l EXCEPT !.orders = Append(@, row)]
MayAdd(l, b, row) ==
  /\ Len(l.orders) < MaxOrders /\ row.status = "submitted"
  /\ row.number \in 1..Len(b) /\ b[row.number].side = row.side /\ IsNamed(row)
  /\ \A o \in Rows(l) : l.orders[o].strategy = row.strategy =>
       /\ OrderKey(l.orders[o]) # OrderKey(row)
       /\ Open(l, o) => /\ l.orders[o].side = "sell" /\ row.side = "sell"
                        /\ l.orders[o].number # row.number

LEMMA RowAdded ==
  ASSUME NEW l, NEW b, Shape(l, b), NEW row \in Row, MayAdd(l, b, row),
         NEW m, m = Longer(l, row)
  PROVE  /\ Len(m.orders) = Len(l.orders) + 1 /\ m.orders[Len(l.orders) + 1] = row
         /\ m.orders = Append(l.orders, row)
         /\ m.executions = l.executions /\ m.lots = l.lots /\ m.position = l.position
         /\ Rows(m) = Rows(l) \cup {Len(l.orders) + 1} /\ Len(l.orders) + 1 \notin Rows(l)
         /\ \A o \in Rows(l) : /\ m.orders[o] = l.orders[o] /\ Filled(m, o) = Filled(l, o)
                               /\ Open(m, o) <=> Open(l, o)
         /\ Filled(m, Len(l.orders) + 1) = 0 /\ Open(m, Len(l.orders) + 1)
         /\ Shape(m, b)
  <1> DEFINE n == Len(l.orders)
  <1> USE DEF MayAdd
  <1>1. /\ n \in Nat /\ n + 1 \in Ids /\ Len(b) \in Nat
        /\ \A o \in Rows(l) : o \in Ids /\ l.orders[o] \in Row /\ Filled(l, o) \in Nat
    BY RowFacts, FillLedgerAssumption DEF Ids
  <1>2. l \in Tables /\ l.orders \in Seq(Row)
    BY DEF Shape, Tables
  <1>3. /\ m.orders = Append(l.orders, row)
        /\ m.executions = l.executions /\ m.lots = l.lots /\ m.position = l.position
    BY <1>2 DEF Tables, Longer
  <1>4. /\ m.orders \in Seq(Row) /\ Len(m.orders) = n + 1 /\ m.orders[n + 1] = row
        /\ \A o \in 1..n : m.orders[o] = l.orders[o]
    BY <1>2, <1>3, AppendProperties
  <1>5. m \in Tables
    BY <1>2, <1>3, <1>4 DEF Tables, Longer
  <1>6. Rows(m) = Rows(l) \cup {n + 1} /\ n + 1 \notin Rows(l)
    BY <1>1, <1>4 DEF Rows
  <1>7. \A o \in Rows(l) : /\ m.orders[o] = l.orders[o] /\ Filled(m, o) = Filled(l, o)
                           /\ Open(m, o) <=> Open(l, o)
    BY <1>3, <1>4 DEF Rows, Filled, Open
  <1>8. Filled(m, n + 1) = 0 /\ Open(m, n + 1)
    <2>1. l.executions[n + 1] = <<>>
      BY <1>1 DEF Shape
    <2> QED
      BY <1>3, <1>4, <2>1, NoEntries DEF Filled, Open
  <1> HIDE DEF n
  <1>9. Shape(m, b)
    <2>1. \A o \in Rows(m) : /\ m.orders[o].number \in 1..Len(b)
                             /\ b[m.orders[o].number].side = m.orders[o].side
                             /\ Filled(m, o) <= Reports(m, b, o) /\ IsNamed(m.orders[o])
      <3>1. ASSUME NEW o \in Rows(l)
            PROVE  /\ m.orders[o].number \in 1..Len(b)
                   /\ b[m.orders[o].number].side = m.orders[o].side
                   /\ Filled(m, o) <= Reports(m, b, o) /\ IsNamed(m.orders[o])
        BY <1>7 DEF Shape, Reports
      <3>2. b[row.number].filled \in Nat
        BY RowFacts
      <3>3. 0 <= Reports(m, b, n + 1)
        BY <1>4, <3>2 DEF Reports
      <3> QED
        BY <1>4, <1>6, <1>8, <3>1, <3>3
    <2>2. \A o \in Ids : o > Len(m.orders) => m.executions[o] = <<>>
      <3>1. \A o \in Ids : o > n + 1 => o > n
        BY <1>1 DEF Ids
      <3> QED
        BY <1>3, <1>4, <3>1 DEF Shape, n
    <2>3. \A o, p \in Rows(m) :
            o # p /\ m.orders[o].strategy = m.orders[p].strategy =>
              /\ OrderKey(m.orders[o]) # OrderKey(m.orders[p])
              /\ Open(m, o) /\ Open(m, p) =>
                   m.orders[o].side = "sell" /\ m.orders[o].number # m.orders[p].number
      <3>1. ASSUME NEW o \in Rows(l), NEW p \in Rows(l), o # p, m.orders[o].strategy = m.orders[p].strategy
            PROVE  /\ OrderKey(m.orders[o]) # OrderKey(m.orders[p])
                   /\ Open(m, o) /\ Open(m, p) =>
                        m.orders[o].side = "sell" /\ m.orders[o].number # m.orders[p].number
        <4>1. l.orders[o].strategy = l.orders[p].strategy
          BY <1>7, <3>1
        <4>2. /\ OrderKey(l.orders[o]) # OrderKey(l.orders[p])
              /\ Open(l, o) /\ Open(l, p) =>
                   l.orders[o].side = "sell" /\ l.orders[o].number # l.orders[p].number
          BY <3>1, <4>1 DEF Shape
        <4> QED
          BY <1>7, <4>2
      <3>2. ASSUME NEW o \in Rows(l), l.orders[o].strategy = row.strategy
            PROVE  /\ OrderKey(l.orders[o]) # OrderKey(row)
                   /\ Open(l, o) => /\ l.orders[o].side = "sell" /\ row.side = "sell"
                                    /\ l.orders[o].number # row.number
        BY <3>2
      <3> SUFFICES ASSUME NEW o \in Rows(m), NEW p \in Rows(m), o # p,
                          m.orders[o].strategy = m.orders[p].strategy
                   PROVE  /\ OrderKey(m.orders[o]) # OrderKey(m.orders[p])
                          /\ Open(m, o) /\ Open(m, p) =>
                               m.orders[o].side = "sell" /\ m.orders[o].number # m.orders[p].number
        OBVIOUS
      <3>3. CASE o \in Rows(l) /\ p \in Rows(l)
        BY <3>1, <3>3
      <3>4. CASE o \in Rows(l) /\ p = n + 1
        BY <1>4, <1>7, <3>2, <3>4
      <3>5. CASE o = n + 1 /\ p \in Rows(l)
        BY <1>4, <1>7, <3>2, <3>5
      <3> QED
        BY <1>6, <3>3, <3>4, <3>5
    <2>4. Len(m.orders) <= MaxOrders
      BY <1>1, <1>4, FillLedgerAssumption DEF n
    <2> QED
      BY <1>5, <2>1, <2>2, <2>3, <2>4 DEF Shape
  <1> QED
    BY <1>3, <1>4, <1>6, <1>7, <1>8, <1>9 DEF n

\* What the row adds to the sums.
WithRowSums(l, b, row, m) ==
  /\ \A side : Executed(m, side) = Executed(l, side)
  /\ Reported(m, b) = Reported(l, b) + (IF row.side = "buy" THEN b[row.number].filled ELSE 0)
  /\ \A t : Pending(m, b, t) =
       Pending(l, b, t) + (IF t = row.strategy /\ row.side = "sell" THEN b[row.number].filled ELSE 0)
  /\ \A k \in [Strategies -> Nat] :
       OverStrategies(m, k) = OverStrategies(l, k) +
         (IF HasRows(l.orders, row.strategy) THEN 0 ELSE k[row.strategy])
  /\ PositionsFit(l) => PositionsFit(m)

LEMMA RowAddedSums ==
  ASSUME NEW l, NEW b, Shape(l, b), NEW row \in Row, MayAdd(l, b, row),
         NEW m, m = Longer(l, row)
  PROVE  WithRowSums(l, b, row, m)
  <1> DEFINE n == Len(l.orders)
  <1>1. /\ Len(m.orders) = n + 1 /\ m.orders[n + 1] = row
        /\ m.orders = Append(l.orders, row)
        /\ m.executions = l.executions /\ m.lots = l.lots /\ m.position = l.position
        /\ Rows(m) = Rows(l) \cup {n + 1} /\ n + 1 \notin Rows(l)
        /\ \A o \in Rows(l) : /\ m.orders[o] = l.orders[o] /\ Filled(m, o) = Filled(l, o)
                              /\ Open(m, o) <=> Open(l, o)
        /\ Filled(m, n + 1) = 0 /\ Open(m, n + 1)
        /\ Shape(m, b)
    BY RowAdded
  <1>2. n \in Nat /\ l.orders \in Seq(Row) /\ b[row.number].filled \in Nat
    BY RowFacts, SumFacts DEF MayAdd
  <1>3. Rows(l) = 1..n /\ Rows(m) = 1..(n + 1)
    BY <1>1 DEF Rows
  <1> HIDE DEF n
  <1>4. \A o \in 1..n : o \in Rows(m) /\ n + 1 \in Rows(m)
    BY <1>2, <1>3
  <1>5. ASSUME NEW side PROVE Executed(m, side) = Executed(l, side)
    <2> DEFINE f == ExecutedIn(l, side)
               g == ExecutedIn(m, side)
    <2>1. f \in [1..n -> Nat] /\ g \in [1..(n + 1) -> Nat] /\ Total(f) \in Nat
      BY <1>1, <1>3, SumFacts DEF Executed
    <2>2. \A i \in 1..n : g[i] = f[i]
      BY <1>1, <1>3, <1>4 DEF ExecutedIn
    <2>3. g[n + 1] = 0
      BY <1>1, <1>3, <1>4 DEF ExecutedIn
    <2>4. n \in Nat /\ f \in [1..n -> Nat] /\ g \in [1..(n + 1) -> Nat] /\ \A i \in 1..n : g[i] = f[i]
      BY <1>2, <2>1, <2>2
    <2> HIDE DEF f, g
    <2>5. Total(g) = Total(f) + g[n + 1]
      BY ONLY <2>4, SumsAppend
    <2> QED
      BY <2>1, <2>3, <2>5 DEF f, g, Executed
  <1>6. Reported(m, b) = Reported(l, b) + (IF row.side = "buy" THEN b[row.number].filled ELSE 0)
    <2> DEFINE f == ReportedIn(l, b)
               g == ReportedIn(m, b)
    <2>1. f \in [1..n -> Nat] /\ g \in [1..(n + 1) -> Nat]
      BY <1>1, <1>3, SumFacts
    <2>2. \A i \in 1..n : g[i] = f[i]
      <3>1. \A i \in 1..n : m.orders[i] = l.orders[i] /\ Reports(m, b, i) = Reports(l, b, i)
        BY <1>1, <1>3 DEF Reports
      <3> QED
        BY <1>3, <1>4, <3>1 DEF ReportedIn
    <2>3. g[n + 1] = IF row.side = "buy" THEN b[row.number].filled ELSE 0
      BY <1>1, <1>2, <1>3 DEF ReportedIn, Reports
    <2>4. n \in Nat /\ f \in [1..n -> Nat] /\ g \in [1..(n + 1) -> Nat] /\ \A i \in 1..n : g[i] = f[i]
      BY <1>2, <2>1, <2>2
    <2> HIDE DEF f, g
    <2>5. Total(g) = Total(f) + g[n + 1]
      BY ONLY <2>4, SumsAppend
    <2> QED
      BY <2>3, <2>5 DEF f, g, Reported
  <1>7. ASSUME NEW t
        PROVE  Pending(m, b, t) =
                 Pending(l, b, t) + (IF t = row.strategy /\ row.side = "sell" THEN b[row.number].filled ELSE 0)
    <2> DEFINE f == PendingIn(l, b, t)
               g == PendingIn(m, b, t)
    <2>1. f \in [1..n -> Nat] /\ g \in [1..(n + 1) -> Nat]
      BY <1>1, <1>3, SumFacts
    <2>2. \A i \in 1..n : g[i] = f[i]
      <3>1. \A i \in 1..n : /\ Reports(m, b, i) = Reports(l, b, i) /\ Filled(m, i) = Filled(l, i)
                            /\ IsPending(m, i, t) <=> IsPending(l, i, t)
        BY <1>1, <1>3 DEF Reports, IsPending
      <3> QED
        BY <1>3, <1>4, <3>1 DEF PendingIn
    <2>3. g[n + 1] = IF t = row.strategy /\ row.side = "sell" THEN b[row.number].filled ELSE 0
      <3>1. n + 1 \in Rows(m)
        BY <1>1
      <3>2. Reports(m, b, n + 1) - Filled(m, n + 1) = b[row.number].filled
        BY <1>1, <1>2 DEF Reports
      <3>3. IsPending(m, n + 1, t) <=> t = row.strategy /\ row.side = "sell"
        BY <1>1 DEF IsPending
      <3> QED
        BY <3>1, <3>2, <3>3 DEF PendingIn
    <2>4. n \in Nat /\ f \in [1..n -> Nat] /\ g \in [1..(n + 1) -> Nat] /\ \A i \in 1..n : g[i] = f[i]
      BY <1>2, <2>1, <2>2
    <2> HIDE DEF f, g
    <2>5. Total(g) = Total(f) + g[n + 1]
      BY ONLY <2>4, SumsAppend
    <2> QED
      BY <2>3, <2>5 DEF f, g, Pending
  <1>8. ASSUME NEW k \in [Strategies -> Nat]
        PROVE  OverStrategies(m, k) = OverStrategies(l, k) +
                 (IF HasRows(l.orders, row.strategy) THEN 0 ELSE k[row.strategy])
    BY <1>1, <1>2, FirstAppended DEF OverStrategies
  <1>9. ASSUME PositionsFit(l) PROVE PositionsFit(m)
    <2>1. Held(m) = Held(l) /\ Held(l) \in [Strategies -> Nat] /\ row.strategy \in Strategies
      BY <1>1, SumFacts DEF Held, Row
    <2>2. ~HasRows(l.orders, row.strategy) => Held(l)[row.strategy] = 0
      BY <1>9, <2>1 DEF PositionsFit, Held
    <2>3. OverStrategies(l, Held(l)) \in Nat
      BY <1>2, <2>1, FirstIsCounted DEF OverStrategies
    <2>4. OverStrategies(m, Held(m)) = OverStrategies(l, Held(l))
      <3>1. OverStrategies(m, Held(l)) = OverStrategies(l, Held(l)) +
              (IF HasRows(l.orders, row.strategy) THEN 0 ELSE Held(l)[row.strategy])
        BY <1>8, <2>1, ZenonT(40)
      <3> QED
        BY <2>1, <2>2, <2>3, <3>1
    <2>5. \A t \in Strategies : HasRows(l.orders, t) => HasRows(m.orders, t)
      <3>1. \A o \in 1..Len(l.orders) : o \in 1..Len(m.orders) /\ m.orders[o] = l.orders[o]
        BY <1>1, <1>3, <1>4 DEF Rows
      <3> QED
        BY <3>1 DEF HasRows
    <2> QED
      BY <1>1, <1>5, <1>9, <2>4, <2>5 DEF PositionsFit
  <1> QED
    BY <1>5, <1>6, <1>7, <1>8, <1>9 DEF WithRowSums

\* A unit more of an order at the broker.
UnitMore(b, c, n) ==
  /\ c \in Seq(BookRow) /\ Len(c) = Len(b) /\ n \in 1..Len(b)
  /\ \A i \in 1..Len(b) : i # n => c[i] = b[i]
  /\ c[n].side = b[n].side /\ c[n].filled = b[n].filled + 1

LEMMA UnitTraded ==
  ASSUME NEW l, NEW b, Shape(l, b), NEW c, NEW n, UnitMore(b, c, n)
  PROVE  /\ Shape(l, c)
         /\ \A o \in Rows(l) : Reports(l, c, o) =
              Reports(l, b, o) + (IF l.orders[o].number = n THEN 1 ELSE 0)
         /\ \A side : Traded(c, side) = Traded(b, side) + (IF b[n].side = side THEN 1 ELSE 0)
  <1>1. /\ c \in Seq(BookRow) /\ Len(c) = Len(b) /\ n \in 1..Len(b)
        /\ \A i \in 1..Len(b) : i # n => c[i] = b[i]
        /\ c[n].side = b[n].side /\ c[n].filled = b[n].filled + 1
    BY DEF UnitMore
  <1>2. /\ Len(b) \in Nat
        /\ \A o \in Rows(l) : /\ l.orders[o].number \in 1..Len(b) /\ Filled(l, o) \in Nat
                              /\ Reports(l, b, o) \in Nat /\ Filled(l, o) <= Reports(l, b, o)
        /\ \A i \in 1..Len(b) : b[i].filled \in Nat
    BY RowFacts
  <1>3. \A o \in Rows(l) : Reports(l, c, o) = Reports(l, b, o) + (IF l.orders[o].number = n THEN 1 ELSE 0)
    BY <1>1, <1>2 DEF Reports
  <1>4. Shape(l, c)
    <2>1. \A o \in Rows(l) : Filled(l, o) <= Reports(l, c, o)
      BY <1>2, <1>3
    <2>2. \A i \in 1..Len(b) : c[i].side = b[i].side
      BY <1>1
    <2> QED
      BY <1>1, <1>2, <2>1, <2>2 DEF Shape
  <1>5. ASSUME NEW side PROVE Traded(c, side) = Traded(b, side) + (IF b[n].side = side THEN 1 ELSE 0)
    <2> DEFINE f == TradedIn(b, side)
               g == TradedIn(c, side)
               len == Len(b)
    <2>1. f \in [1..len -> Nat] /\ g \in [1..len -> Nat] /\ Total(f) \in Nat /\ Total(g) \in Nat
      <3>1. f \in [1..len -> Nat] /\ Total(f) \in Nat
        BY SumFacts DEF Traded
      <3>2. g \in [1..Len(c) -> Nat] /\ Total(g) \in Nat
        BY <1>4, SumFacts DEF Traded
      <3> QED
        BY <1>1, <3>1, <3>2
    <2>2. \A i \in 1..len : i # n => g[i] = f[i]
      BY <1>1 DEF TradedIn
    <2>3. g[n] = f[n] + (IF b[n].side = side THEN 1 ELSE 0) /\ f[n] \in Nat
      BY <1>1, <1>2 DEF TradedIn
    <2>4. len \in Nat /\ f \in [1..len -> Nat] /\ g \in [1..len -> Nat] /\ n \in 1..len
          /\ \A i \in 1..len : i # n => g[i] = f[i]
      BY <1>1, <1>2, <2>1, <2>2
    <2> HIDE DEF f, g, len
    <2>5. Total(g) + f[n] = Total(f) + g[n]
      BY ONLY <2>4, TermExchanged
    <2>6. Total(g) = Total(f) + (IF b[n].side = side THEN 1 ELSE 0)
      BY <2>1, <2>3, <2>5
    <2> QED
      BY <2>6 DEF f, g, Traded
  <1> QED
    BY <1>3, <1>4, <1>5

\* It is pending for the strategies that have an open sell of this order.
LEMMA UnitPending ==
  ASSUME NEW l, NEW b, Shape(l, b), NEW c, NEW n, UnitMore(b, c, n), NEW t \in Strategies
  PROVE  Pending(l, c, t) = Pending(l, b, t) +
           (IF \E o \in Rows(l) : IsPending(l, o, t) /\ l.orders[o].number = n THEN 1 ELSE 0)
  <1> DEFINE f == PendingIn(l, b, t)
             g == PendingIn(l, c, t)
             len == Len(l.orders)
  <1>1. /\ Shape(l, c)
        /\ \A o \in Rows(l) : Reports(l, c, o) =
             Reports(l, b, o) + (IF l.orders[o].number = n THEN 1 ELSE 0)
    BY UnitTraded
  <1>2. f \in [1..len -> Nat] /\ g \in [1..len -> Nat] /\ Total(f) \in Nat /\ len \in Nat /\ Rows(l) = 1..len
        /\ Total(g) \in Nat
    BY <1>1, SumFacts, RowFacts DEF Pending, Rows
  <1>3. \A o \in Rows(l) : Filled(l, o) \in Nat /\ Reports(l, b, o) \in Nat
    BY RowFacts
  <1>4. \A i \in Rows(l) : l.orders[i].number # n \/ ~IsPending(l, i, t) => g[i] = f[i]
    BY <1>1, <1>3 DEF PendingIn
  <1>5. CASE \E o \in Rows(l) : IsPending(l, o, t) /\ l.orders[o].number = n
    <2>1. PICK j \in Rows(l) : IsPending(l, j, t) /\ l.orders[j].number = n
      BY <1>5
    <2>2. \A i \in Rows(l) : i # j /\ IsPending(l, i, t) => l.orders[i].number # n
      BY <2>1 DEF Shape, IsPending
    <2>3. \A i \in 1..len : i # j => g[i] = f[i]
      BY <1>2, <1>4, <2>2
    <2>4. g[j] = f[j] + 1 /\ f[j] \in Nat
      BY <1>1, <1>3, <1>2, <2>1 DEF PendingIn
    <2>5. len \in Nat /\ f \in [1..len -> Nat] /\ g \in [1..len -> Nat] /\ j \in 1..len
          /\ \A i \in 1..len : i # j => g[i] = f[i]
      BY <1>2, <2>1, <2>3
    <2> HIDE DEF f, g, len
    <2>6. Total(g) + f[j] = Total(f) + g[j]
      BY ONLY <2>5, TermExchanged
    <2>7. Total(g) = Total(f) + 1
      BY <1>2, <2>4, <2>6
    <2> QED
      BY <1>5, <2>7 DEF f, g, Pending
  <1>6. CASE ~\E o \in Rows(l) : IsPending(l, o, t) /\ l.orders[o].number = n
    <2>1. \A i \in 1..len : g[i] = f[i]
      BY <1>2, <1>4, <1>6
    <2>2. f = g
      BY <1>2, <2>1
    <2> QED
      BY <1>2, <1>6, <2>2 DEF Pending
  <1> QED
    BY <1>5, <1>6

\* Buys and their rows, when a unit is traded.
LEMMA UnitKeepsBuys ==
  ASSUME NEW l, NEW b, Shape(l, b), BuysFit(l, b), NEW c, NEW n, UnitMore(b, c, n)
  PROVE  BuysFit(l, c)
  <1> DEFINE f == ReportedIn(l, b)
             g == ReportedIn(l, c)
             len == Len(l.orders)
  <1>1. /\ Shape(l, c)
        /\ \A o \in Rows(l) : Reports(l, c, o) =
             Reports(l, b, o) + (IF l.orders[o].number = n THEN 1 ELSE 0)
        /\ Traded(c, "buy") = Traded(b, "buy") + (IF b[n].side = "buy" THEN 1 ELSE 0)
    BY UnitTraded
  <1>2. f \in [1..len -> Nat] /\ g \in [1..len -> Nat] /\ Total(f) \in Nat /\ len \in Nat /\ Rows(l) = 1..len
        /\ Total(g) \in Nat
    BY <1>1, SumFacts, RowFacts DEF Reported, Rows
  <1>3. \A o \in Rows(l) : Reports(l, b, o) \in Nat /\ b[l.orders[o].number].side = l.orders[o].side
    BY RowFacts DEF Shape
  <1>4. /\ Len(c) = Len(b) /\ n \in 1..Len(b) /\ \A i \in 1..Len(b) : c[i].side = b[i].side
    BY DEF UnitMore
  <1>5. \A i \in 1..Len(c) : c[i].side = "buy" =>
          \E o \in Rows(l) : \A p \in Rows(l) : l.orders[p].number = i <=> p = o
    BY <1>4 DEF BuysFit
  <1>6. \A i \in Rows(l) : l.orders[i].number # n => g[i] = f[i]
    BY <1>1, <1>3 DEF ReportedIn
  <1>7. Total(g) = Total(f) + (IF b[n].side = "buy" THEN 1 ELSE 0)
    <2>1. CASE b[n].side = "buy"
      <3>1. PICK j \in Rows(l) : \A p \in Rows(l) : l.orders[p].number = n <=> p = j
        BY <1>4, <2>1 DEF BuysFit
      <3>2. l.orders[j].number = n /\ l.orders[j].side = "buy"
        BY <1>3, <2>1, <3>1
      <3>3. g[j] = f[j] + 1 /\ f[j] \in Nat
        BY <1>1, <1>3, <3>2 DEF ReportedIn
      <3>4. len \in Nat /\ f \in [1..len -> Nat] /\ g \in [1..len -> Nat] /\ j \in 1..len
            /\ \A i \in 1..len : i # j => g[i] = f[i]
        BY <1>2, <1>6, <3>1
      <3> HIDE DEF f, g, len
      <3>5. Total(g) + f[j] = Total(f) + g[j]
        BY ONLY <3>4, TermExchanged
      <3> QED
        BY <1>2, <2>1, <3>3, <3>5
    <2>2. CASE b[n].side # "buy"
      <3>1. \A i \in 1..len : g[i] = f[i]
        BY <1>2, <1>3, <1>6, <2>2 DEF ReportedIn
      <3>2. f = g
        BY <1>2, <3>1
      <3> QED
        BY <1>2, <2>2, <3>2
    <2> QED
      BY <2>1, <2>2
  <1> QED
    BY <1>1, <1>5, <1>7 DEF BuysFit, Reported

-----------------------------------------------------------------------------
(***************************************************************************)
(* A fill that is booked.                                                  *)
(***************************************************************************)
EntryOf(l, f) ==
  [no |-> f.no, quantity |-> f.quantity, price |-> f.price, at |-> f.at,
   basis |-> IF l.orders[f.order].side = "buy" THEN 0
             ELSE CostBasis(l.lots[l.orders[f.order].strategy], f.quantity)]
LotOf(f) == [at |-> f.at, price |-> f.price, open |-> f.quantity, left |-> f.quantity]

\* A fill that a row lacks and, if it is a sell, the lots can give.
MayBook(l, b, f) ==
  /\ f \in News /\ f.order \in Rows(l) /\ Open(l, f.order)
  /\ Filled(l, f.order) + f.quantity <= Reports(l, b, f.order)
  /\ l.orders[f.order].side = "sell" => f.quantity <= LeftIn(l.lots[l.orders[f.order].strategy])

IsBooked(l, f, m) ==
  LET o == f.order
      s == l.orders[o].strategy
      held == l.position[s]
  IN
  /\ m.orders = [l.orders EXCEPT ![o].status = StatusAfter(l.orders[o], Filled(l, o) + f.quantity)]
  /\ m.executions = [l.executions EXCEPT ![o] = Append(@, EntryOf(l, f))]
  /\ m = [orders |-> m.orders, executions |-> m.executions, lots |-> m.lots, position |-> m.position]
  /\ l.orders[o].side = "buy" =>
       /\ m.lots = [l.lots EXCEPT ![s] = Added(@, LotOf(f))]
       /\ m.position = [l.position EXCEPT ![s] = [quantity |-> held.quantity + f.quantity,
                                                  cost |-> held.cost + f.price * f.quantity,
                                                  highest |-> Higher(held.highest, f.price)]]
  /\ l.orders[o].side # "buy" =>
       /\ m.lots = [l.lots EXCEPT ![s] = Consumed(@, f.quantity)]
       /\ m.position = [l.position EXCEPT
            ![s].quantity = Max({held.quantity - f.quantity, 0}),
            ![s].cost = IF held.quantity - f.quantity <= 0 THEN 0
                        ELSE CostOf(Consumed(l.lots[s], f.quantity))]

LEMMA BookedIs ==
  ASSUME NEW l \in Tables, NEW f, f.order \in DOMAIN l.orders, f.order \in Ids,
         l.orders[f.order].strategy \in Strategies
  PROVE  IsBooked(l, f, Booked(l, f))
  <1> PICK o : o = f.order
    OBVIOUS
  <1> PICK s : s = l.orders[o].strategy
    OBVIOUS
  <1> PICK m : m = Booked(l, f)
    OBVIOUS
  <1> DEFINE isBuy == l.orders[o].side = "buy"
             held == l.position[s]
             e == EntryOf(l, f)
             status == StatusAfter(l.orders[o], Filled(l, o) + f.quantity)
             now == IF isBuy THEN ApplyBuy(l, s, f) ELSE ApplySell(l, s, f)
  <1>1. m = [now EXCEPT !.executions[o] = Append(@, e), !.orders[o].status = status]
    BY DEF Booked, Filled, EntryOf
  <1>2. l = [orders |-> l.orders, executions |-> l.executions, lots |-> l.lots, position |-> l.position]
    BY DEF Tables
  <1>3. CASE isBuy
    <2> DEFINE lot == LotOf(f)
               pos == [quantity |-> held.quantity + f.quantity,
                       cost |-> held.cost + f.price * f.quantity,
                       highest |-> Higher(held.highest, f.price)]
               queue == Added(l.lots[s], lot)
    <2>1. now = [l EXCEPT !.position[s] = pos, !.lots[s] = queue]
      BY <1>3 DEF ApplyBuy, LotOf
    <2> HIDE DEF now, e, status, pos, queue
    <2> DEFINE queues == [l.lots EXCEPT ![s] = queue]
               holding == [l.position EXCEPT ![s] = pos]
    <2>2. now = [orders |-> l.orders, executions |-> l.executions, lots |-> queues, position |-> holding]
      BY <1>2, <2>1
    <2> HIDE DEF queues, holding
    <2>3. /\ m.orders = [l.orders EXCEPT ![o].status = status]
          /\ m.executions = [l.executions EXCEPT ![o] = Append(@, e)]
          /\ m.lots = queues /\ m.position = holding
          /\ m = [orders |-> m.orders, executions |-> m.executions, lots |-> m.lots,
                  position |-> m.position]
      BY <1>1, <2>2, ZenonT(20)
    <2> QED
      BY <1>3, <2>2, <2>3, ZenonT(20) DEF IsBooked, e, status, pos, queue, lot, queues, holding
  <1>4. CASE ~isBuy
    <2> DEFINE rest == Consumed(l.lots[s], f.quantity)
               n == Max({held.quantity - f.quantity, 0})
               cost == IF held.quantity - f.quantity <= 0 THEN 0 ELSE CostOf(rest)
    <2>1. now = [l EXCEPT !.position[s].quantity = n, !.position[s].cost = cost, !.lots[s] = rest]
      BY <1>4 DEF ApplySell, CostLeft
    <2> HIDE DEF now, e, status, n, cost, rest
    <2> DEFINE queues == [l.lots EXCEPT ![s] = rest]
               holding == [l.position EXCEPT ![s].quantity = n, ![s].cost = cost]
    <2>2. now = [orders |-> l.orders, executions |-> l.executions, lots |-> queues, position |-> holding]
      BY <1>2, <2>1, ZenonT(20)
    <2> HIDE DEF queues, holding
    <2>3. /\ m.orders = [l.orders EXCEPT ![o].status = status]
          /\ m.executions = [l.executions EXCEPT ![o] = Append(@, e)]
          /\ m.lots = queues /\ m.position = holding
          /\ m = [orders |-> m.orders, executions |-> m.executions, lots |-> m.lots,
                  position |-> m.position]
      BY <1>1, <2>2, ZenonT(20)
    <2> QED
      BY <1>4, <2>2, <2>3, ZenonT(20) DEF IsBooked, e, status, n, cost, rest, queues, holding
  <1> QED
    BY <1>3, <1>4

\* The row that is booked, and the others.
LEMMA BookedRow ==
  ASSUME NEW l, NEW b, Shape(l, b), NEW f, MayBook(l, b, f), NEW o, o = f.order,
         NEW m, m = Booked(l, f)
  PROVE  /\ o \in Rows(l) /\ o \in Ids /\ l.orders[o].strategy \in Strategies
         /\ m.orders \in Seq(Row) /\ Len(m.orders) = Len(l.orders) /\ Rows(m) = Rows(l)
         /\ m.executions \in [Ids -> Seq(Priced)]
         /\ \A p \in Rows(l) : p # o => m.orders[p] = l.orders[p] /\ Filled(m, p) = Filled(l, p)
         /\ \A p \in Ids : p # o => m.executions[p] = l.executions[p]
         /\ m.orders[o] = [l.orders[o] EXCEPT !.status = StatusAfter(l.orders[o], Filled(l, o) + f.quantity)]
         /\ Filled(m, o) = Filled(l, o) + f.quantity
         /\ Open(m, o) <=> Filled(l, o) + f.quantity < l.orders[o].quantity
  <1> PICK s : s = l.orders[o].strategy
    OBVIOUS
  <1> DEFINE e == EntryOf(l, f)
             status == StatusAfter(l.orders[o], Filled(l, o) + f.quantity)
             row == [l.orders[o] EXCEPT !.status = status]
             n == Len(l.orders)
  <1>1. /\ o \in Rows(l) /\ o \in Ids /\ s \in Strategies /\ n \in Nat /\ DOMAIN l.orders = Rows(l)
        /\ l.orders[o] \in Row /\ l.orders[o].side \in {"buy", "sell"}
        /\ l.executions[o] \in Seq(Priced) /\ Filled(l, o) \in Nat /\ Rows(l) = 1..n
        /\ Rows(l) \subseteq Ids
    BY RowFacts DEF MayBook, Rows
  <1>2. f \in News /\ f.quantity \in Nat \ {0}
    BY DEF MayBook, News
  <1>3. /\ l \in Tables /\ l.orders \in Seq(Row) /\ l.executions \in [Ids -> Seq(Priced)]
        /\ l.lots \in [Strategies -> Seq(Lot)]
    BY DEF Shape, Tables
  <1>4. /\ m.orders = [l.orders EXCEPT ![o].status = status]
        /\ m.executions = [l.executions EXCEPT ![o] = Append(@, e)]
    <2>1. IsBooked(l, f, m)
      BY <1>1, <1>3, BookedIs
    <2> QED
      BY <2>1, ZenonT(20) DEF IsBooked
  <1>5. e \in Priced
    <2>1. l.orders[o].side # "buy" => CostBasis(l.lots[s], f.quantity) \in Nat
      <3>1. l.lots[s] \in Seq(Lot)
        BY <1>1, <1>3
      <3> QED
        BY <1>1, <1>2, <3>1, SaleIsTaken DEF MayBook
    <2> DEFINE basis == IF l.orders[o].side = "buy" THEN 0 ELSE CostBasis(l.lots[s], f.quantity)
    <2>2. basis \in Nat
      BY <2>1
    <2>3. e = [no |-> f.no, quantity |-> f.quantity, price |-> f.price, at |-> f.at, basis |-> basis]
      BY DEF EntryOf
    <2> HIDE DEF basis, e
    <2> QED
      BY <1>2, <2>2, <2>3 DEF News, Priced
  <1>6. e.quantity = f.quantity
    BY DEF EntryOf
  <1> HIDE DEF e
  <1>7. status = IF Filled(l, o) + f.quantity >= l.orders[o].quantity THEN "filled" ELSE "partially_filled"
    BY DEF StatusAfter
  <1> HIDE DEF status
  <1>8. row \in Row /\ row.status = status
    BY <1>1, <1>7 DEF Row
  <1>9. m.orders = [l.orders EXCEPT ![o] = row]
    BY <1>4
  <1> HIDE DEF row
  <1>10. l.orders \in [1..n -> Row]
    BY <1>3, LenProperties
  <1>11. m.orders \in [1..n -> Row] /\ m.orders[o] = row /\ \A p \in Rows(l) : p # o => m.orders[p] = l.orders[p]
    BY <1>1, <1>8, <1>9, <1>10
  <1>12. m.orders \in Seq(Row) /\ Len(m.orders) = n
    BY <1>1, <1>11, Listed
  <1>13. /\ Append(l.executions[o], e) \in Seq(Priced)
         /\ Total(Quantities(Append(l.executions[o], e))) = Filled(l, o) + f.quantity
    BY <1>1, <1>5, <1>6, OneMorePriced DEF Filled
  <1>14. /\ m.executions \in [Ids -> Seq(Priced)] /\ m.executions[o] = Append(l.executions[o], e)
         /\ \A p \in Ids : p # o => m.executions[p] = l.executions[p]
    BY <1>1, <1>3, <1>4, <1>13
  <1>15. Filled(m, o) = Filled(l, o) + f.quantity /\ \A p \in Rows(l) : p # o => Filled(m, p) = Filled(l, p)
    BY <1>1, <1>13, <1>14 DEF Filled
  <1>16. Open(m, o) <=> Filled(l, o) + f.quantity < l.orders[o].quantity
    <2>1. l.orders[o].quantity \in Nat
      BY <1>1 DEF Row
    <2> QED
      BY <1>1, <1>2, <1>7, <1>8, <1>11, <2>1 DEF Open
  <1>17. Rows(m) = Rows(l)
    BY <1>1, <1>12 DEF Rows
  <1> QED
    BY <1>1, <1>11, <1>12, <1>14, <1>15, <1>16, <1>17 DEF row, status

\* The lots and the position of the strategy, and those of the others.
LEMMA BookedLots ==
  ASSUME NEW l, NEW b, Shape(l, b), PositionsFit(l), NEW f, MayBook(l, b, f), NEW o, o = f.order,
         NEW s, s = l.orders[o].strategy, NEW m, m = Booked(l, f)
  PROVE  /\ m.lots \in [Strategies -> Seq(Lot)] /\ m.position \in [Strategies -> Holding]
         /\ \A t \in Strategies : t # s => m.lots[t] = l.lots[t] /\ m.position[t] = l.position[t]
         /\ Explains(m.lots[s], m.position[s])
         /\ l.orders[o].side = "buy" => m.position[s].quantity = l.position[s].quantity + f.quantity
         /\ l.orders[o].side = "sell" => m.position[s].quantity + f.quantity = l.position[s].quantity
  <1> PICK queue : queue = l.lots[s]
    OBVIOUS
  <1> PICK held : held = l.position[s]
    OBVIOUS
  <1> PICK lot : lot = LotOf(f)
    OBVIOUS
  <1> PICK q : q = f.quantity
    OBVIOUS
  <1>1. /\ o \in Rows(l) /\ o \in Ids /\ s \in Strategies /\ DOMAIN l.orders = Rows(l)
        /\ l.orders[o].side \in {"buy", "sell"}
    BY RowFacts DEF MayBook
  <1>2. /\ q \in Nat \ {0} /\ f.price \in Nat /\ f.at \in Nat
        /\ l.orders[o].side = "sell" => q <= LeftIn(queue)
        /\ q = f.quantity
    BY DEF MayBook, News
  <1>3. /\ l \in Tables /\ l.lots \in [Strategies -> Seq(Lot)] /\ l.position \in [Strategies -> Holding]
    BY DEF Shape, Tables
  <1>4. queue \in Seq(Lot) /\ held \in Holding /\ lot \in Lot
    BY <1>1, <1>2, <1>3 DEF Lot, LotOf
  <1>5. /\ held.quantity \in Nat /\ held.cost \in Nat /\ held.highest \in Nat
        /\ Explains(queue, held) /\ held.quantity = LeftIn(queue)
    BY <1>1, <1>4, ZenonT(20) DEF Holding, PositionsFit, Explains
  <1> PICK a : a = held.quantity
    OBVIOUS
  <1> PICK p : p = f.price
    OBVIOUS
  <1> PICK c : c = held.cost
    OBVIOUS
  <1>9. a \in Nat /\ c \in Nat /\ q \in Nat \ {0} /\ p \in Nat
    BY <1>2, <1>5, ZenonT(20)
  <1>6. IsBooked(l, f, m)
    BY <1>1, <1>3, BookedIs
  <1>7. CASE l.orders[o].side = "buy"
    <2> DEFINE now == [quantity |-> held.quantity + q,
                       cost |-> held.cost + f.price * q,
                       highest |-> Higher(held.highest, f.price)]
               all == Added(queue, lot)
    <2>1. m.lots = [l.lots EXCEPT ![s] = all] /\ m.position = [l.position EXCEPT ![s] = now]
      BY <1>6, <1>7, ZenonT(20) DEF IsBooked
    <2>2. all \in Seq(Lot)
      BY <1>4, AddedIs DEF AddedAt
    <2>3. /\ Higher(held.highest, f.price) \in Nat
          /\ Higher(held.highest, f.price) >= held.highest /\ Higher(held.highest, f.price) >= f.price
      BY <1>2, <1>5, HigherIs, ZenonT(20)
    <2>4. /\ held.quantity + q \in Nat
          /\ f.price * q \in Nat /\ f.price * q = q * f.price
      <3>1. a + q \in Nat /\ p * q \in Nat /\ p * q = q * p
        BY ONLY <1>9, SMTT(30)
      <3> QED
        BY <3>1
    <2>5. held.cost + f.price * q \in Nat
      <3>1. p * q \in Nat
        BY <2>4
      <3>2. c + p * q \in Nat
        BY ONLY <1>9, <3>1
      <3> QED
        BY <3>2
    <2>6. now \in Holding
      BY <2>3, <2>4, <2>5 DEF Holding
    <2>7. lot.left = q /\ lot.open = q /\ lot.price = f.price
      BY DEF LotOf
    <2>8. /\ now.quantity = held.quantity + lot.left /\ now.cost = held.cost + lot.left * lot.price
          /\ now.highest >= held.highest /\ now.highest >= lot.price /\ lot.left = lot.open
          /\ now.quantity = held.quantity + q
      BY <2>3, <2>4, <2>7
    <2> HIDE DEF now
    <2>9. Explains(Added(queue, lot), now)
      <3>1. /\ queue \in Seq(Lot) /\ lot \in Lot /\ held \in Holding /\ now \in Holding
            /\ Explains(queue, held) /\ lot.left = lot.open
            /\ now.quantity = held.quantity + lot.left /\ now.cost = held.cost + lot.left * lot.price
            /\ now.highest >= held.highest /\ now.highest >= lot.price
        BY <1>4, <1>5, <2>6, <2>8, ZenonT(20)
      <3> QED
        BY ONLY <3>1, AddedExplains
    <2> HIDE DEF all
    <2>10. /\ m.lots \in [Strategies -> Seq(Lot)] /\ m.position \in [Strategies -> Holding]
           /\ m.lots[s] = all /\ m.position[s] = now
           /\ \A t \in Strategies : t # s => m.lots[t] = l.lots[t] /\ m.position[t] = l.position[t]
      BY <1>1, <1>3, <2>1, <2>2, <2>6
    <2> QED
      BY <1>7, <2>8, <2>9, <2>10, ZenonT(20) DEF all
  <1>8. CASE l.orders[o].side # "buy"
    <2> PICK n : n = held.quantity - q
      OBVIOUS
    <2> DEFINE rest == Consumed(queue, q)
               units == Max({n, 0})
               cost == IF n <= 0 THEN 0 ELSE CostOf(rest)
               now == [held EXCEPT !.quantity = units, !.cost = cost]
    <2>1. /\ m.lots = [l.lots EXCEPT ![s] = rest]
          /\ m.position = [l.position EXCEPT ![s].quantity = units, ![s].cost = cost]
      BY <1>6, <1>8, ZenonT(20) DEF IsBooked
    <2>2. q <= held.quantity /\ q <= LeftIn(queue)
      BY <1>1, <1>2, <1>5, <1>8, ZenonT(20)
    <2>3. rest \in Seq(Lot) /\ CostOf(rest) \in Nat
      <3>1. rest \in Seq(Lot)
        BY <1>2, <1>4, ConsumedIs, ZenonT(20)
      <3> HIDE DEF rest
      <3> QED
        BY <3>1, LotsAreCounted
    <2>4. n \in Nat /\ n = a - q /\ n + q = a /\ (n <= 0 <=> ~(q < a))
      <3>1. n = a - q /\ q <= a
        BY <2>2, ZenonT(20)
      <3> QED
        BY ONLY <1>9, <3>1
    <2>5. /\ units = n /\ units \in Nat /\ cost \in Nat
          /\ units = IF q < a THEN a - q ELSE 0
          /\ cost = IF q < a THEN CostOf(rest) ELSE 0
      <3> HIDE DEF rest
      <3>1. n \in Int
        BY ONLY <2>4
      <3>2. Max({n, 0}) = IF n <= 0 THEN 0 ELSE n
        BY ONLY <3>1, NoLessThanNone
      <3>3. units = n /\ units = IF q < a THEN a - q ELSE 0
        <4>1. (IF n <= 0 THEN 0 ELSE n) = n /\ n = (IF q < a THEN a - q ELSE 0)
          BY ONLY <1>9, <2>4
        <4> QED
          BY ONLY <3>2, <4>1
      <3>4. cost = IF q < a THEN CostOf(rest) ELSE 0
        BY ONLY <2>4
      <3> QED
        BY ONLY <2>3, <2>4, <3>3, <3>4
    <2> HIDE DEF units, cost
    <2>6. now \in Holding /\ now.quantity = units /\ now.cost = cost /\ now.highest = held.highest
      BY <1>4, <2>5, ZenonT(20) DEF Holding
    <2>7. m.position = [l.position EXCEPT ![s] = now]
      BY <1>1, <1>3, <2>1, ZenonT(20)
    <2> HIDE DEF now
    <2>8. Explains(rest, now)
      <3>1. /\ queue \in Seq(Lot) /\ q \in Nat /\ held \in Holding /\ now \in Holding
            /\ Explains(queue, held) /\ q <= LeftIn(queue)
            /\ now.quantity = IF q < held.quantity THEN held.quantity - q ELSE 0
            /\ now.cost = IF q < held.quantity THEN CostOf(Consumed(queue, q)) ELSE 0
            /\ now.highest = held.highest
        BY <1>2, <1>4, <1>5, <2>2, <2>5, <2>6, ZenonT(20)
      <3>2. Explains(Consumed(queue, q), now)
        BY ONLY <3>1, ConsumedExplains
      <3> QED
        BY <3>2, ZenonT(20)
    <2> HIDE DEF rest
    <2>9. /\ m.lots \in [Strategies -> Seq(Lot)] /\ m.lots[s] = rest
          /\ m.position \in [Strategies -> Holding] /\ m.position[s] = now
          /\ \A t \in Strategies : t # s => m.lots[t] = l.lots[t] /\ m.position[t] = l.position[t]
      <3>1. /\ m.lots \in [Strategies -> Seq(Lot)] /\ m.lots[s] = rest
            /\ \A t \in Strategies : t # s => m.lots[t] = l.lots[t]
        <4>1. /\ s \in Strategies /\ l.lots \in [Strategies -> Seq(Lot)] /\ rest \in Seq(Lot)
              /\ m.lots = [l.lots EXCEPT ![s] = rest]
          BY <1>1, <1>3, <2>1, <2>3, ZenonT(20)
        <4> QED
          BY ONLY <4>1
      <3>2. /\ m.position \in [Strategies -> Holding] /\ m.position[s] = now
            /\ \A t \in Strategies : t # s => m.position[t] = l.position[t]
        BY <1>1, <1>3, <2>6, <2>7, ZenonT(20)
      <3> QED
        BY <3>1, <3>2, ZenonT(20)
    <2>10. m.position[s].quantity + q = l.position[s].quantity
      BY <2>4, <2>5, <2>6, <2>9, ZenonT(20)
    <2> QED
      BY <1>8, <2>8, <2>9, <2>10, ZenonT(20)
  <1> QED
    BY <1>1, <1>7, <1>8

\* The tables with the fill booked.
LEMMA BookedShape ==
  ASSUME NEW l, NEW b, Shape(l, b), PositionsFit(l), NEW f, MayBook(l, b, f)
  PROVE  Shape(Booked(l, f), b)
  <1> PICK m : m = Booked(l, f)
    OBVIOUS
  <1> PICK o : o = f.order
    OBVIOUS
  <1> PICK s : s = l.orders[o].strategy
    OBVIOUS
  <1>1. /\ o \in Rows(l) /\ o \in Ids /\ s \in Strategies
        /\ m.orders \in Seq(Row) /\ Len(m.orders) = Len(l.orders) /\ Rows(m) = Rows(l)
        /\ m.executions \in [Ids -> Seq(Priced)]
        /\ \A p \in Rows(l) : p # o => m.orders[p] = l.orders[p] /\ Filled(m, p) = Filled(l, p)
        /\ \A p \in Ids : p # o => m.executions[p] = l.executions[p]
        /\ m.orders[o] = [l.orders[o] EXCEPT !.status = StatusAfter(l.orders[o], Filled(l, o) + f.quantity)]
        /\ Filled(m, o) = Filled(l, o) + f.quantity
    BY BookedRow
  <1>2. m.lots \in [Strategies -> Seq(Lot)] /\ m.position \in [Strategies -> Holding]
    BY BookedLots
  <1>3. l \in Tables /\ b \in Seq(BookRow) /\ Len(l.orders) <= MaxOrders /\ l.orders[o] \in Row
    BY <1>1, RowFacts DEF Shape
  <1>4. m \in Tables
    <2>1. IsBooked(l, f, m)
      BY <1>1, <1>3, RowFacts, BookedIs
    <2>2. m = [orders |-> m.orders, executions |-> m.executions, lots |-> m.lots, position |-> m.position]
      BY <2>1, ZenonT(20) DEF IsBooked
    <2> QED
      BY <1>1, <1>2, <2>2 DEF Tables
  <1>5. \A p \in Rows(l) : /\ m.orders[p].number = l.orders[p].number
                           /\ m.orders[p].orgno = l.orders[p].orgno
                           /\ m.orders[p].side = l.orders[p].side
                           /\ m.orders[p].strategy = l.orders[p].strategy
                           /\ Open(m, p) => Open(l, p)
    <2>1. /\ m.orders[o].number = l.orders[o].number /\ m.orders[o].side = l.orders[o].side
          /\ m.orders[o].orgno = l.orders[o].orgno /\ m.orders[o].strategy = l.orders[o].strategy
      BY <1>1, <1>3 DEF Row
    <2>2. Open(l, o)
      BY DEF MayBook
    <2> QED
      BY <1>1, <2>1, <2>2 DEF Open
  <1>6. \A p \in Rows(m) : /\ m.orders[p].number \in 1..Len(b)
                           /\ b[m.orders[p].number].side = m.orders[p].side
                           /\ Filled(m, p) <= Reports(m, b, p) /\ IsNamed(m.orders[p])
    <2>1. \A p \in Rows(l) : Reports(m, b, p) = Reports(l, b, p)
      BY <1>5 DEF Reports
    <2>2. Filled(m, o) <= Reports(m, b, o)
      BY <1>1, <2>1 DEF MayBook
    <2>3. \A p \in Rows(l) : /\ l.orders[p].number \in 1..Len(b)
                             /\ b[l.orders[p].number].side = l.orders[p].side
                             /\ Filled(l, p) <= Reports(l, b, p)
      BY DEF Shape
    <2>4. \A p \in Rows(l) : Filled(m, p) <= Reports(m, b, p)
      BY <1>1, <2>1, <2>2, <2>3
    <2>6. \A p \in Rows(l) : IsNamed(m.orders[p])
      BY <1>5 DEF Shape, IsNamed
    <2>5. \A p \in Rows(l) : /\ m.orders[p].number \in 1..Len(b)
                             /\ b[m.orders[p].number].side = m.orders[p].side
      <3> SUFFICES ASSUME NEW p \in Rows(l)
                   PROVE  /\ m.orders[p].number \in 1..Len(b)
                          /\ b[m.orders[p].number].side = m.orders[p].side
        OBVIOUS
      <3>1. m.orders[p].number = l.orders[p].number /\ m.orders[p].side = l.orders[p].side
        BY <1>5
      <3> QED
        BY ONLY <2>3, <3>1, p \in Rows(l)
    <2> QED
      BY ONLY <1>1, <2>4, <2>5, <2>6
  <1>7. \A p \in Ids : p > Len(m.orders) => m.executions[p] = <<>>
    <2>1. \A p \in Ids : p > Len(l.orders) => p # o
      BY <1>1, RowFacts DEF Rows, Ids
    <2> QED
      BY <1>1, <2>1 DEF Shape
  <1>8. ASSUME NEW p \in Rows(m), NEW q \in Rows(m), p # q, m.orders[p].strategy = m.orders[q].strategy
        PROVE  /\ OrderKey(m.orders[p]) # OrderKey(m.orders[q])
               /\ Open(m, p) /\ Open(m, q) =>
                    m.orders[p].side = "sell" /\ m.orders[p].number # m.orders[q].number
    <2>1. l.orders[p].strategy = l.orders[q].strategy
      BY <1>1, <1>5, <1>8
    <2>2. /\ OrderKey(l.orders[p]) # OrderKey(l.orders[q])
          /\ Open(l, p) /\ Open(l, q) =>
               l.orders[p].side = "sell" /\ l.orders[p].number # l.orders[q].number
      BY <1>1, <1>8, <2>1 DEF Shape
    <2>3. \A x \in Rows(l) : OrderKey(m.orders[x]) = OrderKey(l.orders[x])
      BY <1>5 DEF OrderKey
    <2> QED
      BY <1>1, <1>5, <2>2, <2>3
  <1> QED
    BY <1>1, <1>3, <1>4, <1>6, <1>7, <1>8 DEF Shape

\* What no booking changes of a row.
LEMMA BookedSame ==
  ASSUME NEW l, NEW b, Shape(l, b), NEW f, MayBook(l, b, f), NEW m, m = Booked(l, f)
  PROVE  /\ Rows(m) = Rows(l) /\ Len(m.orders) = Len(l.orders) /\ m.orders \in Seq(Row)
         /\ \A p \in Rows(l) : /\ m.orders[p].number = l.orders[p].number
                               /\ m.orders[p].orgno = l.orders[p].orgno
                               /\ m.orders[p].side = l.orders[p].side
                               /\ m.orders[p].strategy = l.orders[p].strategy
                               /\ Reports(m, b, p) = Reports(l, b, p)
                               /\ Open(m, p) => Open(l, p)
                               /\ p # f.order => /\ m.orders[p] = l.orders[p]
                                                 /\ Filled(m, p) = Filled(l, p)
                                                 /\ Open(m, p) <=> Open(l, p)
         /\ Filled(m, f.order) = Filled(l, f.order) + f.quantity
  <1> PICK o : o = f.order
    OBVIOUS
  <1>1. /\ o \in Rows(l) /\ l.orders[o] \in Row /\ Open(l, o)
    BY RowFacts DEF MayBook
  <1>2. /\ m.orders \in Seq(Row) /\ Len(m.orders) = Len(l.orders) /\ Rows(m) = Rows(l)
        /\ \A p \in Rows(l) : p # o => m.orders[p] = l.orders[p] /\ Filled(m, p) = Filled(l, p)
        /\ m.orders[o] = [l.orders[o] EXCEPT !.status = StatusAfter(l.orders[o], Filled(l, o) + f.quantity)]
        /\ Filled(m, o) = Filled(l, o) + f.quantity
    BY BookedRow
  <1>3. /\ m.orders[o].number = l.orders[o].number /\ m.orders[o].side = l.orders[o].side
        /\ m.orders[o].orgno = l.orders[o].orgno /\ m.orders[o].strategy = l.orders[o].strategy
    BY <1>1, <1>2 DEF Row
  <1>4. \A p \in Rows(l) : /\ m.orders[p].number = l.orders[p].number
                           /\ m.orders[p].orgno = l.orders[p].orgno
                           /\ m.orders[p].side = l.orders[p].side
                           /\ m.orders[p].strategy = l.orders[p].strategy
                           /\ p # o => (Open(m, p) <=> Open(l, p))
    BY <1>2, <1>3 DEF Open
  <1>5. \A p \in Rows(l) : Reports(m, b, p) = Reports(l, b, p) /\ (Open(m, p) => Open(l, p))
    BY <1>1, <1>4 DEF Reports
  <1> QED
    BY <1>2, <1>4, <1>5

\* What it adds to the sums.
LEMMA BookedSums ==
  ASSUME NEW l, NEW b, Shape(l, b), PositionsFit(l), NEW f, MayBook(l, b, f), NEW o, o = f.order,
         NEW s, s = l.orders[o].strategy, NEW q, q = f.quantity, NEW m, m = Booked(l, f)
  PROVE  /\ \A side : Executed(m, side) = Executed(l, side) + (IF l.orders[o].side = side THEN q ELSE 0)
         /\ Reported(m, b) = Reported(l, b)
         /\ \A t : t # s \/ l.orders[o].side # "sell" => Pending(m, b, t) = Pending(l, b, t)
         /\ l.orders[o].side = "sell" => Pending(m, b, s) + q <= Pending(l, b, s)
         /\ l.orders[o].side = "sell" /\ Filled(l, o) + q = Reports(l, b, o) =>
              Pending(m, b, s) + q = Pending(l, b, s)
  <1> PICK len : len = Len(l.orders)
    OBVIOUS
  <1>1. /\ o \in Rows(l) /\ len \in Nat /\ Rows(l) = 1..len /\ q \in Nat \ {0}
        /\ Filled(l, o) \in Nat /\ Reports(l, b, o) \in Nat /\ Filled(l, o) + q <= Reports(l, b, o)
        /\ Open(l, o)
    BY RowFacts DEF MayBook, News, Rows
  <1>2. /\ Rows(m) = Rows(l) /\ Len(m.orders) = Len(l.orders)
        /\ \A p \in Rows(l) : /\ m.orders[p].side = l.orders[p].side
                              /\ m.orders[p].strategy = l.orders[p].strategy
                              /\ Reports(m, b, p) = Reports(l, b, p)
                              /\ p # o => /\ Filled(m, p) = Filled(l, p)
                                          /\ Open(m, p) <=> Open(l, p)
        /\ Filled(m, o) = Filled(l, o) + q
    BY BookedSame
  <1>3. Shape(m, b)
    BY BookedShape
  <1>4. ASSUME NEW side
        PROVE  Executed(m, side) = Executed(l, side) + (IF l.orders[o].side = side THEN q ELSE 0)
    <2> DEFINE g == ExecutedIn(l, side)
               h == ExecutedIn(m, side)
               x == IF l.orders[o].side = side THEN q ELSE 0
    <2>1. g \in [1..len -> Nat] /\ h \in [1..len -> Nat] /\ x \in Nat
      BY <1>1, <1>2, <1>3, SumFacts
    <2>2. h[o] = g[o] + x
      BY <1>1, <1>2 DEF ExecutedIn
    <2>3. \A i \in 1..len : i # o => h[i] = g[i]
      BY <1>1, <1>2 DEF ExecutedIn
    <2>4. len \in Nat /\ g \in [1..len -> Nat] /\ h \in [1..len -> Nat] /\ o \in 1..len /\ x \in Nat
          /\ h[o] = g[o] + x /\ \A i \in 1..len : i # o => h[i] = g[i]
      BY <1>1, <2>1, <2>2, <2>3
    <2> HIDE DEF g, h, x
    <2>5. Total(h) = Total(g) + x
      BY ONLY <2>4, SumsChange
    <2> QED
      BY <2>5 DEF g, h, x, Executed
  <1>5. Reported(m, b) = Reported(l, b)
    <2>1. ReportedIn(m, b) = ReportedIn(l, b)
      BY <1>2 DEF ReportedIn
    <2> QED
      BY <2>1 DEF Reported
  <1>6. ASSUME NEW t, t # s \/ l.orders[o].side # "sell"
        PROVE  Pending(m, b, t) = Pending(l, b, t)
    <2>1. ~IsPending(m, o, t) /\ ~IsPending(l, o, t)
      BY <1>1, <1>2, <1>6 DEF IsPending
    <2>2. PendingIn(m, b, t) = PendingIn(l, b, t)
      <3>1. \A p \in Rows(l) : /\ IsPending(m, p, t) <=> IsPending(l, p, t)
                               /\ IsPending(m, p, t) =>
                                    Reports(m, b, p) - Filled(m, p) = Reports(l, b, p) - Filled(l, p)
        BY <1>2, <2>1 DEF IsPending
      <3> QED
        BY <1>2, <3>1 DEF PendingIn
    <2> QED
      BY <2>2 DEF Pending
  <1>7. ASSUME l.orders[o].side = "sell"
        PROVE  /\ Pending(m, b, s) + q <= Pending(l, b, s)
               /\ Filled(l, o) + q = Reports(l, b, o) => Pending(m, b, s) + q = Pending(l, b, s)
    <2> DEFINE g == PendingIn(l, b, s)
               h == PendingIn(m, b, s)
    <2>1. g \in [1..len -> Nat] /\ h \in [1..len -> Nat] /\ Total(g) \in Nat /\ Total(h) \in Nat
      BY <1>1, <1>2, <1>3, SumFacts DEF Pending
    <2>2. g[o] = Reports(l, b, o) - Filled(l, o)
      BY <1>1, <1>7 DEF PendingIn, IsPending
    <2>3. h[o] = Reports(l, b, o) - (Filled(l, o) + q) \/ h[o] = 0
      BY <1>1, <1>2 DEF PendingIn
    <2>4. g[o] \in Nat /\ h[o] \in Nat /\ h[o] + q <= g[o]
          /\ (Filled(l, o) + q = Reports(l, b, o) => h[o] + q = g[o])
      BY <1>1, <2>2, <2>3
    <2>5. \A i \in 1..len : i # o => h[i] = g[i]
      BY <1>1, <1>2 DEF PendingIn, IsPending
    <2>6. len \in Nat /\ g \in [1..len -> Nat] /\ h \in [1..len -> Nat] /\ o \in 1..len
          /\ \A i \in 1..len : i # o => h[i] = g[i]
      BY <1>1, <2>1, <2>5
    <2> HIDE DEF g, h
    <2>7. Total(h) + g[o] = Total(g) + h[o]
      BY ONLY <2>6, TermExchanged
    <2> PICK gs : gs = Total(g)
      OBVIOUS
    <2> PICK hs : hs = Total(h)
      OBVIOUS
    <2> PICK go : go = g[o]
      OBVIOUS
    <2> PICK ho : ho = h[o]
      OBVIOUS
    <2> PICK left : left = (Filled(l, o) + q = Reports(l, b, o))
      OBVIOUS
    <2>9. /\ gs \in Nat /\ hs \in Nat /\ go \in Nat /\ ho \in Nat /\ q \in Nat /\ ho + q <= go
          /\ (left => ho + q = go) /\ hs + go = gs + ho
      BY <1>1, <2>1, <2>4, <2>7
    <2>10. hs + q <= gs /\ (left => hs + q = gs)
      BY ONLY <2>9
    <2>8. Total(h) + q <= Total(g) /\ (Filled(l, o) + q = Reports(l, b, o) => Total(h) + q = Total(g))
      BY <2>10
    <2> QED
      BY <2>8 DEF g, h, Pending
  <1> QED
    BY <1>4, <1>5, <1>6, <1>7

\* The account of the positions, when a fill is booked.
LEMMA BookedSound ==
  ASSUME NEW l, NEW b, Sound(l, b), NEW f, MayBook(l, b, f)
  PROVE  Sound(Booked(l, f), b)
  <1> PICK m : m = Booked(l, f)
    OBVIOUS
  <1> PICK o : o = f.order
    OBVIOUS
  <1> PICK s : s = l.orders[o].strategy
    OBVIOUS
  <1> PICK q : q = f.quantity
    OBVIOUS
  <1>1. Shape(l, b) /\ BuysFit(l, b) /\ PositionsFit(l)
    BY DEF Sound
  <1>2. Shape(m, b)
    BY <1>1, BookedShape
  <1>3. /\ Rows(m) = Rows(l) /\ Len(m.orders) = Len(l.orders) /\ m.orders \in Seq(Row)
        /\ \A p \in Rows(l) : /\ m.orders[p].number = l.orders[p].number
                              /\ m.orders[p].strategy = l.orders[p].strategy
    BY <1>1, BookedSame
  <1>4. /\ \A side : Executed(m, side) = Executed(l, side) + (IF l.orders[o].side = side THEN q ELSE 0)
        /\ Reported(m, b) = Reported(l, b)
    BY <1>1, BookedSums
  <1>5. BuysFit(m, b)
    <2>1. \A p \in Rows(l) : m.orders[p].number = l.orders[p].number
      BY <1>3
    <2>2. Rows(m) = Rows(l) /\ Reported(m, b) = Reported(l, b)
      BY <1>3, <1>4
    <2>3. BuysFit(l, b)
      BY <1>1
    <2>4. SUFFICES \A n \in 1..Len(b) : b[n].side = "buy" =>
                    \E x \in Rows(l) : \A p \in Rows(l) : m.orders[p].number = n <=> p = x
      BY ONLY <2>2, <2>3, <2>4 DEF BuysFit
    <2> QED
      BY ONLY <2>1, <2>3 DEF BuysFit
  <1>6. /\ o \in Rows(l) /\ s \in Strategies /\ l.orders[o].side \in {"buy", "sell"} /\ q \in Nat
        /\ l.orders \in Seq(Row)
    BY <1>1, RowFacts, SumFacts DEF MayBook, News
  <1>7. /\ \A t \in Strategies : t # s => m.lots[t] = l.lots[t] /\ m.position[t] = l.position[t]
        /\ Explains(m.lots[s], m.position[s])
        /\ l.orders[o].side = "buy" => m.position[s].quantity = l.position[s].quantity + q
        /\ l.orders[o].side = "sell" => m.position[s].quantity + q = l.position[s].quantity
    BY <1>1, BookedLots
  <1>8. \A t \in Strategies : HasRows(m.orders, t) <=> HasRows(l.orders, t)
    BY <1>3 DEF HasRows, Rows
  <1>9. HasRows(l.orders, s)
    BY <1>6 DEF HasRows, Rows
  <1>10. OverStrategies(m, Held(m)) + Executed(m, "sell") = Executed(m, "buy")
    <2>1. FirstIn(m.orders, Held(m)) = FirstIn(l.orders, Held(m))
      <3>1. \A p \in 1..Len(l.orders) : m.orders[p].strategy = l.orders[p].strategy
        BY <1>3 DEF Rows
      <3> QED
        BY <1>3, <1>6, <3>1, FirstOfSameRows
    <2>2. Held(m) \in [Strategies -> Nat] /\ Held(l) \in [Strategies -> Nat]
      BY <1>1, <1>2, SumFacts
    <2>3. \A t \in Strategies : t # s => Held(m)[t] = Held(l)[t]
      BY <1>7, ZenonT(20) DEF Held
    <2>4. Total(FirstIn(l.orders, Held(m))) + Held(l)[s] = Total(FirstIn(l.orders, Held(l))) + Held(m)[s]
      BY <1>6, <1>9, <2>2, <2>3, FirstExchanged
    <2> PICK x : x = Total(FirstIn(l.orders, Held(l)))
      OBVIOUS
    <2> PICK y : y = Total(FirstIn(l.orders, Held(m)))
      OBVIOUS
    <2>5. x \in Nat /\ y \in Nat
      BY <1>6, <2>2, FirstIsCounted
    <2> PICK a : a = Held(l)[s]
      OBVIOUS
    <2> PICK c : c = Held(m)[s]
      OBVIOUS
    <2>6. a \in Nat /\ c \in Nat /\ y + a = x + c
      BY <1>6, <2>2, <2>4
    <2>7. /\ l.orders[o].side = "buy" => c = a + q
          /\ l.orders[o].side = "sell" => c + q = a
      BY <1>6, <1>7, ZenonT(20) DEF Held
    <2> PICK d : d = Executed(l, "sell")
      OBVIOUS
    <2> PICK e : e = Executed(l, "buy")
      OBVIOUS
    <2>8. d \in Nat /\ e \in Nat /\ x + d = e
      <3>1. Executed(l, "sell") \in Nat /\ Executed(l, "buy") \in Nat
        BY <1>1, SumFacts
      <3>2. OverStrategies(l, Held(l)) = x
        BY DEF OverStrategies
      <3> QED
        BY <1>1, <3>1, <3>2 DEF PositionsFit
    <2>9. OverStrategies(m, Held(m)) = y
      BY <2>1 DEF OverStrategies
    <2>10. CASE l.orders[o].side = "buy"
      <3>1. Executed(m, "sell") = d /\ Executed(m, "buy") = e + q
        BY <1>4, <2>8, <2>10
      <3>3. /\ a \in Nat /\ c \in Nat /\ d \in Nat /\ e \in Nat /\ x \in Nat /\ y \in Nat /\ q \in Nat
            /\ y + a = x + c /\ x + d = e /\ c = a + q
        BY <1>6, <2>5, <2>6, <2>7, <2>8, <2>10
      <3>2. y + d = e + q
        BY ONLY <3>3
      <3> QED
        BY <2>9, <3>1, <3>2
    <2>11. CASE l.orders[o].side = "sell"
      <3>1. Executed(m, "sell") = d + q /\ Executed(m, "buy") = e
        BY <1>4, <2>8, <2>11
      <3>3. /\ a \in Nat /\ c \in Nat /\ d \in Nat /\ e \in Nat /\ x \in Nat /\ y \in Nat /\ q \in Nat
            /\ y + a = x + c /\ x + d = e /\ c + q = a
        BY <1>6, <2>5, <2>6, <2>7, <2>8, <2>11
      <3>2. y + (d + q) = e
        BY ONLY <3>3
      <3> QED
        BY <2>9, <3>1, <3>2
    <2> QED
      BY <1>6, <2>10, <2>11
  <1>11. \A t \in Strategies : Explains(m.lots[t], m.position[t])
    BY <1>1, <1>7, ZenonT(20) DEF PositionsFit
  <1>12. \A t \in Strategies : m.position[t].quantity # 0 => HasRows(m.orders, t)
    BY <1>1, <1>7, <1>8, <1>9, ZenonT(20) DEF PositionsFit
  <1> QED
    BY <1>2, <1>5, <1>10, <1>11, <1>12 DEF Sound, PositionsFit

-----------------------------------------------------------------------------
(***************************************************************************)
(* The units in the account that no ledger sale is behind.                 *)
(***************************************************************************)
HoldingsFit(b, h) == h \in Nat /\ h + Traded(b, "sell") = Traded(b, "buy")

\* Of each position some units are kept that no open sell has sold at the
\* broker, and of two strategies with one broker order only one keeps any.
Keeps(l, b, k) ==
  /\ \A t \in Strategies : k[t] # 0 => k[t] + Pending(l, b, t) <= l.position[t].quantity
  /\ \A o, p \in Rows(l) :
       /\ IsPending(l, o, l.orders[o].strategy) /\ IsPending(l, p, l.orders[p].strategy)
       /\ l.orders[o].number = l.orders[p].number
       /\ k[l.orders[o].strategy] # 0 /\ k[l.orders[p].strategy] # 0
       => l.orders[o].strategy = l.orders[p].strategy

\* The account holds no more than the units kept and those whose buy the
\* ledger does not know yet.
Fits(l, b, h, k) == h + Executed(l, "buy") <= Traded(b, "buy") + OverStrategies(l, k)
Covered(l, b, h) == \E k \in [Strategies -> Nat] : Keeps(l, b, k) /\ Fits(l, b, h, k)

Accounted(l, b, h) == Sound(l, b) /\ HoldingsFit(b, h) /\ Covered(l, b, h)

\* The numbers the account is about.
LEMMA AccountFacts ==
  ASSUME NEW l, NEW b, NEW h, Accounted(l, b, h)
  PROVE  /\ Shape(l, b) /\ BuysFit(l, b) /\ PositionsFit(l) /\ h \in Nat
         /\ Executed(l, "buy") \in Nat /\ Executed(l, "sell") \in Nat
         /\ Traded(b, "buy") \in Nat /\ Traded(b, "sell") \in Nat
         /\ h + Traded(b, "sell") = Traded(b, "buy") /\ Held(l) \in [Strategies -> Nat]
         /\ OverStrategies(l, Held(l)) + Executed(l, "sell") = Executed(l, "buy")
         /\ \A k \in [Strategies -> Nat] : OverStrategies(l, k) \in Nat
  <1>1. Shape(l, b) /\ BuysFit(l, b) /\ PositionsFit(l) /\ HoldingsFit(b, h)
    BY DEF Accounted, Sound
  <1>2. Held(l) \in [Strategies -> Nat] /\ l.orders \in Seq(Row)
    BY <1>1, SumFacts
  <1>3. \A k \in [Strategies -> Nat] : OverStrategies(l, k) \in Nat
    BY <1>2, FirstIsCounted DEF OverStrategies
  <1>4. /\ Executed(l, "buy") \in Nat /\ Executed(l, "sell") \in Nat
        /\ Traded(b, "buy") \in Nat /\ Traded(b, "sell") \in Nat
    BY <1>1, SumFacts
  <1> QED
    BY <1>1, <1>2, <1>3, <1>4 DEF HoldingsFit, PositionsFit

\* No more is sold in the ledger than at the broker.
LEMMA SoldFits ==
  ASSUME NEW l, NEW b, NEW h, Accounted(l, b, h)
  PROVE  Executed(l, "sell") <= Traded(b, "sell")
  <1>1. /\ Shape(l, b) /\ Held(l) \in [Strategies -> Nat] /\ h \in Nat
        /\ Executed(l, "buy") \in Nat /\ Executed(l, "sell") \in Nat
        /\ Traded(b, "buy") \in Nat /\ Traded(b, "sell") \in Nat
        /\ h + Traded(b, "sell") = Traded(b, "buy")
        /\ OverStrategies(l, Held(l)) + Executed(l, "sell") = Executed(l, "buy")
        /\ \A k \in [Strategies -> Nat] : OverStrategies(l, k) \in Nat
    BY AccountFacts
  <1>2. PICK k \in [Strategies -> Nat] : Keeps(l, b, k) /\ Fits(l, b, h, k)
    BY DEF Accounted, Covered
  <1>3. \A t \in Strategies : Pending(l, b, t) \in Nat /\ Held(l)[t] = l.position[t].quantity
    BY <1>1, SumFacts DEF Held
  <1>4. \A t \in Strategies : k[t] <= Held(l)[t]
    <2> SUFFICES ASSUME NEW t \in Strategies PROVE k[t] <= Held(l)[t]
      OBVIOUS
    <2>1. /\ k[t] \in Nat /\ Held(l)[t] \in Nat /\ Pending(l, b, t) \in Nat
          /\ k[t] # 0 => k[t] + Pending(l, b, t) <= Held(l)[t]
      BY <1>1, <1>2, <1>3 DEF Keeps
    <2> QED
      BY ONLY <2>1
  <1>5. l.orders \in Seq(Row)
    BY <1>1, SumFacts
  <1>6. OverStrategies(l, k) <= OverStrategies(l, Held(l))
    BY <1>1, <1>2, <1>4, <1>5, FirstSmaller DEF OverStrategies
  <1>7. /\ OverStrategies(l, k) \in Nat /\ OverStrategies(l, Held(l)) \in Nat
        /\ h + Executed(l, "buy") <= Traded(b, "buy") + OverStrategies(l, k)
    BY <1>1, <1>2 DEF Fits
  <1> QED
    BY <1>1, <1>6, <1>7

\* The ledger knows no buy that the broker did not report.
LEMMA BoughtFits ==
  ASSUME NEW l, NEW b, Sound(l, b)
  PROVE  Executed(l, "buy") <= Traded(b, "buy")
  <1> DEFINE f == ExecutedIn(l, "buy")
             g == ReportedIn(l, b)
             len == Len(l.orders)
  <1>1. Shape(l, b) /\ Traded(b, "buy") = Reported(l, b)
    BY DEF Sound, BuysFit
  <1>2. /\ len \in Nat /\ Rows(l) = 1..len
        /\ \A o \in Rows(l) : Filled(l, o) <= Reports(l, b, o)
    BY <1>1, RowFacts DEF Rows
  <1>3. f \in [1..len -> Nat] /\ g \in [1..len -> Nat]
    BY <1>1, <1>2, SumFacts
  <1>4. \A i \in 1..len : f[i] <= g[i]
    BY <1>2 DEF ExecutedIn, ReportedIn
  <1>5. len \in Nat /\ f \in [1..len -> Nat] /\ g \in [1..len -> Nat] /\ \A i \in 1..len : f[i] <= g[i]
    BY <1>2, <1>3, <1>4
  <1> HIDE DEF f, g, len
  <1>6. Total(f) <= Total(g)
    BY ONLY <1>5, SmallerTerms
  <1> QED
    BY <1>1, <1>6 DEF f, g, Executed, Reported

\* The ledger and the broker before the first order.
LEMMA NothingAccounted ==
  ASSUME NEW l \in Tables, l.orders = <<>>, l.executions = [o \in Ids |-> <<>>],
         \A t \in Strategies : l.lots[t] = <<>> /\ l.position[t] = NoPosition
  PROVE  Accounted(l, <<>>, 0)
  <1>1. Len(l.orders) = 0 /\ Rows(l) = {} /\ Rows(l) = 1..0
    BY DEF Rows
  <1>2. Shape(l, <<>>)
    <2>1. <<>> \in Seq(BookRow) /\ 0 <= MaxOrders
      BY FillLedgerAssumption
    <2> QED
      BY <1>1, <2>1 DEF Shape
  <1>3. \A f \in [1..0 -> Nat] : Total(f) = 0
    <2>1. 0 \in Nat
      OBVIOUS
    <2> SUFFICES ASSUME NEW f \in [1..0 -> Nat] PROVE Total(f) = 0
      OBVIOUS
    <2>2. f \in [1..0 -> Nat] /\ \A i \in 1..0 : f[i] = 0
      OBVIOUS
    <2> QED
      BY ONLY <2>1, <2>2, ZeroTotal
  <1>4. /\ \A side : ExecutedIn(l, side) \in [1..0 -> Nat] /\ TradedIn(<<>>, side) \in [1..0 -> Nat]
        /\ ReportedIn(l, <<>>) \in [1..0 -> Nat]
        /\ Held(l) \in [Strategies -> Nat] /\ l.orders \in Seq(Row)
    BY <1>1, <1>2, SumFacts
  <1>5. /\ \A side : Executed(l, side) = 0 /\ Traded(<<>>, side) = 0
        /\ Reported(l, <<>>) = 0
    BY <1>3, <1>4 DEF Executed, Traded, Reported
  <1>6. \A k \in [Strategies -> Nat] : OverStrategies(l, k) = 0
    BY <1>1, <1>3, <1>4, FirstIsCounted DEF OverStrategies
  <1>7. BuysFit(l, <<>>)
    BY <1>5 DEF BuysFit
  <1>8. PositionsFit(l)
    <2>1. Explains(<<>>, NoPosition)
      <3>1. <<>> \in Seq(Lot) /\ Len(<<>>) = 0 /\ \A i \in 1..0 : FALSE
        BY EmptySeq
      <3>2. Sorted(<<>>) /\ Counted(<<>>)
        BY <3>1 DEF Sorted, Counted
      <3>3. Units(<<>>) \in [1..0 -> Nat] /\ Costs(<<>>) \in [1..0 -> Nat]
        BY <3>1, LotsAreCounted
      <3>4. LeftIn(<<>>) = 0 /\ CostOf(<<>>) = 0
        BY <1>3, <3>3 DEF LeftIn, CostOf
      <3> QED
        BY <3>1, <3>2, <3>4 DEF Explains, NoPosition
    <2>2. \A t \in Strategies : Explains(l.lots[t], l.position[t]) /\ l.position[t].quantity = 0
      BY <2>1 DEF NoPosition
    <2> QED
      BY <1>4, <1>5, <1>6, <2>2 DEF PositionsFit
  <1>9. Covered(l, <<>>, 0)
    <2> DEFINE none == [t \in Strategies |-> 0]
    <2>1. none \in [Strategies -> Nat] /\ \A t \in Strategies : none[t] = 0
      OBVIOUS
    <2> HIDE DEF none
    <2>2. Keeps(l, <<>>, none)
      BY <1>1, <2>1 DEF Keeps
    <2>3. Fits(l, <<>>, 0, none)
      <3>1. /\ Executed(l, "buy") = 0 /\ Traded(<<>>, "buy") = 0 /\ OverStrategies(l, none) = 0
        BY <1>5, <1>6, <2>1
      <3> QED
        BY <3>1 DEF Fits
    <2> QED
      BY <2>1, <2>2, <2>3 DEF Covered
  <1> QED
    BY <1>2, <1>5, <1>7, <1>8, <1>9 DEF Accounted, Sound, HoldingsFit

\* An order the owner places by hand.
LEMMA ManualAccounted ==
  ASSUME NEW l, NEW b, NEW h, Accounted(l, b, h), NEW x \in BookRow, x.filled = 0, x.side = "sell"
  PROVE  Accounted(l, Append(b, x), h)
  <1> PICK c : c = Append(b, x)
    OBVIOUS
  <1>1. Shape(l, b) /\ BuysFit(l, b) /\ PositionsFit(l)
    BY AccountFacts
  <1>2. /\ Shape(l, c) /\ Len(c) = Len(b) + 1 /\ c[Len(b) + 1] = x
        /\ \A n \in 1..Len(b) : c[n] = b[n]
        /\ \A side : Traded(c, side) = Traded(b, side)
        /\ Reported(l, c) = Reported(l, b) /\ \A t : Pending(l, c, t) = Pending(l, b, t)
    BY <1>1, BookLonger
  <1>3. Len(b) \in Nat /\ \A o \in Rows(l) : l.orders[o].number \in 1..Len(b)
    BY <1>1, RowFacts
  <1>4. BuysFit(l, c)
    <2>1. \A n \in 1..Len(c) : c[n].side = "buy" => n \in 1..Len(b) /\ b[n].side = "buy"
      <3>1. \A n \in 1..Len(c) : n \in 1..Len(b) \/ n = Len(b) + 1
        BY <1>2, <1>3
      <3> QED
        BY <1>2, <3>1
    <2> QED
      BY <1>1, <1>2, <2>1 DEF BuysFit
  <1>5. HoldingsFit(c, h)
    BY <1>2 DEF Accounted, HoldingsFit
  <1>6. Covered(l, c, h)
    <2>1. \A k : Keeps(l, b, k) => Keeps(l, c, k)
      BY <1>2 DEF Keeps
    <2>2. \A k : Fits(l, b, h, k) => Fits(l, c, h, k)
      BY <1>2 DEF Fits
    <2> QED
      BY <2>1, <2>2 DEF Accounted, Covered
  <1> QED
    BY <1>1, <1>2, <1>4, <1>5, <1>6 DEF Accounted, Sound

\* A row of an order that is new at the broker.
LEMMA SubmitAccounted ==
  ASSUME NEW l, NEW b, NEW h, Accounted(l, b, h),
         NEW x \in BookRow, x.filled = 0, NEW row \in Row, row.number = Len(b) + 1, row.side = x.side, IsNamed(row),
         row.status = "submitted", Len(l.orders) < MaxOrders,
         \A o \in Rows(l) : Open(l, o) => l.orders[o].strategy # row.strategy
  PROVE  /\ Accounted(Longer(l, row), Append(b, x), h)
         /\ Executed(Longer(l, row), "buy") = Executed(l, "buy")
         /\ Traded(Append(b, x), "buy") = Traded(b, "buy")
  <1> PICK c : c = Append(b, x)
    OBVIOUS
  <1> PICK m : m = Longer(l, row)
    OBVIOUS
  <1> PICK s : s = row.strategy
    OBVIOUS
  <1> PICK i : i = Len(b) + 1
    OBVIOUS
  <1> PICK j : j = Len(l.orders) + 1
    OBVIOUS
  <1>1. Shape(l, b) /\ BuysFit(l, b) /\ PositionsFit(l)
    BY AccountFacts
  <1>2. /\ Shape(l, c) /\ Len(c) = i /\ c[i] = x
        /\ \A n \in 1..Len(b) : c[n] = b[n]
        /\ \A side : Traded(c, side) = Traded(b, side)
        /\ Reported(l, c) = Reported(l, b) /\ \A t : Pending(l, c, t) = Pending(l, b, t)
    BY <1>1, BookLonger
  <1>3. Len(b) \in Nat /\ (\A o \in Rows(l) : l.orders[o].number \in 1..Len(b)) /\ s \in Strategies
        /\ i \in 1..Len(c) /\ (\A n \in 1..Len(c) : n \in 1..Len(b) \/ n = i) /\ i \notin 1..Len(b)
    <2>1. Len(b) \in Nat /\ \A o \in Rows(l) : l.orders[o].number \in 1..Len(b)
      BY <1>1, RowFacts
    <2>2. i \in 1..Len(c) /\ (\A n \in 1..Len(c) : n \in 1..Len(b) \/ n = i) /\ i \notin 1..Len(b)
      BY <1>2, <2>1
    <2> QED
      BY <2>1, <2>2 DEF Row
  <1>4. MayAdd(l, c, row)
    <2>1. \A o \in Rows(l) : OrderKey(l.orders[o]) # OrderKey(row)
      BY <1>3 DEF OrderKey
    <2> QED
      BY <1>2, <1>3, <2>1 DEF MayAdd
  <1>5. /\ m.orders[j] = row
        /\ Rows(m) = Rows(l) \cup {j} /\ j \notin Rows(l)
        /\ m.position = l.position
        /\ \A o \in Rows(l) : /\ m.orders[o] = l.orders[o]
                              /\ Open(m, o) <=> Open(l, o)
        /\ Shape(m, c)
    BY <1>2, <1>4, RowAdded
  <1>6. /\ \A side : Executed(m, side) = Executed(l, side)
        /\ Reported(m, c) = Reported(l, c) + (IF row.side = "buy" THEN c[row.number].filled ELSE 0)
        /\ \A t : Pending(m, c, t) =
             Pending(l, c, t) + (IF t = row.strategy /\ row.side = "sell" THEN c[row.number].filled ELSE 0)
        /\ \A k \in [Strategies -> Nat] :
             OverStrategies(m, k) = OverStrategies(l, k) +
               (IF HasRows(l.orders, row.strategy) THEN 0 ELSE k[row.strategy])
        /\ PositionsFit(m)
    <2>1. WithRowSums(l, c, row, m)
      BY <1>1, <1>2, <1>4, RowAddedSums
    <2> QED
      BY <1>1, <2>1 DEF WithRowSums
  <1>7. c[row.number].filled = 0
    BY <1>2
  <1>8. Reported(m, c) = Reported(l, b) /\ \A t : Pending(m, c, t) = Pending(l, b, t)
    <2>1. Reported(l, c) \in Nat /\ \A t : Pending(l, c, t) \in Nat
      BY <1>2, SumFacts
    <2>2. Reported(m, c) = Reported(l, c) /\ \A t : Pending(m, c, t) = Pending(l, c, t)
      BY <1>6, <1>7, <2>1
    <2> QED
      BY <1>2, <2>2
  <1>9. BuysFit(m, c)
    <2>1. ASSUME NEW n \in 1..Len(c), c[n].side = "buy"
          PROVE \E o \in Rows(m) : \A p \in Rows(m) : m.orders[p].number = n <=> p = o
      <3>1. CASE n \in 1..Len(b)
        <4>1. PICK o \in Rows(l) : \A p \in Rows(l) : l.orders[p].number = n <=> p = o
          BY <1>1, <1>2, <2>1, <3>1 DEF BuysFit
        <4>2. \A p \in Rows(m) : m.orders[p].number = n <=> p = o
          BY <1>3, <1>5, <3>1, <4>1
        <4> QED
          BY <1>5, <4>2
      <3>2. CASE n = i
        <4>1. \A p \in Rows(m) : m.orders[p].number = n <=> p = j
          BY <1>3, <1>5, <3>2
        <4> QED
          BY <1>5, <4>1
      <3> QED
        BY <1>3, <3>1, <3>2
    <2> QED
      BY <1>1, <1>2, <1>8, <2>1 DEF BuysFit
  <1>10. HoldingsFit(c, h)
    BY <1>2 DEF Accounted, HoldingsFit
  <1>11. Covered(m, c, h)
    <2>1. PICK k \in [Strategies -> Nat] : Keeps(l, b, k) /\ Fits(l, b, h, k)
      BY DEF Accounted, Covered
    <2>2. ~HasRows(l.orders, s) => k[s] = 0
      <3>1. k[s] \in Nat /\ Pending(l, b, s) \in Nat
        BY <1>1, <1>3, <2>1, SumFacts
      <3>2. k[s] # 0 => k[s] + Pending(l, b, s) <= l.position[s].quantity
        BY <1>3, <2>1 DEF Keeps
      <3>3. ~HasRows(l.orders, s) => l.position[s].quantity = 0
        BY <1>1, <1>3 DEF PositionsFit
      <3> QED
        BY <3>1, <3>2, <3>3
    <2>3. OverStrategies(m, k) = OverStrategies(l, k)
      <3>1. OverStrategies(l, k) \in Nat
        BY <2>1, AccountFacts
      <3>2. OverStrategies(m, k) = OverStrategies(l, k) + (IF HasRows(l.orders, s) THEN 0 ELSE k[s])
        BY <1>6, <2>1, ZenonT(40)
      <3> QED
        BY <2>2, <3>1, <3>2
    <2>4. Keeps(m, c, k)
      <3>1. \A o \in Rows(l) : m.orders[o].number # row.number
        BY <1>3, <1>5
      <3>2. \A o, p \in Rows(m) : m.orders[o].number = m.orders[p].number =>
              o = p \/ (o \in Rows(l) /\ p \in Rows(l))
        BY <1>5, <3>1
      <3>3. \A o \in Rows(l) : \A t : IsPending(m, o, t) <=> IsPending(l, o, t)
        BY <1>5 DEF IsPending
      <3>4. ASSUME NEW o \in Rows(m), NEW p \in Rows(m),
                   IsPending(m, o, m.orders[o].strategy) /\ IsPending(m, p, m.orders[p].strategy)
                   /\ m.orders[o].number = m.orders[p].number
                   /\ k[m.orders[o].strategy] # 0 /\ k[m.orders[p].strategy] # 0
            PROVE  m.orders[o].strategy = m.orders[p].strategy
        <4>1. CASE o = p
          BY <4>1
        <4>2. CASE o \in Rows(l) /\ p \in Rows(l)
          BY <1>5, <2>1, <3>3, <3>4, <4>2 DEF Keeps
        <4> QED
          BY <3>2, <3>4, <4>1, <4>2
      <3>5. \A t \in Strategies : k[t] # 0 => k[t] + Pending(m, c, t) <= m.position[t].quantity
        BY <1>5, <1>8, <2>1 DEF Keeps
      <3> QED
        BY <3>4, <3>5 DEF Keeps
    <2>5. Fits(m, c, h, k)
      BY <1>2, <1>6, <2>1, <2>3 DEF Fits
    <2> QED
      BY <2>1, <2>4, <2>5 DEF Covered
  <1> QED
    BY <1>2, <1>5, <1>6, <1>9, <1>10, <1>11 DEF Accounted, Sound

\* A unit is traded at the broker.
LEMMA UnitAccounted ==
  ASSUME NEW l, NEW b, NEW h, Accounted(l, b, h), NEW c, NEW n, UnitMore(b, c, n),
         b[n].side = "sell" => h > 0,
         NEW g, g = IF b[n].side = "buy" THEN h + 1 ELSE h - 1
  PROVE  Accounted(l, c, g)
  <1>1. /\ Shape(l, b) /\ BuysFit(l, b) /\ PositionsFit(l) /\ h \in Nat
        /\ Executed(l, "buy") \in Nat /\ Traded(b, "buy") \in Nat /\ Traded(b, "sell") \in Nat
        /\ h + Traded(b, "sell") = Traded(b, "buy")
        /\ \A k \in [Strategies -> Nat] : OverStrategies(l, k) \in Nat
    BY AccountFacts
  <1>2. /\ Shape(l, c)
        /\ \A side : Traded(c, side) = Traded(b, side) + (IF b[n].side = side THEN 1 ELSE 0)
    BY <1>1, UnitTraded
  <1>3. BuysFit(l, c)
    BY <1>1, UnitKeepsBuys
  <1>4. \A t \in Strategies : Pending(l, c, t) = Pending(l, b, t) +
          (IF \E o \in Rows(l) : IsPending(l, o, t) /\ l.orders[o].number = n THEN 1 ELSE 0)
    BY <1>1, UnitPending
  <1>5. b[n].side \in {"buy", "sell"} /\ n \in 1..Len(b) /\ l.orders \in Seq(Row)
        /\ \A o \in Rows(l) : b[l.orders[o].number].side = l.orders[o].side
    BY <1>1, RowFacts, SumFacts DEF UnitMore, Shape
  <1>6. PICK k \in [Strategies -> Nat] : Keeps(l, b, k) /\ Fits(l, b, h, k)
    BY DEF Accounted, Covered
  <1>7. \A t \in Strategies : Pending(l, b, t) \in Nat /\ l.position[t].quantity \in Nat /\ k[t] \in Nat
    BY <1>1, <1>6, SumFacts DEF Held
  <1> DEFINE Touched(t) == \E o \in Rows(l) : IsPending(l, o, t) /\ l.orders[o].number = n
  <1>8. CASE b[n].side = "buy"
    <2>1. \A t : ~Touched(t)
      BY <1>5, <1>8 DEF IsPending
    <2>2. \A t \in Strategies : Pending(l, c, t) = Pending(l, b, t)
      BY <1>4, <1>7, <2>1
    <2>3. Keeps(l, c, k)
      BY <1>6, <2>2 DEF Keeps
    <2>4. g = h + 1 /\ Traded(c, "buy") = Traded(b, "buy") + 1 /\ Traded(c, "sell") = Traded(b, "sell")
      BY <1>1, <1>2, <1>8
    <2>5. Fits(l, c, g, k) /\ HoldingsFit(c, g)
      <3>1. OverStrategies(l, k) \in Nat /\ h + Executed(l, "buy") <= Traded(b, "buy") + OverStrategies(l, k)
        BY <1>1, <1>6 DEF Fits
      <3> QED
        BY <1>1, <2>4, <3>1 DEF Fits, HoldingsFit
    <2> QED
      BY <1>1, <1>2, <1>3, <1>6, <2>3, <2>5 DEF Accounted, Sound, Covered
  <1>9. CASE b[n].side = "sell"
    <2>1. g = h - 1 /\ g \in Nat /\ g + 1 = h
          /\ Traded(c, "buy") = Traded(b, "buy") /\ Traded(c, "sell") = Traded(b, "sell") + 1
      BY <1>1, <1>2, <1>9
    <2>2. HoldingsFit(c, g)
      BY <1>1, <2>1 DEF HoldingsFit
    <2>3. Covered(l, c, g)
      <3>1. CASE \E t \in Strategies : Touched(t) /\ k[t] # 0
        <4>1. PICK t \in Strategies : Touched(t) /\ k[t] # 0
          BY <3>1
        <4>2. \A u \in Strategies : Touched(u) /\ k[u] # 0 => u = t
          <5>1. PICK o \in Rows(l) : IsPending(l, o, t) /\ l.orders[o].number = n
            BY <4>1
          <5>2. ASSUME NEW u \in Strategies, NEW p \in Rows(l), IsPending(l, p, u),
                       l.orders[p].number = n, k[u] # 0
                PROVE  u = t
            <6>1. l.orders[o].strategy = t /\ l.orders[p].strategy = u
              BY <5>1, <5>2 DEF IsPending
            <6> QED
              BY <1>6, <4>1, <5>1, <5>2, <6>1 DEF Keeps
          <5> QED
            BY <5>2
        <4> DEFINE less == [k EXCEPT ![t] = k[t] - 1]
        <4>3. /\ less \in [Strategies -> Nat] /\ less[t] + 1 = k[t]
              /\ \A u \in Strategies : u # t => less[u] = k[u]
          <5>1. k[t] - 1 \in Nat /\ (k[t] - 1) + 1 = k[t]
            BY <1>7, <4>1
          <5> QED
            BY <1>6, <5>1
        <4> HIDE DEF less
        <4>4. Keeps(l, c, less)
          <5>1. ASSUME NEW u \in Strategies, less[u] # 0
                PROVE  less[u] + Pending(l, c, u) <= l.position[u].quantity
            <6> PICK x : x = Pending(l, b, u)
              OBVIOUS
            <6> PICK y : y = l.position[u].quantity
              OBVIOUS
            <6>1. x \in Nat /\ y \in Nat /\ k[u] \in Nat /\ (k[u] # 0 => k[u] + x <= y)
              BY <1>6, <1>7 DEF Keeps
            <6>2. CASE u = t
              <7>1. Pending(l, c, u) = x + 1
                BY <1>4, <4>1, <6>2
              <7>2. k[u] = less[u] + 1 /\ less[u] \in Nat /\ k[u] # 0
                BY <4>1, <4>3, <6>2
              <7> QED
                BY <6>1, <7>1, <7>2
            <6>3. CASE u # t
              <7>1. less[u] = k[u] /\ k[u] # 0
                BY <4>3, <5>1, <6>3
              <7>2. ~Touched(u)
                BY <4>2, <6>3, <7>1
              <7>3. Pending(l, c, u) = x
                BY <1>4, <6>1, <7>2
              <7> QED
                BY <6>1, <7>1, <7>3
            <6> QED
              BY <6>2, <6>3
          <5>2. \A u \in Strategies : less[u] # 0 => k[u] # 0
            BY <4>1, <4>3
          <5>3. \A o \in Rows(l) : l.orders[o].strategy \in Strategies
            BY <1>1, RowFacts
          <5>4. ASSUME NEW o \in Rows(l), NEW p \in Rows(l),
                       IsPending(l, o, l.orders[o].strategy) /\ IsPending(l, p, l.orders[p].strategy)
                       /\ l.orders[o].number = l.orders[p].number
                       /\ less[l.orders[o].strategy] # 0 /\ less[l.orders[p].strategy] # 0
                PROVE  l.orders[o].strategy = l.orders[p].strategy
            <6>1. k[l.orders[o].strategy] # 0 /\ k[l.orders[p].strategy] # 0
              BY <5>2, <5>3, <5>4
            <6> QED
              BY <1>6, <5>4, <6>1 DEF Keeps
          <5> QED
            BY <5>1, <5>4 DEF Keeps
        <4>5. OverStrategies(l, less) + 1 = OverStrategies(l, k)
          <5>1. HasRows(l.orders, t)
            BY <4>1 DEF HasRows, IsPending, Rows
          <5> PICK x : x = OverStrategies(l, less)
            OBVIOUS
          <5> PICK y : y = OverStrategies(l, k)
            OBVIOUS
          <5>2. x + k[t] = y + less[t]
            BY <1>5, <1>6, <4>3, <5>1, FirstExchanged DEF OverStrategies
          <5>3. x \in Nat /\ y \in Nat
            BY <1>1, <1>6, <4>3
          <5>4. less[t] \in Nat /\ less[t] + 1 = k[t]
            BY <4>3
          <5> QED
            BY <5>2, <5>3, <5>4
        <4>6. Fits(l, c, g, less)
          <5>1. OverStrategies(l, less) \in Nat /\ h + Executed(l, "buy") <= Traded(b, "buy") + OverStrategies(l, k)
            BY <1>1, <1>6, <4>3 DEF Fits
          <5> QED
            BY <1>1, <2>1, <4>5, <5>1 DEF Fits
        <4> QED
          BY <4>3, <4>4, <4>6 DEF Covered
      <3>2. CASE ~\E t \in Strategies : Touched(t) /\ k[t] # 0
        <4>1. \A t \in Strategies : k[t] # 0 => Pending(l, c, t) = Pending(l, b, t)
          BY <1>4, <1>7, <3>2
        <4>2. Keeps(l, c, k)
          BY <1>6, <4>1 DEF Keeps
        <4>3. Fits(l, c, g, k)
          <5>1. OverStrategies(l, k) \in Nat /\ h + Executed(l, "buy") <= Traded(b, "buy") + OverStrategies(l, k)
            BY <1>1, <1>6 DEF Fits
          <5> QED
            BY <1>1, <2>1, <5>1 DEF Fits
        <4> QED
          BY <1>6, <4>2, <4>3 DEF Covered
      <3> QED
        BY <3>1, <3>2
    <2> QED
      BY <1>1, <1>2, <1>3, <2>2, <2>3 DEF Accounted, Sound
  <1> QED
    BY <1>5, <1>8, <1>9

\* A fill that the poll books: what a buy brings is kept.
LEMMA FillAccounted ==
  ASSUME NEW l, NEW b, NEW h, Accounted(l, b, h), NEW f, MayBook(l, b, f)
  PROVE  Accounted(Booked(l, f), b, h)
  <1> PICK m : m = Booked(l, f)
    OBVIOUS
  <1> PICK o : o = f.order
    OBVIOUS
  <1> PICK s : s = l.orders[o].strategy
    OBVIOUS
  <1> PICK q : q = f.quantity
    OBVIOUS
  <1>1. /\ Shape(l, b) /\ BuysFit(l, b) /\ PositionsFit(l) /\ h \in Nat
        /\ Executed(l, "buy") \in Nat /\ Traded(b, "buy") \in Nat
        /\ \A k \in [Strategies -> Nat] : OverStrategies(l, k) \in Nat
    BY AccountFacts
  <1>2. Sound(m, b)
    BY BookedSound DEF Accounted
  <1>3. /\ o \in Rows(l) /\ s \in Strategies /\ l.orders[o].side \in {"buy", "sell"} /\ q \in Nat
        /\ Open(l, o) /\ l.orders \in Seq(Row)
    BY <1>1, RowFacts, SumFacts DEF MayBook, News
  <1>4. /\ Rows(m) = Rows(l) /\ Len(m.orders) = Len(l.orders) /\ m.orders \in Seq(Row)
        /\ \A p \in Rows(l) : /\ m.orders[p].number = l.orders[p].number
                              /\ m.orders[p].side = l.orders[p].side
                              /\ m.orders[p].strategy = l.orders[p].strategy
                              /\ Open(m, p) => Open(l, p)
    BY <1>1, BookedSame
  <1>5. /\ \A side : Executed(m, side) = Executed(l, side) + (IF l.orders[o].side = side THEN q ELSE 0)
        /\ \A t : t # s \/ l.orders[o].side # "sell" => Pending(m, b, t) = Pending(l, b, t)
        /\ l.orders[o].side = "sell" => Pending(m, b, s) + q <= Pending(l, b, s)
    BY <1>1, BookedSums
  <1>6. /\ \A t \in Strategies : t # s => m.position[t] = l.position[t]
        /\ l.orders[o].side = "buy" => m.position[s].quantity = l.position[s].quantity + q
        /\ l.orders[o].side = "sell" => m.position[s].quantity + q = l.position[s].quantity
    BY <1>1, BookedLots
  <1>7. \A k : OverStrategies(m, k) = OverStrategies(l, k)
    <2>1. \A p \in 1..Len(l.orders) : m.orders[p].strategy = l.orders[p].strategy
      BY <1>4 DEF Rows
    <2>2. \A k : FirstIn(m.orders, k) = FirstIn(l.orders, k)
      BY <1>3, <1>4, <2>1, FirstOfSameRows
    <2> QED
      BY <2>2 DEF OverStrategies
  <1>8. PICK k \in [Strategies -> Nat] : Keeps(l, b, k) /\ Fits(l, b, h, k)
    BY DEF Accounted, Covered
  <1>9. \A p \in Rows(m) : \A t : IsPending(m, p, t) => p \in Rows(l) /\ IsPending(l, p, t)
    BY <1>4 DEF IsPending
  <1>10. /\ \A t \in Strategies : Pending(l, b, t) \in Nat /\ l.position[t].quantity \in Nat /\ k[t] \in Nat
         /\ \A t \in Strategies : Pending(m, b, t) \in Nat /\ m.position[t].quantity \in Nat
    BY <1>1, <1>2, <1>8, SumFacts DEF Held, Sound
  <1>11. Covered(m, b, h)
    <2>1. CASE l.orders[o].side = "buy"
      <3> DEFINE more == [k EXCEPT ![s] = k[s] + q]
      <3>1. /\ more \in [Strategies -> Nat] /\ more[s] = k[s] + q
            /\ \A t \in Strategies : t # s => more[t] = k[t]
        <4>1. k[s] + q \in Nat
          BY <1>3, <1>10
        <4> QED
          BY <1>3, <1>8, <4>1
      <3> HIDE DEF more
      <3>2. \A p \in Rows(l) : ~IsPending(l, p, s)
        <4>1. ASSUME NEW p \in Rows(l), IsPending(l, p, s) PROVE FALSE
          <5>1. p # o /\ l.orders[o].strategy = l.orders[p].strategy /\ Open(l, p)
            BY <2>1, <4>1 DEF IsPending
          <5> QED
            BY <1>1, <1>3, <2>1, <5>1 DEF Shape
        <4> QED
          BY <4>1
      <3>3. Pending(l, b, s) = 0
        <4> DEFINE g == PendingIn(l, b, s)
                   len == Len(l.orders)
        <4>1. len \in Nat /\ g \in [1..len -> Nat] /\ \A i \in 1..len : g[i] = 0
          BY <1>1, <3>2, RowFacts, SumFacts DEF PendingIn, Rows
        <4> HIDE DEF g, len
        <4>2. Total(g) = 0
          BY ONLY <4>1, ZeroTotal
        <4> QED
          BY <4>2 DEF g, Pending
      <3>4. Keeps(m, b, more)
        <4>1. ASSUME NEW t \in Strategies, more[t] # 0
              PROVE  more[t] + Pending(m, b, t) <= m.position[t].quantity
          <5> PICK x : x = Pending(l, b, t)
            OBVIOUS
          <5> PICK y : y = l.position[t].quantity
            OBVIOUS
          <5>1. /\ x \in Nat /\ y \in Nat /\ k[t] \in Nat /\ (k[t] # 0 => k[t] + x <= y) /\ q \in Nat
                /\ Pending(m, b, t) = x
            BY <1>3, <1>5, <1>8, <1>10, <2>1 DEF Keeps
          <5>2. CASE t = s
            <6>1. more[t] = k[t] + q /\ m.position[t].quantity = y + q /\ x = 0
              BY <1>6, <2>1, <3>1, <3>3, <5>2
            <6> PICK u : u = k[t]
              OBVIOUS
            <6>2. u \in Nat /\ y \in Nat /\ q \in Nat /\ (u = 0 \/ u <= y)
              BY <5>1, <6>1
            <6>3. (u + q) + 0 <= y + q
              BY ONLY <6>2
            <6> QED
              BY <5>1, <6>1, <6>3
          <5>3. CASE t # s
            <6>1. more[t] = k[t] /\ m.position[t].quantity = y
              BY <1>6, <3>1, <5>3
            <6> QED
              BY <4>1, <5>1, <6>1
          <5> QED
            BY <5>2, <5>3
        <4>2. ASSUME NEW i \in Rows(m), NEW p \in Rows(m),
                     IsPending(m, i, m.orders[i].strategy) /\ IsPending(m, p, m.orders[p].strategy)
                     /\ m.orders[i].number = m.orders[p].number
                     /\ more[m.orders[i].strategy] # 0 /\ more[m.orders[p].strategy] # 0
              PROVE  m.orders[i].strategy = m.orders[p].strategy
          <5>1. /\ i \in Rows(l) /\ p \in Rows(l)
                /\ IsPending(l, i, l.orders[i].strategy) /\ IsPending(l, p, l.orders[p].strategy)
                /\ l.orders[i].number = l.orders[p].number
                /\ m.orders[i].strategy = l.orders[i].strategy /\ m.orders[p].strategy = l.orders[p].strategy
            BY <1>4, <1>9, <4>2
          <5>2. l.orders[i].strategy # s /\ l.orders[p].strategy # s
            BY <3>2, <5>1
          <5>3. l.orders[i].strategy \in Strategies /\ l.orders[p].strategy \in Strategies
            BY <1>1, <5>1, RowFacts
          <5>4. k[l.orders[i].strategy] # 0 /\ k[l.orders[p].strategy] # 0
            BY <3>1, <4>2, <5>1, <5>2, <5>3
          <5> QED
            BY <1>8, <5>1, <5>4 DEF Keeps
        <4> QED
          BY <4>1, <4>2 DEF Keeps
      <3>5. OverStrategies(m, more) = OverStrategies(l, k) + q
        <4>1. HasRows(l.orders, s)
          BY <1>3 DEF HasRows, Rows
        <4> PICK x : x = OverStrategies(l, more)
          OBVIOUS
        <4> PICK y : y = OverStrategies(l, k)
          OBVIOUS
        <4>2. x + k[s] = y + more[s]
          BY <1>3, <1>8, <3>1, <4>1, FirstExchanged DEF OverStrategies
        <4> PICK u : u = k[s]
          OBVIOUS
        <4>3. x \in Nat /\ y \in Nat /\ q \in Nat /\ u \in Nat /\ x + u = y + (u + q)
          BY <1>1, <1>3, <1>8, <1>10, <3>1, <4>2
        <4>4. x = y + q
          BY ONLY <4>3
        <4> QED
          BY <1>7, <4>4
      <3>6. Fits(m, b, h, more)
        <4>1. /\ OverStrategies(l, k) \in Nat /\ h + Executed(l, "buy") <= Traded(b, "buy") + OverStrategies(l, k)
              /\ Executed(m, "buy") = Executed(l, "buy") + q
          BY <1>1, <1>5, <1>8, <2>1 DEF Fits
        <4> PICK x : x = OverStrategies(l, k)
          OBVIOUS
        <4> PICK e : e = Executed(l, "buy")
          OBVIOUS
        <4> PICK d : d = Traded(b, "buy")
          OBVIOUS
        <4>2. x \in Nat /\ e \in Nat /\ d \in Nat /\ h \in Nat /\ q \in Nat /\ h + e <= d + x
          BY <1>1, <1>3, <4>1
        <4>3. h + (e + q) <= d + (x + q)
          BY ONLY <4>2
        <4> QED
          BY <3>5, <4>1, <4>3 DEF Fits
      <3> QED
        BY <3>1, <3>4, <3>6 DEF Covered
    <2>2. CASE l.orders[o].side = "sell"
      <3>1. Keeps(m, b, k)
        <4>1. ASSUME NEW t \in Strategies, k[t] # 0
              PROVE  k[t] + Pending(m, b, t) <= m.position[t].quantity
          <5> PICK x : x = Pending(l, b, t)
            OBVIOUS
          <5> PICK y : y = l.position[t].quantity
            OBVIOUS
          <5> PICK v : v = Pending(m, b, t)
            OBVIOUS
          <5> PICK w : w = m.position[t].quantity
            OBVIOUS
          <5>1. /\ x \in Nat /\ y \in Nat /\ k[t] \in Nat /\ k[t] + x <= y /\ q \in Nat
                /\ v \in Nat /\ w \in Nat
            BY <1>3, <1>8, <1>10, <4>1 DEF Keeps
          <5>2. CASE t = s
            <6>1. v + q <= x /\ w + q = y
              BY <1>5, <1>6, <2>2, <5>2
            <6> QED
              BY <5>1, <6>1
          <5>3. CASE t # s
            <6>1. v = x /\ w = y
              BY <1>5, <1>6, <5>3
            <6> QED
              BY <5>1, <6>1
          <5> QED
            BY <5>2, <5>3
        <4>2. ASSUME NEW i \in Rows(m), NEW p \in Rows(m),
                     IsPending(m, i, m.orders[i].strategy) /\ IsPending(m, p, m.orders[p].strategy)
                     /\ m.orders[i].number = m.orders[p].number
                     /\ k[m.orders[i].strategy] # 0 /\ k[m.orders[p].strategy] # 0
              PROVE  m.orders[i].strategy = m.orders[p].strategy
          BY <1>4, <1>8, <1>9, <4>2 DEF Keeps
        <4> QED
          BY <4>1, <4>2 DEF Keeps
      <3>2. Executed(m, "buy") = Executed(l, "buy")
        BY <1>1, <1>5, <2>2
      <3>3. Fits(m, b, h, k)
        BY <1>7, <1>8, <3>2 DEF Fits
      <3> QED
        BY <1>8, <3>1, <3>3 DEF Covered
    <2> QED
      BY <1>3, <2>1, <2>2
  <1> QED
    BY <1>2, <1>11 DEF Accounted

-----------------------------------------------------------------------------
(***************************************************************************)
(* A repair, one candidate after the other.                                *)
(***************************************************************************)
\* What the tables l still lack of the sells of s: order n and no other is new.
MayReplay(s, l, n) ==
  /\ Sound(l, book) /\ Len(l.orders) < MaxOrders
  /\ n \in 1..Len(book) /\ book[n].side = "sell" /\ book[n].filled > 0
  /\ book[n].filled <= l.position[s].quantity
  /\ \A o \in Rows(l) : l.orders[o].strategy = s =>
       /\ l.orders[o].side = "sell" => OrderKey(l.orders[o]) # ReportKey(n)
       /\ Open(l, o) => l.orders[o].side = "sell" /\ l.orders[o].number # n

HasReplayed(s, l, n, m) ==
  /\ Sound(m, book) /\ Len(m.orders) = Len(l.orders) + 1
  /\ Executed(m, "buy") = Executed(l, "buy")
  /\ m.position[s].quantity + book[n].filled + Pending(l, book, s)
       = l.position[s].quantity + Pending(m, book, s)
  /\ \E o \in Rows(m) : m.orders[o].strategy = s
  /\ \A o \in Rows(m) : m.orders[o].strategy = s =>
       /\ m.orders[o].side = "sell" =>
            \/ OrderKey(m.orders[o]) = ReportKey(n)
            \/ o \in Rows(l) /\ l.orders[o].strategy = s /\ l.orders[o].side = "sell"
               /\ OrderKey(m.orders[o]) = OrderKey(l.orders[o])
       /\ Open(m, o) =>
            /\ m.orders[o].side = "sell"
            /\ \/ m.orders[o].number = n
               \/ o \in Rows(l) /\ l.orders[o].strategy = s /\ Open(l, o)
                  /\ m.orders[o].number = l.orders[o].number

\* The row of the order, before its fill is booked.
LEMMA RowReplayed ==
  ASSUME NEW s \in Strategies, NEW l, NEW n, MayReplay(s, l, n), NEW m, m = WithRow(l, s, n),
         NEW j, j = Len(l.orders) + 1
  PROVE  /\ Sound(m, book) /\ Len(m.orders) = j /\ Rows(m) = Rows(l) \cup {j} /\ j \in Rows(m)
         /\ \A o \in Rows(l) : m.orders[o] = l.orders[o] /\ (Open(m, o) <=> Open(l, o))
         /\ m.orders[j].strategy = s /\ m.orders[j].side = "sell" /\ m.orders[j].number = n
         /\ OrderKey(m.orders[j]) = ReportKey(n)
         /\ m.orders[j].quantity = book[n].filled
         /\ Filled(m, j) = 0 /\ Open(m, j)
         /\ m.position = l.position /\ Executed(m, "buy") = Executed(l, "buy")
         /\ Pending(m, book, s) = Pending(l, book, s) + book[n].filled
         /\ RowOf(m, s, n) = j
  <1> DEFINE row == [strategy |-> s, side |-> "sell", status |-> "submitted",
                     quantity |-> book[n].filled, number |-> n, orgno |-> n \in OrgnoInReport]
  <1>1. /\ Shape(l, book) /\ BuysFit(l, book) /\ PositionsFit(l)
        /\ Len(l.orders) < MaxOrders
        /\ n \in 1..Len(book) /\ book[n].side = "sell" /\ book[n].filled > 0
        /\ \A o \in Rows(l) : l.orders[o].strategy = s =>
             /\ l.orders[o].side = "sell" => OrderKey(l.orders[o]) # ReportKey(n)
             /\ Open(l, o) => l.orders[o].side = "sell" /\ l.orders[o].number # n
    BY DEF MayReplay, Sound
  <1>2. /\ DOMAIN l.orders = Rows(l) /\ Len(book) \in Nat /\ book[n].filled \in Nat
        /\ \A o \in Rows(l) : book[l.orders[o].number].side = l.orders[o].side
    BY <1>1, RowFacts DEF Shape
  <1>3. \A o \in Rows(l) : l.orders[o].strategy = s => OrderKey(l.orders[o]) # ReportKey(n)
    BY <1>1, <1>2 DEF OrderKey, ReportKey
  <1>4. m = Longer(l, row)
    <2>1. ~HasRow(l, s, n)
      BY <1>1, <1>2 DEF HasRow, SellKeys
    <2> QED
      BY <2>1 DEF WithRow, Longer
  <1>5. /\ row.strategy = s /\ row.side = "sell" /\ row.status = "submitted"
        /\ row.quantity = book[n].filled /\ row.number = n
        /\ OrderKey(row) = ReportKey(n) /\ IsNamed(row)
    BY DEF OrderKey, ReportKey, IsNamed
  <1>6. row \in Row
    <2>1. book[n].filled \in Nat \ {0} /\ n \in Nat \ {0}
      BY <1>1, <1>2
    <2> QED
      BY <2>1 DEF Row
  <1> HIDE DEF row
  <1>7. MayAdd(l, book, row)
    BY <1>1, <1>3, <1>5 DEF MayAdd
  <1>8. /\ Len(m.orders) = j /\ m.orders[j] = row
        /\ m.position = l.position
        /\ Rows(m) = Rows(l) \cup {j} /\ j \notin Rows(l)
        /\ \A o \in Rows(l) : m.orders[o] = l.orders[o] /\ (Open(m, o) <=> Open(l, o))
        /\ Filled(m, j) = 0 /\ Open(m, j)
        /\ Shape(m, book)
    BY <1>1, <1>4, <1>6, <1>7, RowAdded
  <1>9. WithRowSums(l, book, row, m)
    BY <1>1, <1>4, <1>6, <1>7, RowAddedSums
  <1>10. /\ Executed(m, "buy") = Executed(l, "buy") /\ PositionsFit(m)
         /\ Pending(m, book, s) = Pending(l, book, s) + book[n].filled
    BY <1>1, <1>5, <1>9 DEF WithRowSums
  <1>11. Reported(m, book) = Reported(l, book)
    <2>1. Reported(l, book) \in Nat
      BY <1>1, SumFacts
    <2>2. Reported(m, book) = Reported(l, book) + 0
      BY <1>5, <1>9 DEF WithRowSums
    <2> QED
      BY <2>1, <2>2
  <1>12. BuysFit(m, book)
    <2>1. ASSUME NEW i \in 1..Len(book), book[i].side = "buy"
          PROVE \E o \in Rows(m) : \A p \in Rows(m) : m.orders[p].number = i <=> p = o
      <3>1. PICK o \in Rows(l) : \A p \in Rows(l) : l.orders[p].number = i <=> p = o
        BY <1>1, <2>1 DEF BuysFit
      <3>2. i # n
        BY <1>1, <2>1
      <3>3. \A p \in Rows(m) : m.orders[p].number = i <=> p = o
        BY <1>5, <1>8, <3>1, <3>2
      <3> QED
        BY <1>8, <3>3
    <2> QED
      BY <1>1, <1>11, <2>1 DEF BuysFit
  <1>13. RowOf(m, s, n) = j
    <2>1. DOMAIN m.orders = Rows(m)
      BY <1>8, RowFacts
    <2>2. \A o \in DOMAIN m.orders :
            m.orders[o].strategy = s /\ m.orders[o].side = "sell" /\ OrderKey(m.orders[o]) = ReportKey(n) <=> o = j
      BY <1>3, <1>5, <1>8, <2>1
    <2>3. j \in DOMAIN m.orders
      BY <1>8, <2>1
    <2> QED
      BY <2>2, <2>3 DEF RowOf
  <1> QED
    BY <1>5, <1>8, <1>10, <1>12, <1>13 DEF Sound

\* One candidate: its row stays open if its execution number is known.
LEMMA CandidateReplayed ==
  ASSUME NEW s \in Strategies, NEW l, NEW n, MayReplay(s, l, n), NEW m, m = Replayed(s, l, n)
  PROVE  HasReplayed(s, l, n, m)
  <1> PICK j : j = Len(l.orders) + 1
    OBVIOUS
  <1> PICK w : w = WithRow(l, s, n)
    OBVIOUS
  <1> PICK f : f = ManualFill(w, s, n)
    OBVIOUS
  <1> PICK q : q = book[n].filled
    OBVIOUS
  <1>1. /\ Sound(w, book) /\ Len(w.orders) = j /\ Rows(w) = Rows(l) \cup {j} /\ j \in Rows(w)
        /\ \A o \in Rows(l) : w.orders[o] = l.orders[o] /\ (Open(w, o) <=> Open(l, o))
        /\ w.orders[j].strategy = s /\ w.orders[j].side = "sell" /\ w.orders[j].number = n
        /\ OrderKey(w.orders[j]) = ReportKey(n)
        /\ w.orders[j].quantity = q
        /\ Filled(w, j) = 0 /\ Open(w, j)
        /\ w.position = l.position /\ Executed(w, "buy") = Executed(l, "buy")
        /\ Pending(w, book, s) = Pending(l, book, s) + q
        /\ RowOf(w, s, n) = j
    BY RowReplayed
  <1>2. /\ Shape(w, book) /\ PositionsFit(w) /\ Shape(l, book)
    BY <1>1 DEF Sound, MayReplay
  <1>3. /\ n \in 1..Len(book) /\ book[n].side = "sell" /\ q > 0 /\ q \in Nat
        /\ book[n].amount \in Nat /\ book[n].at \in Nat /\ n \in Nat /\ j \in Nat
        /\ q <= l.position[s].quantity
        /\ \A o \in Rows(l) : l.orders[o].strategy = s => (Open(l, o) => l.orders[o].side = "sell")
    <2>1. Len(book) \in Nat /\ Len(l.orders) \in Nat
      BY <1>2, RowFacts
    <2> QED
      BY <1>2, <2>1, RowFacts DEF MayReplay
  <1>4. f = [no |-> <<"manual", n, q>>, order |-> j, quantity |-> q,
             price |-> book[n].amount \div q, at |-> book[n].at]
    BY <1>1 DEF ManualFill
  <1>5. f \in News /\ f.order = j /\ f.quantity = q
    <2>1. book[n].amount \div q \in Nat
      BY <1>3, SMTT(30)
    <2>2. q \in Nat \ {0} /\ <<"manual", n, q>> \in Numbers
      BY <1>3 DEF Numbers
    <2> QED
      BY <1>3, <1>4, <2>1, <2>2 DEF News
  <1>6. \A o \in Rows(w) : w.orders[o].strategy = s =>
          /\ w.orders[o].side = "sell" =>
               \/ OrderKey(w.orders[o]) = ReportKey(n)
               \/ o \in Rows(l) /\ l.orders[o].strategy = s /\ l.orders[o].side = "sell"
                  /\ OrderKey(w.orders[o]) = OrderKey(l.orders[o])
          /\ Open(w, o) =>
               /\ w.orders[o].side = "sell"
               /\ \/ w.orders[o].number = n
                  \/ o \in Rows(l) /\ l.orders[o].strategy = s /\ Open(l, o)
                     /\ w.orders[o].number = l.orders[o].number
    BY <1>1, <1>3
  <1>7. m = IF IsDuplicate(w, f) THEN w ELSE Booked(w, f)
    BY DEF Replayed
  <1>8. /\ Pending(l, book, s) \in Nat /\ Pending(w, book, s) \in Nat /\ l.position[s].quantity \in Nat
        /\ Executed(l, "buy") \in Nat
    BY <1>2, SumFacts DEF Held
  <1>9. CASE IsDuplicate(w, f)
    <2>1. m = w
      BY <1>7, <1>9
    <2> PICK a : a = l.position[s].quantity
      OBVIOUS
    <2> PICK p : p = Pending(l, book, s)
      OBVIOUS
    <2>3. m.position[s].quantity = a /\ Pending(m, book, s) = p + q /\ a \in Nat /\ p \in Nat /\ q \in Nat
      BY <1>1, <1>3, <1>8, <2>1
    <2>4. a + q + p = a + (p + q)
      BY ONLY <2>3
    <2>2. m.position[s].quantity + q + Pending(l, book, s) = l.position[s].quantity + Pending(m, book, s)
      BY <2>3, <2>4
    <2> QED
      BY <1>1, <1>6, <2>1, <2>2 DEF HasReplayed
  <1>10. CASE ~IsDuplicate(w, f)
    <2>1. m = Booked(w, f)
      BY <1>7, <1>10
    <2>2. MayBook(w, book, f)
      <3>1. Reports(w, book, j) = q
        BY <1>1 DEF Reports
      <3>2. q <= LeftIn(w.lots[s])
        BY <1>1, <1>2, <1>3 DEF PositionsFit, Explains
      <3> QED
        BY <1>1, <1>3, <1>5, <3>1, <3>2 DEF MayBook
    <2>3. Sound(m, book)
      BY <1>1, <2>1, <2>2, BookedSound
    <2>4. /\ Rows(m) = Rows(w) /\ Len(m.orders) = Len(w.orders)
          /\ \A p \in Rows(w) : /\ m.orders[p].number = w.orders[p].number
                                /\ OrderKey(m.orders[p]) = OrderKey(w.orders[p])
                                /\ m.orders[p].side = w.orders[p].side
                                /\ m.orders[p].strategy = w.orders[p].strategy
                                /\ Open(m, p) => Open(w, p)
      BY <1>2, <2>1, <2>2, BookedSame DEF OrderKey
    <2>5. /\ Executed(m, "buy") = Executed(w, "buy") + (IF w.orders[j].side = "buy" THEN q ELSE 0)
          /\ w.orders[j].side = "sell" /\ Filled(w, j) + q = Reports(w, book, j) =>
               Pending(m, book, s) + q = Pending(w, book, s)
      BY <1>1, <1>2, <1>5, <2>1, <2>2, BookedSums
    <2>6. m.position[s].quantity + q = w.position[s].quantity
      BY <1>1, <1>2, <1>5, <2>1, <2>2, BookedLots
    <2>7. Pending(m, book, s) + q = Pending(l, book, s) + q /\ Executed(m, "buy") = Executed(l, "buy")
      <3>1. Filled(w, j) + q = Reports(w, book, j)
        BY <1>1, <1>3 DEF Reports
      <3> QED
        BY <1>1, <1>8, <2>5, <3>1
    <2>8. m.position[s].quantity + q + Pending(l, book, s) = l.position[s].quantity + Pending(m, book, s)
      <3> PICK x : x = m.position[s].quantity
        OBVIOUS
      <3> PICK y : y = Pending(m, book, s)
        OBVIOUS
      <3>1. x \in Nat /\ y \in Nat
        <4>1. Shape(m, book)
          BY <2>3 DEF Sound
        <4> QED
          BY <4>1, SumFacts DEF Held
      <3>2. x + q = l.position[s].quantity /\ y + q = Pending(l, book, s) + q
        BY <1>1, <2>6, <2>7
      <3>3. y = Pending(l, book, s)
        BY <1>3, <1>8, <3>1, <3>2
      <3> QED
        BY <3>2, <3>3
    <2> QED
      BY <1>1, <1>6, <2>3, <2>4, <2>7, <2>8 DEF HasReplayed
  <1> QED
    BY <1>9, <1>10

\* The recursion of Replays has a solution: the candidates can be taken one by one.
LEMMA ReplaysIs ==
  ASSUME NEW s, NEW candidates, Len(candidates) \in Nat
  PROVE  Replays(s, candidates) =
           [i \in 0..Len(candidates) |->
              IF i = 0 THEN Ledger ELSE Replayed(s, Replays(s, candidates)[i - 1], candidates[i])]
  <1> DEFINE Solves(n, g) == g = [i \in 0..n |-> IF i = 0 THEN Ledger ELSE Replayed(s, g[i - 1], candidates[i])]
             T == {n \in Nat : ~\E g : Solves(n, g)}
  <1>1. ASSUME T # {} PROVE FALSE
    <2>1. PICK m \in T : \A n \in T : m <= n
      <3>1. T \subseteq Nat
        OBVIOUS
      <3> HIDE DEF T
      <3> QED
        BY <1>1, <3>1, LeastNatural
    <2>2. m \in Nat /\ ~\E g : Solves(m, g)
      OBVIOUS
    <2>3. CASE m = 0
      <3> DEFINE first == [i \in 0..m |-> Ledger]
      <3>1. Solves(m, first)
        BY <2>3
      <3> HIDE DEF first, Solves
      <3> QED
        BY <2>2, <3>1
    <2>4. CASE m # 0
      <3>1. m - 1 \in Nat /\ m - 1 \notin T
        <4>1. m - 1 \in Nat /\ ~(m <= m - 1)
          BY <2>2, <2>4
        <4> HIDE DEF T
        <4> QED
          BY <2>1, <4>1
      <3>2. PICK g : Solves(m - 1, g)
        BY <3>1
      <3> DEFINE k == [i \in 0..m |-> IF i = 0 THEN Ledger ELSE Replayed(s, g[i - 1], candidates[i])]
      <3>3. ASSUME NEW i \in 0..(m - 1) PROVE k[i] = g[i]
        <4>1. i \in 0..m
          BY <2>2
        <4>2. g[i] = IF i = 0 THEN Ledger ELSE Replayed(s, g[i - 1], candidates[i])
          BY <3>2
        <4> QED
          BY <4>1, <4>2
      <3>4. ASSUME NEW i \in 0..m, i # 0 PROVE k[i - 1] = g[i - 1]
        <4>1. i - 1 \in 0..(m - 1)
          BY <2>2, <3>4
        <4> HIDE DEF k
        <4> QED
          BY <3>3, <4>1
      <3>5. \A i \in 0..m : k[i] = IF i = 0 THEN Ledger ELSE Replayed(s, g[i - 1], candidates[i])
        OBVIOUS
      <3>6. k = [i \in 0..m |-> k[i]]
        OBVIOUS
      <3> HIDE DEF k
      <3>7. \A i \in 0..m : k[i] = IF i = 0 THEN Ledger ELSE Replayed(s, k[i - 1], candidates[i])
        BY <3>4, <3>5
      <3>8. Solves(m, k)
        BY <3>6, <3>7
      <3> QED
        BY <2>2, <3>8
    <2> QED
      BY <2>3, <2>4
  <1>3. \E g : Solves(Len(candidates), g)
    BY <1>1
  <1>4. Solves(Len(candidates), CHOOSE g : Solves(Len(candidates), g))
    BY <1>3
  <1> QED
    BY <1>4 DEF Replays

\* What _select_candidates() finds.
LEMMA CandidatesAre ==
  ASSUME Shape(Ledger, book), NEW s, NEW first \in DOMAIN book, NEW last \in DOMAIN book,
         NEW candidates \in Candidates(s, first, last)
  PROVE  \E len \in Nat :
           /\ candidates \in [1..len -> 1..Len(book)] /\ Len(candidates) = len
           /\ DOMAIN candidates = 1..len
           /\ \A i \in 1..len : /\ book[candidates[i]].side = "sell" /\ book[candidates[i]].filled > 0
                                /\ ReportKey(candidates[i]) \notin MirroredOrderKeys(s)
           /\ \A i, j \in 1..len : candidates[i] = candidates[j] => i = j
  <1> DEFINE found == {n \in first..last : /\ book[n].side = "sell" /\ book[n].filled > 0
                                           /\ ReportKey(n) \notin MirroredOrderKeys(s)}
             len == Cardinality(found)
  <1>1. Len(book) \in Nat /\ DOMAIN book = 1..Len(book)
    BY RowFacts
  <1>2. found \subseteq 1..Len(book)
    BY <1>1
  <1>3. len \in Nat
    <2>1. 1 \in Int /\ Len(book) \in Int
      BY <1>1
    <2>2. IsFiniteSet(1..Len(book))
      BY <2>1, FS_Interval
    <2> HIDE DEF found
    <2> QED
      BY <1>2, <2>2, FS_Subset, FS_CardinalityType
  <1>4. candidates \in [1..len -> found] /\ \A i, j \in 1..len : i # j => candidates[i] # candidates[j]
    BY DEF Candidates, SetToSeqs
  <1>5. \A n \in found : book[n].side = "sell" /\ book[n].filled > 0 /\ ReportKey(n) \notin MirroredOrderKeys(s)
    OBVIOUS
  <1> HIDE DEF found, len
  <1>6. candidates \in [1..len -> 1..Len(book)]
    BY <1>2, <1>4
  <1>7. Len(candidates) = len /\ DOMAIN candidates = 1..len
    BY <1>3, <1>6, Listed
  <1> QED
    BY <1>3, <1>4, <1>5, <1>6, <1>7

\* The ledger is one of Tables when it is well formed.
LEMMA LedgerIs ==
  ASSUME NEW l \in Tables
  PROVE  l = [orders |-> l.orders, executions |-> l.executions, lots |-> l.lots, position |-> l.position]
  BY DEF Tables

\* A repair leaves s the units of the snapshot, which are all that is in the account.
LEMMA RepairAccounted ==
  ASSUME Accounted(Ledger, book, holdings),
         NEW s \in Strategies, NEW first \in DOMAIN book, NEW last \in DOMAIN book,
         NEW candidates \in Candidates(s, first, last),
         MayRepair(s), candidates # <<>>, FillsMatchGap(s, candidates),
         Len(orders) + Len(candidates) <= MaxOrders,
         snapshot \in Nat, holdings + Executed(Ledger, "buy") <= snapshot + Traded(book, "buy"),
         NEW m, m = Replays(s, candidates)[Len(candidates)]
  PROVE  /\ Accounted(m, book, holdings) /\ m \in Tables
         /\ Executed(m, "buy") = Executed(Ledger, "buy")
  <1> DEFINE after == Replays(s, candidates)
             filled == [i \in DOMAIN candidates |-> book[candidates[i]].filled]
             F == Sums(filled)
  <1>1. /\ Shape(Ledger, book) /\ PositionsFit(Ledger) /\ holdings \in Nat
        /\ Executed(Ledger, "buy") \in Nat /\ Traded(book, "buy") \in Nat
    BY AccountFacts
  <1>2. PICK len \in Nat :
           /\ candidates \in [1..len -> 1..Len(book)] /\ Len(candidates) = len
           /\ DOMAIN candidates = 1..len
           /\ \A i \in 1..len : /\ book[candidates[i]].side = "sell" /\ book[candidates[i]].filled > 0
                                /\ ReportKey(candidates[i]) \notin MirroredOrderKeys(s)
           /\ \A i, j \in 1..len : candidates[i] = candidates[j] => i = j
    BY <1>1, CandidatesAre
  <1>3. /\ Ledger.orders = orders /\ Ledger.position = position /\ Ledger.executions = executions
        /\ Ledger.lots = lots
    BY DEF Ledger
  <1>4. /\ Len(orders) \in Nat /\ MaxOrders \in Nat /\ DOMAIN orders = Rows(Ledger)
        /\ \A n \in 1..Len(book) : book[n].filled \in Nat
    BY <1>1, <1>3, RowFacts, FillLedgerAssumption
  <1> PICK pos : pos = position[s].quantity
    OBVIOUS
  <1>5. pos \in Nat
    BY <1>1, <1>3, SumFacts DEF Held
  <1>6. filled \in [1..len -> Nat] /\ \A i \in 1..len : filled[i] = book[candidates[i]].filled
    BY <1>2, <1>4
  <1>7. /\ F[0] = 0 /\ Total(filled) = F[len] /\ \A i \in 1..len : F[i] = F[i - 1] + filled[i]
        /\ \A i \in 0..len : F[i] \in Nat
        /\ \A i \in 0..len : F[i] <= F[len]
    <2> HIDE DEF filled
    <2>1. len \in Nat /\ filled \in [1..len -> Nat]
      BY <1>2, <1>6
    <2>2. /\ Sums(filled)[0] = 0 /\ Total(filled) = Sums(filled)[len]
          /\ \A i \in 1..len : Sums(filled)[i] = Sums(filled)[i - 1] + filled[i]
      BY ONLY <2>1, SumsStep
    <2>3. \A i \in 0..len : Sums(filled)[i] \in Nat
      BY ONLY <2>1, SumsAreNatural
    <2>4. \A i \in 0..len : Sums(filled)[i] <= Sums(filled)[len]
      <3>1. \A i, j \in 0..len : i <= j => Sums(filled)[i] <= Sums(filled)[j]
        BY ONLY <2>1, SumsGrow
      <3>2. len \in 0..len /\ \A i \in 0..len : i <= len
        BY <2>1
      <3> QED
        BY <3>1, <3>2
    <2> QED
      BY <2>2, <2>3, <2>4
  <1>8. F[len] = pos - snapshot
    BY <1>7 DEF FillsMatchGap, Missing
  <1>9. /\ after[0] = Ledger
        /\ \A i \in 1..len : after[i] = Replayed(s, after[i - 1], candidates[i])
    <2>1. after = [i \in 0..len |-> IF i = 0 THEN Ledger ELSE Replayed(s, after[i - 1], candidates[i])]
      <3>1. Len(candidates) \in Nat /\ Len(candidates) = len
        BY <1>2
      <3>2. after = [i \in 0..Len(candidates) |->
                       IF i = 0 THEN Ledger ELSE Replayed(s, after[i - 1], candidates[i])]
        BY ONLY <3>1, ReplaysIs DEF after
      <3> HIDE DEF after
      <3> QED
        BY <3>1, <3>2
    <2> HIDE DEF after
    <2>2. \A i \in 0..len : after[i] = IF i = 0 THEN Ledger ELSE Replayed(s, after[i - 1], candidates[i])
      BY <2>1
    <2>3. 0 \in 0..len /\ \A i \in 1..len : i \in 0..len /\ i # 0
      BY <1>2
    <2> QED
      BY <2>2, <2>3
  <1> HIDE DEF after, filled, F
  <1> DEFINE Done(i) ==
        /\ Sound(after[i], book) /\ Len(after[i].orders) = Len(orders) + i
        /\ Executed(after[i], "buy") = Executed(Ledger, "buy")
        /\ after[i].position[s].quantity + F[i] = pos + Pending(after[i], book, s)
        /\ i # 0 => \E o \in Rows(after[i]) : after[i].orders[o].strategy = s
        /\ \A o \in Rows(after[i]) : after[i].orders[o].strategy = s =>
             /\ after[i].orders[o].side = "sell" =>
                  \/ OrderKey(after[i].orders[o]) \in MirroredOrderKeys(s)
                  \/ \E j \in 1..i : OrderKey(after[i].orders[o]) = ReportKey(candidates[j])
             /\ Open(after[i], o) =>
                  /\ after[i].orders[o].side = "sell"
                  /\ \E j \in 1..i : after[i].orders[o].number = candidates[j]
             T == {i \in 0..len : ~Done(i)}
  <1>10. Done(0)
    <2>1. \A o \in Rows(Ledger) : orders[o].strategy = s => ~Open(Ledger, o)
      BY <1>3, <1>4 DEF MayRepair, NoActiveOrder, Active, Open
    <2>2. Pending(Ledger, book, s) = 0
      <3> DEFINE g == PendingIn(Ledger, book, s)
      <3>1. Len(orders) \in Nat /\ g \in [1..Len(orders) -> Nat]
        BY <1>1, <1>3, <1>4, SumFacts DEF Rows
      <3>2. \A o \in Rows(Ledger) : ~IsPending(Ledger, o, s)
        BY <1>3, <2>1 DEF IsPending
      <3>3. \A i \in 1..Len(orders) : g[i] = 0
        BY <1>3, <3>2 DEF PendingIn, Rows
      <3> HIDE DEF g
      <3>4. Total(g) = 0
        BY <3>1, <3>3, ZeroTotal
      <3> QED
        BY <3>4 DEF Pending, g
    <2>3. \A o \in Rows(Ledger) : orders[o].strategy = s /\ orders[o].side = "sell" =>
            OrderKey(orders[o]) \in MirroredOrderKeys(s)
      BY <1>3, <1>4 DEF MirroredOrderKeys, SellKeys
    <2>4. position[s].quantity + F[0] = pos + Pending(Ledger, book, s)
      BY <1>5, <1>7, <2>2
    <2>5. Sound(Ledger, book) /\ Len(orders) = Len(orders) + 0
      BY <1>4 DEF Accounted
    <2> QED
      BY <1>3, <1>9, <2>1, <2>3, <2>4, <2>5
  <1>11. ASSUME NEW i \in 1..len, Done(i - 1) PROVE Done(i)
    <2> PICK l : l = after[i - 1]
      OBVIOUS
    <2> PICK n : n = candidates[i]
      OBVIOUS
    <2> PICK x : x = l.position[s].quantity
      OBVIOUS
    <2> PICK p : p = Pending(l, book, s)
      OBVIOUS
    <2> PICK q : q = book[n].filled
      OBVIOUS
    <2>1. /\ Sound(l, book) /\ Len(l.orders) = Len(orders) + (i - 1)
          /\ Executed(l, "buy") = Executed(Ledger, "buy")
          /\ x + F[i - 1] = pos + p
          /\ \A o \in Rows(l) : l.orders[o].strategy = s =>
               /\ l.orders[o].side = "sell" =>
                    \/ OrderKey(l.orders[o]) \in MirroredOrderKeys(s)
                    \/ \E j \in 1..(i - 1) : OrderKey(l.orders[o]) = ReportKey(candidates[j])
               /\ Open(l, o) => /\ l.orders[o].side = "sell"
                                /\ \E j \in 1..(i - 1) : l.orders[o].number = candidates[j]
      BY <1>11
    <2>2. /\ n \in 1..Len(book) /\ book[n].side = "sell" /\ q > 0 /\ ReportKey(n) \notin MirroredOrderKeys(s)
          /\ q \in Nat /\ filled[i] = q
      BY <1>2, <1>4, <1>6
    <2>3. i - 1 \in 0..len /\ i \in 0..len /\ i \in Nat /\ i <= len /\ i # 0
          /\ (\A j \in 1..(i - 1) : j \in 1..len /\ j # i /\ j \in 1..i) /\ i \in 1..i
      BY <1>2
    <2> PICK d : d = F[i - 1]
      OBVIOUS
    <2> PICK e : e = F[i]
      OBVIOUS
    <2>4. d \in Nat /\ e \in Nat /\ e = d + q /\ e <= pos - snapshot
      BY <1>7, <1>8, <2>2, <2>3
    <2>5. x \in Nat /\ p \in Nat
      <3>1. Shape(l, book)
        BY <2>1 DEF Sound
      <3> QED
        BY <3>1, SumFacts DEF Held
    <2>6. q <= x
      <3>1. /\ x \in Nat /\ p \in Nat /\ q \in Nat /\ d \in Nat /\ pos \in Nat /\ snapshot \in Nat
            /\ x + d = pos + p /\ d + q <= pos - snapshot
        BY <1>5, <2>1, <2>2, <2>4, <2>5
      <3> QED
        BY ONLY <3>1
    <2>7. Len(l.orders) < MaxOrders
      BY <1>2, <1>4, <2>1, <2>3
    <2>8. \A o \in Rows(l) : l.orders[o].strategy = s =>
            /\ l.orders[o].side = "sell" => OrderKey(l.orders[o]) # ReportKey(n)
            /\ Open(l, o) => l.orders[o].side = "sell" /\ l.orders[o].number # n
      <3>1. \A j \in 1..(i - 1) : candidates[j] # n /\ ReportKey(candidates[j]) # ReportKey(n)
        BY <1>2, <2>3 DEF ReportKey
      <3> QED
        BY <2>1, <2>2, <3>1
    <2>9. MayReplay(s, l, n)
      BY <2>1, <2>2, <2>6, <2>7, <2>8 DEF MayReplay
    <2> PICK r : r = after[i]
      OBVIOUS
    <2>10. r = Replayed(s, l, n)
      BY <1>9
    <2>11. HasReplayed(s, l, n, r)
      BY <2>9, <2>10, CandidateReplayed
    <2> PICK y : y = r.position[s].quantity
      OBVIOUS
    <2> PICK v : v = Pending(r, book, s)
      OBVIOUS
    <2>12. y \in Nat /\ v \in Nat
      <3>1. Shape(r, book)
        BY <2>11 DEF HasReplayed, Sound
      <3> QED
        BY <3>1, SumFacts DEF Held
    <2>13. y + e = pos + v
      <3>1. y + q + p = x + v
        BY <2>11 DEF HasReplayed
      <3>2. /\ x \in Nat /\ p \in Nat /\ q \in Nat /\ d \in Nat /\ pos \in Nat /\ y \in Nat /\ v \in Nat
            /\ e = d + q /\ x + d = pos + p /\ y + q + p = x + v
        BY <1>5, <2>1, <2>2, <2>4, <2>5, <2>12, <3>1
      <3> QED
        BY ONLY <3>2
    <2>14. Len(r.orders) = Len(orders) + i
      <3>1. Len(r.orders) = Len(l.orders) + 1
        BY <2>11 DEF HasReplayed
      <3> QED
        BY <1>4, <2>1, <2>3, <3>1
    <2>15. \A o \in Rows(r) : r.orders[o].strategy = s =>
             /\ r.orders[o].side = "sell" =>
                  \/ OrderKey(r.orders[o]) \in MirroredOrderKeys(s)
                  \/ \E j \in 1..i : OrderKey(r.orders[o]) = ReportKey(candidates[j])
             /\ Open(r, o) => /\ r.orders[o].side = "sell"
                              /\ \E j \in 1..i : r.orders[o].number = candidates[j]
      <3> SUFFICES ASSUME NEW o \in Rows(r), r.orders[o].strategy = s
                   PROVE  /\ r.orders[o].side = "sell" =>
                               \/ OrderKey(r.orders[o]) \in MirroredOrderKeys(s)
                               \/ \E j \in 1..i : OrderKey(r.orders[o]) = ReportKey(candidates[j])
                          /\ Open(r, o) => /\ r.orders[o].side = "sell"
                                           /\ \E j \in 1..i : r.orders[o].number = candidates[j]
        OBVIOUS
      <3>1. /\ r.orders[o].side = "sell" =>
                 \/ OrderKey(r.orders[o]) = ReportKey(n)
                 \/ o \in Rows(l) /\ l.orders[o].strategy = s /\ l.orders[o].side = "sell"
                    /\ OrderKey(r.orders[o]) = OrderKey(l.orders[o])
            /\ Open(r, o) =>
                 /\ r.orders[o].side = "sell"
                 /\ \/ r.orders[o].number = n
                    \/ o \in Rows(l) /\ l.orders[o].strategy = s /\ Open(l, o)
                       /\ r.orders[o].number = l.orders[o].number
        BY <2>11 DEF HasReplayed
      <3>2. ASSUME r.orders[o].side = "sell"
            PROVE  \/ OrderKey(r.orders[o]) \in MirroredOrderKeys(s)
                   \/ \E j \in 1..i : OrderKey(r.orders[o]) = ReportKey(candidates[j])
        BY <2>1, <2>3, <3>1, <3>2
      <3>3. ASSUME Open(r, o) PROVE \E j \in 1..i : r.orders[o].number = candidates[j]
        BY <2>1, <2>3, <3>1, <3>3
      <3> QED
        BY <3>1, <3>2, <3>3
    <2>16. /\ Sound(r, book) /\ Executed(r, "buy") = Executed(Ledger, "buy")
           /\ \E o \in Rows(r) : r.orders[o].strategy = s
      BY <2>1, <2>11 DEF HasReplayed
    <2> QED
      BY <2>13, <2>14, <2>15, <2>16
  <1> HIDE DEF Done
  <1>12. T = {}
    <2>1. T \in SUBSET (0..len) /\ 0 \notin T
      BY <1>10
    <2>2. \A i \in 1..len : i - 1 \notin T => i \notin T
      <3>1. \A i \in 1..len : i - 1 \in 0..len
        BY <1>2
      <3> QED
        BY <1>11, <3>1
    <2> HIDE DEF T
    <2> QED
      BY <1>2, <2>1, <2>2, UpTo
  <1>13. Done(len)
    <2>1. len \in 0..len
      BY <1>2
    <2> QED
      BY <1>12, <2>1
  <1>14. len # 0
    <2>1. len = 0 => candidates = <<>>
      <3>1. candidates \in Seq(1..Len(book))
        BY <1>2, Listed
      <3> QED
        BY <1>2, <3>1, EmptySeq
    <2> QED
      BY <2>1
  <1>15. m = after[len]
    BY <1>2 DEF after
  <1>16. /\ Sound(m, book) /\ Executed(m, "buy") = Executed(Ledger, "buy")
         /\ m.position[s].quantity + F[len] = pos + Pending(m, book, s)
         /\ \E o \in Rows(m) : m.orders[o].strategy = s
    BY <1>13, <1>14, <1>15 DEF Done
  <1>17. Shape(m, book) /\ m.orders \in Seq(Row) /\ HasRows(m.orders, s)
    <2>1. Shape(m, book)
      BY <1>16 DEF Sound
    <2> QED
      BY <1>16, <2>1, SumFacts DEF HasRows, Rows
  <1> DEFINE kept == [t \in Strategies |-> IF t = s THEN snapshot ELSE 0]
  <1>18. kept \in [Strategies -> Nat] /\ kept[s] = snapshot /\ \A t \in Strategies : t # s => kept[t] = 0
    OBVIOUS
  <1> HIDE DEF kept
  <1>19. OverStrategies(m, kept) = snapshot
    BY <1>17, <1>18, FirstOfOne DEF OverStrategies
  <1>20. Keeps(m, book, kept)
    <2>1. snapshot + Pending(m, book, s) <= m.position[s].quantity
      <3> PICK x : x = m.position[s].quantity
        OBVIOUS
      <3> PICK p : p = Pending(m, book, s)
        OBVIOUS
      <3>1. x \in Nat /\ p \in Nat /\ x + (pos - snapshot) = pos + p /\ pos \in Nat /\ snapshot \in Nat
        BY <1>5, <1>8, <1>16, <1>17, SumFacts DEF Held
      <3>2. snapshot + p <= x
        BY ONLY <3>1
      <3> QED
        BY <3>2
    <2>2. \A t \in Strategies : kept[t] # 0 => kept[t] + Pending(m, book, t) <= m.position[t].quantity
      BY <1>18, <2>1
    <2>3. \A o \in Rows(m) : kept[m.orders[o].strategy] # 0 => m.orders[o].strategy = s
      BY <1>17, <1>18, RowFacts
    <2> QED
      BY <2>2, <2>3 DEF Keeps
  <1>21. Fits(m, book, holdings, kept)
    BY <1>1, <1>16, <1>19 DEF Fits
  <1>22. m \in Tables
    BY <1>17 DEF Shape
  <1> QED
    BY <1>16, <1>18, <1>20, <1>21, <1>22 DEF Accounted, Covered

-----------------------------------------------------------------------------
(***************************************************************************)
(* The fills that are collected, and the steps of repairs.                 *)
(***************************************************************************)
Lacks(l, b, f) ==
  f.order \in Rows(l) /\ Open(l, f.order) /\ Filled(l, f.order) + f.quantity <= Reports(l, b, f.order)

FillsFit(l, b, news) ==
  /\ news \in Seq(News)
  /\ \A i \in 1..Len(news) : Lacks(l, b, news[i])
  /\ \A i, j \in 1..Len(news) : news[i].order = news[j].order => i = j

LEMMA NoNews == ASSUME NEW l, NEW b PROVE FillsFit(l, b, <<>>)
  <1>1. <<>> \in Seq(News) /\ \A i \in 1..Len(<<>>) : FALSE
    BY EmptySeq
  <1> QED
    BY <1>1 DEF FillsFit

\* Rows that are as they were, of orders of which no less is reported.
LEMMA SameNews ==
  ASSUME NEW l, NEW b, NEW news, FillsFit(l, b, news), Shape(l, b), NEW m, NEW c, Shape(m, c),
         \A o \in Rows(l) : /\ o \in Rows(m) /\ Filled(m, o) = Filled(l, o) /\ (Open(l, o) => Open(m, o))
                            /\ Reports(l, b, o) <= Reports(m, c, o)
  PROVE  FillsFit(m, c, news)
  <1>1. ASSUME NEW i \in 1..Len(news) PROVE Lacks(m, c, news[i])
    <2> PICK o : o = news[i].order
      OBVIOUS
    <2> PICK q : q = news[i].quantity
      OBVIOUS
    <2>1. o \in Rows(l) /\ Open(l, o) /\ Filled(l, o) + q <= Reports(l, b, o)
      BY DEF FillsFit, Lacks
    <2>2. q \in Nat
      <3>1. news[i] \in News
        BY ElementOfSeq DEF FillsFit
      <3> QED
        BY <3>1 DEF News
    <2>3. Filled(l, o) \in Nat /\ Reports(l, b, o) \in Nat /\ Reports(m, c, o) \in Nat
      BY <2>1, RowFacts
    <2>4. Filled(m, o) + q <= Reports(m, c, o)
      BY <2>1, <2>2, <2>3
    <2> QED
      BY <2>1, <2>4 DEF Lacks
  <1> QED
    BY <1>1 DEF FillsFit

\* The first fill, and what follows it.
LEMMA FirstNews ==
  ASSUME NEW l, NEW b, NEW news, FillsFit(l, b, news), news # <<>>
  PROVE  /\ Head(news) \in News /\ Lacks(l, b, Head(news))
         /\ Tail(news) \in Seq(News) /\ FillsFit(l, b, Tail(news))
         /\ \A i \in 1..Len(Tail(news)) : Tail(news)[i].order # Head(news).order
  <1>1. news \in Seq(News)
    BY DEF FillsFit
  <1>2. /\ Tail(news) \in Seq(News) /\ Len(Tail(news)) = Len(news) - 1
        /\ \A i \in 1..Len(Tail(news)) : Tail(news)[i] = news[i + 1]
    BY <1>1, HeadTailProperties
  <1>3. Len(news) \in Nat /\ Len(news) # 0
    BY <1>1, LenProperties, EmptySeq
  <1>4. 1 \in 1..Len(news) /\ Head(news) = news[1]
    BY <1>1, <1>3
  <1>5. \A i \in 1..Len(Tail(news)) : i + 1 \in 1..Len(news) /\ i + 1 # 1
    BY <1>2, <1>3
  <1>6. Head(news) \in News /\ Lacks(l, b, Head(news))
    BY <1>1, <1>4, ElementOfSeq DEF FillsFit
  <1>7. \A i \in 1..Len(Tail(news)) : Tail(news)[i].order # Head(news).order
    BY <1>2, <1>4, <1>5 DEF FillsFit
  <1>8. \A i, j \in 1..Len(Tail(news)) : i + 1 = j + 1 => i = j
    BY <1>2, <1>3
  <1>9. FillsFit(l, b, Tail(news))
    BY <1>2, <1>5, <1>8 DEF FillsFit
  <1> QED
    BY <1>2, <1>6, <1>7, <1>9

\* The fills behind the first are as good when it is booked.
LEMMA BookedNews ==
  ASSUME NEW l, NEW b, Shape(l, b), PositionsFit(l), NEW news, FillsFit(l, b, news), news # <<>>,
         MayBook(l, b, Head(news))
  PROVE  FillsFit(Booked(l, Head(news)), b, Tail(news))
  <1> PICK f : f = Head(news)
    OBVIOUS
  <1> PICK m : m = Booked(l, f)
    OBVIOUS
  <1> PICK rest : rest = Tail(news)
    OBVIOUS
  <1>1. /\ rest \in Seq(News) /\ FillsFit(l, b, rest)
        /\ \A i \in 1..Len(rest) : rest[i].order # f.order
    BY FirstNews
  <1>2. /\ Rows(m) = Rows(l)
        /\ \A p \in Rows(l) : /\ Reports(m, b, p) = Reports(l, b, p)
                              /\ p # f.order => Filled(m, p) = Filled(l, p) /\ (Open(m, p) <=> Open(l, p))
    BY BookedSame
  <1>3. \A i \in 1..Len(rest) : Lacks(m, b, rest[i])
    BY <1>1, <1>2 DEF FillsFit, Lacks
  <1> QED
    BY <1>1, <1>3 DEF FillsFit

\* What a poll collects.
LEMMA NewsIs ==
  ASSUME Shape(Ledger, book), NEW o \in DOMAIN orders, HasFill(o)
  PROVE  FillOf(o) \in News /\ FillOf(o).order = o /\ Lacks(Ledger, book, FillOf(o))
  <1>1. Ledger.orders = orders /\ Ledger.executions = executions
    BY DEF Ledger
  <1>2. /\ o \in Rows(Ledger) /\ o \in Nat /\ orders[o].number \in Nat
        /\ executions[o] \in Seq(Priced)
        /\ Filled(Ledger, o) \in Nat /\ Reports(Ledger, book, o) \in Nat
        /\ AtBroker(o) \in BookRow
    <2>1. DOMAIN orders = Rows(Ledger) /\ Rows(Ledger) \subseteq Ids /\ Len(book) \in Nat
      BY <1>1, RowFacts
    <2>2. o \in Rows(Ledger) /\ orders[o].number \in 1..Len(book)
      BY <1>1, <2>1, RowFacts
    <2> QED
      BY <1>1, <2>1, <2>2, RowFacts, FillLedgerAssumption DEF AtBroker, Ids
  <1>3. FilledQuantity(o) = Filled(Ledger, o) /\ AtBroker(o).filled = Reports(Ledger, book, o)
    BY <1>1 DEF FilledQuantity, Filled, AtBroker, Reports
  <1> PICK x : x = FilledQuantity(o)
    OBVIOUS
  <1> PICK y : y = AtBroker(o).filled
    OBVIOUS
  <1> PICK a : a = AtBroker(o).amount
    OBVIOUS
  <1> PICK paid : paid = FilledAmount(o)
    OBVIOUS
  <1> PICK n : n = y - x
    OBVIOUS
  <1>4. x \in Nat /\ y \in Nat /\ x < y /\ a \in Nat /\ AtBroker(o).at \in Nat
    BY <1>2, <1>3 DEF HasFill, BookRow
  <1>5. n \in Nat \ {0} /\ x + n = y
    BY <1>4
  <1>6. paid \in Nat
    <2> DEFINE f == Amounts(executions[o])
               len == Len(executions[o])
    <2>1. len \in Nat /\ DOMAIN executions[o] = 1..len /\ \A i \in 1..len : executions[o][i] \in Priced
      BY <1>2, LenProperties, ElementOfSeq
    <2>2. \A i \in 1..len : executions[o][i].quantity * executions[o][i].price \in Nat
      <3> SUFFICES ASSUME NEW i \in 1..len PROVE executions[o][i].quantity * executions[o][i].price \in Nat
        OBVIOUS
      <3>1. executions[o][i].quantity \in Nat /\ executions[o][i].price \in Nat
        BY <2>1 DEF Priced
      <3> QED
        BY <3>1
    <2>3. f \in [1..len -> Nat]
      BY <2>1, <2>2 DEF Amounts
    <2> HIDE DEF f, len
    <2>4. Total(f) \in Nat
      BY <2>1, <2>3, SumsAreNatural
    <2> QED
      BY <2>4 DEF FilledAmount, f
  <1>7. DeltaPrice(o, n) \in Nat
    <2> PICK left : left = a - paid
      OBVIOUS
    <2>1. left \in Int
      BY <1>4, <1>6
    <2>2. left > 0 => left \div n \in Nat
      BY ONLY <2>1, <1>5, SMTT(30)
    <2>3. y > 0 /\ y \in Nat
      BY <1>4
    <2>4. a \div y \in Nat
      BY ONLY <1>4, <2>3, SMTT(30)
    <2>5. DeltaPrice(o, n) = IF left > 0 THEN left \div n ELSE a \div y
      BY DEF DeltaPrice
    <2> QED
      BY <2>2, <2>4, <2>5
  <1>8. ExecutionNumber(o) \in Numbers
    <2>1. Len(executions[o]) + 1 \in Nat
      BY <1>2, LenProperties
    <2> QED
      BY <1>2, <2>1 DEF ExecutionNumber, Numbers
  <1>9. FillOf(o) = [no |-> ExecutionNumber(o), order |-> o, quantity |-> n, price |-> DeltaPrice(o, n),
                     at |-> AtBroker(o).at]
    BY DEF FillOf
  <1>10. FillOf(o) \in News /\ FillOf(o).order = o /\ FillOf(o).quantity = n
    BY <1>2, <1>4, <1>5, <1>7, <1>8, <1>9 DEF News
  <1>11. Open(Ledger, o)
    BY <1>1 DEF HasFill, Active, Open
  <1>12. Filled(Ledger, o) + n <= Reports(Ledger, book, o)
    BY <1>3, <1>4, <1>5
  <1> QED
    BY <1>2, <1>10, <1>11, <1>12 DEF Lacks

LEMMA CollectedFit ==
  ASSUME Shape(Ledger, book), CollectFills
  PROVE  FillsFit(Ledger, book, fills')
  <1> DEFINE found == {o \in DOMAIN orders : HasFill(o)}
  <1>1. PICK due \in Due : fills' = [i \in DOMAIN due |-> FillOf(due[i])]
    BY DEF CollectFills
  <1>2. DOMAIN orders = 1..Len(orders) /\ Len(orders) \in Nat
    <2>1. Ledger.orders = orders
      BY DEF Ledger
    <2> QED
      BY <2>1, RowFacts DEF Rows
  <1>3. Cardinality(found) \in Nat
    <2>1. found \subseteq 1..Len(orders)
      BY <1>2
    <2>2. 1 \in Int /\ Len(orders) \in Int
      BY <1>2
    <2>3. IsFiniteSet(1..Len(orders))
      BY <2>2, FS_Interval
    <2> HIDE DEF found
    <2> QED
      BY <2>1, <2>3, FS_Subset, FS_CardinalityType
  <1> DEFINE c == Cardinality(found)
  <1>4. due \in [1..c -> found] /\ \A i, j \in 1..c : i # j => due[i] # due[j]
    BY DEF Due, SetToSeqs
  <1> HIDE DEF found, c
  <1>5. \A i \in 1..c : FillOf(due[i]) \in News /\ FillOf(due[i]).order = due[i]
                        /\ Lacks(Ledger, book, FillOf(due[i]))
    <2>1. \A i \in 1..c : due[i] \in DOMAIN orders /\ HasFill(due[i])
      BY <1>4 DEF found
    <2> QED
      BY <2>1, NewsIs
  <1>6. fills' \in [1..c -> News] /\ \A i \in 1..c : fills'[i] = FillOf(due[i])
    BY <1>1, <1>4, <1>5
  <1>7. fills' \in Seq(News) /\ Len(fills') = c
    BY <1>3, <1>6, Listed DEF c
  <1>8. ASSUME NEW i \in 1..c, NEW j \in 1..c, fills'[i].order = fills'[j].order PROVE i = j
    BY <1>4, <1>5, <1>6, <1>8
  <1> QED
    BY <1>5, <1>6, <1>7, <1>8 DEF FillsFit

-----------------------------------------------------------------------------
(***************************************************************************)
(* What repairs, polls, fills and stops leave true.                        *)
(***************************************************************************)
\* What a snapshot says is in the account, less what has been bought since.
SnapshotFits(l, b, h, x) == x \in Nat /\ h + Executed(l, "buy") <= x + Traded(b, "buy")

RepairInv ==
  /\ Accounted(Ledger, book, holdings) /\ FillsFit(Ledger, book, fills)
  /\ clock \in Nat /\ (~running => fills = <<>>)
  /\ snapshot # NoSnapshot => ~running /\ SnapshotFits(Ledger, book, holdings, snapshot)

\* The parts of the invariant after a step.
LEMMA RepairInvIs ==
  ASSUME Accounted(Ledger', book', holdings'), FillsFit(Ledger', book', fills'),
         clock' \in Nat, ~running' => fills' = <<>>,
         snapshot' # NoSnapshot => ~running' /\ SnapshotFits(Ledger', book', holdings', snapshot')
  PROVE  RepairInv'
  BY DEF RepairInv

LEMMA SameLedger ==
  ASSUME orders' = orders, executions' = executions, lots' = lots, position' = position
  PROVE  Ledger' = Ledger
  BY DEF Ledger

LEMMA SetLedgerIs ==
  ASSUME NEW l \in Tables, SetLedger(l)
  PROVE  Ledger' = l
  BY LedgerIs DEF SetLedger, Ledger

LEMMA InitAccounted ==
  ASSUME RepairInit
  PROVE  RepairInv
  <1>1. /\ orders = <<>> /\ executions = [o \in Ids |-> <<>>] /\ lots = [s \in Strategies |-> <<>>]
        /\ position = [s \in Strategies |-> NoPosition]
        /\ book = <<>> /\ holdings = 0 /\ clock = 0 /\ fills = <<>> /\ running = TRUE
        /\ snapshot = NoSnapshot
    BY DEF RepairInit, Init
  <1>2. Ledger \in Tables
    <2>1. <<>> \in Seq(Row) /\ <<>> \in Seq(Priced) /\ <<>> \in Seq(Lot)
      OBVIOUS
    <2>2. NoPosition \in Holding
      BY DEF NoPosition, Holding
    <2>3. /\ executions \in [Ids -> Seq(Priced)] /\ lots \in [Strategies -> Seq(Lot)]
          /\ position \in [Strategies -> Holding]
      BY <1>1, <2>1, <2>2
    <2> QED
      BY <1>1, <2>1, <2>3 DEF Ledger, Tables
  <1>3. /\ Ledger.orders = <<>> /\ Ledger.executions = [o \in Ids |-> <<>>]
        /\ \A t \in Strategies : Ledger.lots[t] = <<>> /\ Ledger.position[t] = NoPosition
    BY <1>1 DEF Ledger
  <1>4. Accounted(Ledger, book, holdings)
    BY <1>1, <1>2, <1>3, NothingAccounted
  <1>5. FillsFit(Ledger, book, fills)
    BY <1>1, NoNews
  <1> QED
    BY <1>1, <1>4, <1>5 DEF RepairInv

LEMMA SubmitKeepsAccount ==
  ASSUME RepairInv, NEW s \in Strategies, NEW side \in {"buy", "sell"}, NEW n \in 1..MaxUnits,
         SubmitOrder(s, side, n), snapshot' = (IF running' THEN NoSnapshot ELSE snapshot)
  PROVE  RepairInv'
  <1> DEFINE row == [strategy |-> s, side |-> side, quantity |-> n, status |-> "submitted",
                     number |-> Len(book) + 1, orgno |-> Len(book) + 1 \in OrgnoInAnswer]
             x == Booking(side, n)
  <1>1. /\ Len(book) < MaxOrders /\ Len(orders) < MaxOrders /\ running /\ NoActiveOrder(s)
        /\ orders' = Append(orders, row) /\ book' = Append(book, x)
        /\ executions' = executions /\ lots' = lots /\ position' = position
        /\ holdings' = holdings /\ clock' = clock /\ fills' = fills /\ running' = running
    BY DEF SubmitOrder, ledgerVars, processVars
  <1>2. Accounted(Ledger, book, holdings) /\ FillsFit(Ledger, book, fills) /\ clock \in Nat
    BY DEF RepairInv
  <1>3. Shape(Ledger, book) /\ Ledger.orders = orders /\ DOMAIN orders = Rows(Ledger) /\ Len(book) \in Nat
    BY <1>2, AccountFacts, RowFacts DEF Ledger
  <1>4. n \in Nat \ {0}
    BY FillLedgerAssumption
  <1>5. row \in Row /\ row.number = Len(book) + 1 /\ row.strategy = s /\ row.status = "submitted"
        /\ row.side = side /\ IsNamed(row)
    <2>1. Len(book) + 1 \in Nat \ {0} /\ (Len(book) + 1 \in OrgnoInAnswer) \in BOOLEAN
      BY <1>3
    <2>2. row \in Row
      BY <1>4, <2>1 DEF Row
    <2>3. row.orgno <=> row.number \in OrgnoInAnswer
      OBVIOUS
    <2> QED
      BY <2>2, <2>3 DEF IsNamed
  <1>6. x \in BookRow /\ x.filled = 0 /\ x.side = side
    BY <1>4 DEF Booking, BookRow
  <1> HIDE DEF row, x
  <1>7. Ledger' = Longer(Ledger, row)
    <2> PICK l : l = Ledger
      OBVIOUS
    <2>1. Longer(l, row) = [orders |-> Append(orders, row), executions |-> executions,
                            lots |-> lots, position |-> position]
      <3>1. l = [orders |-> orders, executions |-> executions, lots |-> lots, position |-> position]
        BY DEF Ledger
      <3> QED
        BY ONLY <3>1 DEF Longer
    <2>2. Ledger' = [orders |-> Append(orders, row), executions |-> executions,
                     lots |-> lots, position |-> position]
      BY <1>1 DEF Ledger
    <2> QED
      BY <2>1, <2>2
  <1>8. \A o \in Rows(Ledger) : Open(Ledger, o) => Ledger.orders[o].strategy # row.strategy
    BY <1>1, <1>3, <1>5 DEF NoActiveOrder, Active, Open
  <1>9. Accounted(Ledger', book', holdings')
    BY <1>1, <1>2, <1>3, <1>5, <1>6, <1>7, <1>8, SubmitAccounted
  <1>10. FillsFit(Ledger', book', fills')
    <2> PICK l : l = Ledger
      OBVIOUS
    <2> PICK m : m = Ledger'
      OBVIOUS
    <2> PICK c : c = book'
      OBVIOUS
    <2>1. /\ Shape(l, c) /\ Len(c) = Len(book) + 1 /\ c[Len(book) + 1] = x
          /\ \A o \in Rows(l) : Reports(l, c, o) = Reports(l, book, o)
      BY <1>1, <1>3, <1>6, BookLonger
    <2>2. MayAdd(l, c, row)
      <3>1. \A o \in Rows(l) : OrderKey(l.orders[o]) # OrderKey(row)
        <4>1. \A o \in Rows(l) : l.orders[o].number # row.number
          BY <1>3, <1>5, RowFacts
        <4> QED
          BY <4>1 DEF OrderKey
      <3>2. row.number \in 1..Len(c)
        BY <1>3, <1>5, <2>1
      <3> QED
        BY <1>1, <1>3, <1>5, <1>6, <1>8, <2>1, <3>1, <3>2 DEF MayAdd
    <2>3. /\ Rows(m) = Rows(l) \cup {Len(l.orders) + 1}
          /\ \A o \in Rows(l) : /\ m.orders[o] = l.orders[o] /\ Filled(m, o) = Filled(l, o)
                                /\ Open(m, o) <=> Open(l, o)
          /\ Shape(m, c)
      BY <1>5, <1>7, <2>1, <2>2, RowAdded
    <2>4. \A o \in Rows(l) : /\ o \in Rows(m) /\ Filled(m, o) = Filled(l, o) /\ (Open(l, o) => Open(m, o))
                             /\ Reports(l, book, o) <= Reports(m, c, o)
      <3>1. \A o \in Rows(l) : Reports(m, c, o) = Reports(l, book, o) /\ Reports(l, book, o) \in Nat
        BY <1>3, <2>1, <2>3, RowFacts DEF Reports
      <3>2. \A o \in Rows(l) : Reports(l, book, o) <= Reports(m, c, o)
        BY <3>1
      <3> QED
        BY <2>3, <3>2
    <2>5. FillsFit(m, c, fills)
      BY <1>2, <1>3, <2>3, <2>4, SameNews
    <2> QED
      BY <1>1, <2>5
  <1>11. snapshot' = NoSnapshot
    BY <1>1
  <1> QED
    BY <1>1, <1>2, <1>9, <1>10, <1>11, RepairInvIs

LEMMA BrokerFillKeepsAccount ==
  ASSUME RepairInv, NEW n \in DOMAIN book, NEW p \in Prices, BrokerFill(n, p),
         snapshot' = (IF running' THEN NoSnapshot ELSE snapshot)
  PROVE  RepairInv'
  <1> DEFINE b == [book[n] EXCEPT !.filled = @ + 1, !.amount = @ + p, !.at = clock + 1]
  <1>1. /\ orders' = orders /\ executions' = executions /\ lots' = lots /\ position' = position
        /\ fills' = fills /\ running' = running
        /\ clock' = clock + 1
        /\ book[n].side = "sell" => holdings > 0
        /\ holdings' = IF book[n].side = "buy" THEN holdings + 1 ELSE holdings - 1
        /\ book' = [book EXCEPT ![n].filled = @ + 1, ![n].amount = @ + p, ![n].at = clock + 1]
    BY DEF BrokerFill, ledgerVars, processVars
  <1>2. /\ Accounted(Ledger, book, holdings) /\ FillsFit(Ledger, book, fills) /\ clock \in Nat
        /\ ~running => fills = <<>>
        /\ snapshot # NoSnapshot => ~running /\ SnapshotFits(Ledger, book, holdings, snapshot)
    BY DEF RepairInv
  <1>3. /\ Shape(Ledger, book) /\ book \in Seq(BookRow) /\ Len(book) \in Nat /\ DOMAIN book = 1..Len(book)
        /\ book[n] \in BookRow /\ holdings \in Nat
    BY <1>2, AccountFacts, RowFacts DEF Shape
  <1>4. /\ b \in BookRow /\ b.side = book[n].side /\ b.filled = book[n].filled + 1
    <2>1. /\ book[n].side \in {"buy", "sell"} /\ book[n].filled \in Nat /\ book[n].amount \in Nat
      BY <1>3 DEF BookRow
    <2>2. p \in Nat
      BY FillLedgerAssumption
    <2>3. book[n].filled + 1 \in Nat /\ book[n].amount + p \in Nat /\ clock + 1 \in Nat
      BY <1>2, <2>1, <2>2
    <2> QED
      BY <1>3, <2>1, <2>3 DEF BookRow
  <1>5. book' = [book EXCEPT ![n] = b]
    BY <1>1
  <1> HIDE DEF b
  <1>6. UnitMore(book, book', n)
    <2>1. book \in [1..Len(book) -> BookRow]
      BY <1>3, LenProperties
    <2>2. /\ book' \in [1..Len(book) -> BookRow] /\ book'[n] = b
          /\ \A i \in 1..Len(book) : i # n => book'[i] = book[i]
      BY <1>3, <1>4, <1>5, <2>1
    <2>3. book' \in Seq(BookRow) /\ Len(book') = Len(book)
      BY <1>3, <2>2, Listed
    <2> QED
      BY <1>3, <1>4, <2>2, <2>3 DEF UnitMore
  <1>7. Ledger' = Ledger
    BY <1>1, SameLedger
  <1>8. Accounted(Ledger, book', holdings')
    BY <1>1, <1>2, <1>6, UnitAccounted
  <1>9. /\ Shape(Ledger, book')
        /\ \A o \in Rows(Ledger) : Reports(Ledger, book', o) =
             Reports(Ledger, book, o) + (IF Ledger.orders[o].number = n THEN 1 ELSE 0)
        /\ Traded(book', "buy") = Traded(book, "buy") + (IF book[n].side = "buy" THEN 1 ELSE 0)
    BY <1>3, <1>6, UnitTraded
  <1>10. FillsFit(Ledger, book', fills)
    <2>1. \A o \in Rows(Ledger) : Reports(Ledger, book, o) \in Nat
      BY <1>3, RowFacts
    <2>2. \A o \in Rows(Ledger) : Reports(Ledger, book, o) <= Reports(Ledger, book', o)
      BY <1>9, <2>1
    <2> QED
      BY <1>2, <1>3, <1>9, <2>2, SameNews
  <1>11. ASSUME snapshot' # NoSnapshot
         PROVE  ~running' /\ SnapshotFits(Ledger', book', holdings', snapshot')
    <2>1. ~running' /\ snapshot' = snapshot /\ snapshot # NoSnapshot
      BY <1>11
    <2>2. SnapshotFits(Ledger, book, holdings, snapshot)
      BY <1>2, <2>1
    <2> PICK e : e = Executed(Ledger, "buy")
      OBVIOUS
    <2> PICK d : d = Traded(book, "buy")
      OBVIOUS
    <2>3. e \in Nat /\ d \in Nat /\ snapshot \in Nat /\ holdings \in Nat /\ holdings + e <= snapshot + d
      BY <1>2, <2>2, AccountFacts DEF SnapshotFits
    <2>4. holdings' + e <= snapshot + Traded(book', "buy")
      <3>1. book[n].side = "buy" \/ book[n].side = "sell"
        BY <1>3 DEF BookRow
      <3>2. CASE book[n].side = "buy"
        <4>1. holdings' = holdings + 1 /\ Traded(book', "buy") = d + 1
          BY <1>1, <1>9, <3>2
        <4> QED
          BY <2>3, <4>1
      <3>3. CASE book[n].side = "sell"
        <4>1. holdings' = holdings - 1 /\ Traded(book', "buy") = d
          BY <1>1, <1>9, <2>3, <3>3
        <4> QED
          BY <2>3, <4>1
      <3> QED
        BY <3>1, <3>2, <3>3
    <2> QED
      BY <1>7, <2>1, <2>3, <2>4 DEF SnapshotFits
  <1>12. clock' \in Nat
    BY <1>1, <1>2
  <1> QED
    BY <1>1, <1>2, <1>7, <1>8, <1>10, <1>11, <1>12, RepairInvIs

LEMMA ProcessKeepsAccount ==
  ASSUME RepairInv, ProcessFill, snapshot' = (IF running' THEN NoSnapshot ELSE snapshot)
  PROVE  RepairInv'
  <1> PICK f : f = Head(fills)
    OBVIOUS
  <1>1. /\ fills # <<>> /\ running /\ running' = running
        /\ book' = book /\ holdings' = holdings /\ clock' = clock
        /\ Raises(Ledger, f) => fills' = <<>> /\ orders' = orders
             /\ executions' = executions /\ lots' = lots /\ position' = position
        /\ ~Raises(Ledger, f) => SetLedger(Booked(Ledger, f)) /\ fills' = Tail(fills)
    BY DEF ProcessFill, brokerVars, processVars, ledgerVars
  <1>2. Accounted(Ledger, book, holdings) /\ FillsFit(Ledger, book, fills) /\ clock \in Nat
    BY DEF RepairInv
  <1>3. snapshot' = NoSnapshot
    BY <1>1
  <1>4. CASE Raises(Ledger, f)
    <2>1. Ledger' = Ledger /\ fills' = <<>>
      BY <1>1, <1>4, SameLedger
    <2>2. FillsFit(Ledger', book', fills')
      BY <2>1, NoNews
    <2> QED
      BY <1>1, <1>2, <1>3, <2>1, <2>2, RepairInvIs
  <1>5. CASE ~Raises(Ledger, f)
    <2>1. Shape(Ledger, book) /\ PositionsFit(Ledger)
      BY <1>2, AccountFacts
    <2>2. f \in News /\ Lacks(Ledger, book, f)
      BY <1>1, <1>2, FirstNews
    <2>3. MayBook(Ledger, book, f)
      <3>1. Ledger.orders[f.order].strategy \in Strategies
        BY <2>1, <2>2, RowFacts DEF Lacks
      <3>2. Ledger.lots \in [Strategies -> Seq(Lot)]
        BY <2>1 DEF Shape, Tables
      <3>3. LeftIn(Ledger.lots[Ledger.orders[f.order].strategy]) \in Nat
        BY <3>1, <3>2, LotsAreCounted
      <3>4. f.quantity \in Nat
        BY <2>2 DEF News
      <3>5. Ledger.orders[f.order].side = "sell" =>
              f.quantity <= LeftIn(Ledger.lots[Ledger.orders[f.order].strategy])
        BY <1>5, <3>3, <3>4 DEF Raises
      <3> QED
        BY <2>2, <3>5 DEF MayBook, Lacks
    <2>4. Shape(Booked(Ledger, f), book)
      BY <2>1, <2>3, BookedShape
    <2>5. Ledger' = Booked(Ledger, f)
      <3>1. Booked(Ledger, f) \in Tables
        BY <2>4 DEF Shape
      <3> QED
        BY <1>1, <1>5, <3>1, SetLedgerIs
    <2>6. Accounted(Ledger', book', holdings')
      BY <1>1, <1>2, <2>3, <2>5, FillAccounted
    <2>7. FillsFit(Ledger', book', fills')
      BY <1>1, <1>2, <1>5, <2>1, <2>3, <2>5, BookedNews
    <2> QED
      BY <1>1, <1>2, <1>3, <2>6, <2>7, RepairInvIs
  <1> QED
    BY <1>4, <1>5

\* Steps that leave the tables and the broker alone.
LEMMA QuietStepKeepsAccount ==
  ASSUME RepairInv, CollectFills \/ DropDuplicate \/ Stop \/ Start,
         snapshot' = (IF running' THEN NoSnapshot ELSE snapshot)
  PROVE  RepairInv'
  <1>1. /\ orders' = orders /\ executions' = executions /\ lots' = lots /\ position' = position
        /\ book' = book /\ holdings' = holdings /\ clock' = clock
    BY DEF CollectFills, DropDuplicate, Stop, Start, ledgerVars, brokerVars
  <1>2. /\ Accounted(Ledger, book, holdings) /\ FillsFit(Ledger, book, fills) /\ clock \in Nat
        /\ ~running => fills = <<>>
        /\ snapshot # NoSnapshot => ~running /\ SnapshotFits(Ledger, book, holdings, snapshot)
    BY DEF RepairInv
  <1>3. Ledger' = Ledger /\ Shape(Ledger, book)
    BY <1>1, <1>2, SameLedger, AccountFacts
  <1>4. FillsFit(Ledger, book, fills')
    <2>1. CASE CollectFills
      BY <1>3, <2>1, CollectedFit
    <2>2. CASE DropDuplicate
      BY <1>2, <2>2, FirstNews DEF DropDuplicate
    <2>3. CASE Stop
      BY <2>3, NoNews DEF Stop
    <2>4. CASE Start
      BY <1>2, <2>4 DEF Start
    <2> QED
      BY <2>1, <2>2, <2>3, <2>4
  <1>5. ~running' => fills' = <<>>
    BY DEF CollectFills, DropDuplicate, Stop, Start, processVars
  <1>6. snapshot' = NoSnapshot
    BY <1>2 DEF CollectFills, DropDuplicate, Stop, Start, processVars
  <1> QED
    BY <1>1, <1>2, <1>3, <1>4, <1>5, <1>6, RepairInvIs

LEMMA ManualSellKeepsAccount ==
  ASSUME RepairInv, NEW n \in 1..MaxUnits, ManualSell(n)
  PROVE  RepairInv'
  <1> DEFINE x == Booking("sell", n)
  <1>1. /\ book' = Append(book, x) /\ orders' = orders
        /\ executions' = executions /\ lots' = lots /\ position' = position
        /\ holdings' = holdings /\ clock' = clock /\ fills' = fills /\ running' = running
        /\ snapshot' = snapshot
    BY DEF ManualSell, ledgerVars, processVars
  <1>2. /\ Accounted(Ledger, book, holdings) /\ FillsFit(Ledger, book, fills) /\ clock \in Nat
        /\ ~running => fills = <<>>
        /\ snapshot # NoSnapshot => ~running /\ SnapshotFits(Ledger, book, holdings, snapshot)
    BY DEF RepairInv
  <1>3. Shape(Ledger, book) /\ Ledger' = Ledger
    BY <1>1, <1>2, AccountFacts, SameLedger
  <1>4. x \in BookRow /\ x.filled = 0 /\ x.side = "sell"
    <2>1. n \in Nat \ {0}
      BY FillLedgerAssumption
    <2> QED
      BY <2>1 DEF Booking, BookRow
  <1> HIDE DEF x
  <1>5. Accounted(Ledger, book', holdings)
    BY <1>1, <1>2, <1>4, ManualAccounted
  <1> PICK c : c = book'
    OBVIOUS
  <1>6. /\ Shape(Ledger, c)
        /\ \A o \in Rows(Ledger) : Reports(Ledger, c, o) = Reports(Ledger, book, o)
        /\ \A side : Traded(c, side) = Traded(book, side)
    BY <1>1, <1>3, <1>4, BookLonger
  <1>7. FillsFit(Ledger, c, fills)
    <2>1. \A o \in Rows(Ledger) : Reports(Ledger, book, o) \in Nat
      BY <1>3, RowFacts
    <2>2. \A o \in Rows(Ledger) : Reports(Ledger, book, o) <= Reports(Ledger, c, o)
      BY <1>6, <2>1
    <2> QED
      BY <1>2, <1>3, <1>6, <2>2, SameNews
  <1>8. SnapshotFits(Ledger, book, holdings, snapshot) => SnapshotFits(Ledger, c, holdings, snapshot)
    BY <1>6 DEF SnapshotFits
  <1> QED
    BY <1>1, <1>2, <1>3, <1>5, <1>7, <1>8, RepairInvIs

LEMMA TakeSnapshotKeepsAccount ==
  ASSUME RepairInv, TakeSnapshot
  PROVE  RepairInv'
  <1>1. /\ ~running /\ snapshot' = holdings /\ orders' = orders
        /\ executions' = executions /\ lots' = lots /\ position' = position
        /\ book' = book /\ holdings' = holdings /\ clock' = clock /\ fills' = fills /\ running' = running
    BY DEF TakeSnapshot, vars
  <1>2. /\ Accounted(Ledger, book, holdings) /\ FillsFit(Ledger, book, fills) /\ clock \in Nat
        /\ ~running => fills = <<>>
    BY DEF RepairInv
  <1>3. Ledger' = Ledger
    BY <1>1, SameLedger
  <1>4. SnapshotFits(Ledger, book, holdings, holdings)
    <2>1. /\ holdings \in Nat /\ Executed(Ledger, "buy") \in Nat /\ Traded(book, "buy") \in Nat
      BY <1>2, AccountFacts
    <2>2. Executed(Ledger, "buy") <= Traded(book, "buy")
      BY <1>2, BoughtFits DEF Accounted
    <2> QED
      BY <2>1, <2>2 DEF SnapshotFits
  <1> QED
    BY <1>1, <1>2, <1>3, <1>4, RepairInvIs

LEMMA RepairKeepsAccount ==
  ASSUME RepairInv, NEW s \in Strategies, NEW first \in DOMAIN book, NEW last \in DOMAIN book,
         NEW candidates \in Candidates(s, first, last), Repair(s, candidates)
  PROVE  RepairInv'
  <1> PICK m : m = Replays(s, candidates)[Len(candidates)]
    OBVIOUS
  <1>1. /\ MayRepair(s) /\ candidates # <<>> /\ FillsMatchGap(s, candidates)
        /\ Len(orders) + Len(candidates) <= MaxOrders
        /\ SetLedger(m)
        /\ book' = book /\ holdings' = holdings /\ clock' = clock /\ fills' = fills /\ running' = running
        /\ snapshot' = snapshot
    BY DEF Repair, brokerVars, processVars
  <1>2. /\ Accounted(Ledger, book, holdings) /\ clock \in Nat
        /\ ~running => fills = <<>>
        /\ snapshot # NoSnapshot => ~running /\ SnapshotFits(Ledger, book, holdings, snapshot)
    BY DEF RepairInv
  <1>3. ~running /\ snapshot # NoSnapshot
    BY <1>1 DEF MayRepair
  <1>4. SnapshotFits(Ledger, book, holdings, snapshot)
    BY <1>2, <1>3
  <1>5. /\ Accounted(m, book, holdings) /\ m \in Tables
        /\ Executed(m, "buy") = Executed(Ledger, "buy")
    BY <1>1, <1>2, <1>4, RepairAccounted DEF SnapshotFits
  <1>6. Ledger' = m
    BY <1>1, <1>5, SetLedgerIs
  <1>7. fills' = <<>>
    BY <1>1, <1>2, <1>3
  <1>8. FillsFit(Ledger', book', fills')
    BY <1>7, NoNews
  <1>9. SnapshotFits(Ledger', book', holdings', snapshot')
    BY <1>1, <1>4, <1>5, <1>6 DEF SnapshotFits
  <1> QED
    BY <1>1, <1>2, <1>3, <1>5, <1>6, <1>7, <1>8, <1>9, RepairInvIs

LEMMA AccountIsKept ==
  ASSUME RepairInv, [RepairNext]_<<vars, repairVars>>
  PROVE  RepairInv'
  <1>1. CASE UNCHANGED <<vars, repairVars>>
    <2>1. /\ orders' = orders /\ executions' = executions /\ lots' = lots /\ position' = position
          /\ book' = book /\ holdings' = holdings /\ clock' = clock /\ fills' = fills /\ running' = running
          /\ snapshot' = snapshot
      BY <1>1 DEF vars, repairVars
    <2>2. Ledger' = Ledger
      BY <2>1, SameLedger
    <2> QED
      BY <2>1, <2>2, RepairInvIs DEF RepairInv
  <1>2. CASE Next /\ snapshot' = (IF running' THEN NoSnapshot ELSE snapshot)
    BY <1>2, SubmitKeepsAccount, BrokerFillKeepsAccount, ProcessKeepsAccount, QuietStepKeepsAccount DEF Next
  <1>3. ASSUME NEW n \in 1..MaxUnits, ManualSell(n) PROVE RepairInv'
    BY <1>3, ManualSellKeepsAccount
  <1>4. CASE TakeSnapshot
    BY <1>4, TakeSnapshotKeepsAccount
  <1>5. ASSUME NEW s \in Strategies, NEW first \in DOMAIN book, NEW last \in DOMAIN book,
               NEW candidates \in Candidates(s, first, last), Repair(s, candidates)
        PROVE  RepairInv'
    BY <1>5, RepairKeepsAccount
  <1> QED
    BY <1>1, <1>2, <1>3, <1>4, <1>5 DEF RepairNext

(* The invariant of repairs: the tables, the orders at the broker, the units *)
(* in the account, the fills a poll has collected and the snapshot fit each  *)
(* other after every step of polls, stops, sales by hand and repairs.        *)
THEOREM AccountsAreKept == RepairSpec => []RepairInv
  <1>1. RepairInit => RepairInv
    BY InitAccounted
  <1>2. RepairInv /\ [RepairNext]_<<vars, repairVars>> => RepairInv'
    BY AccountIsKept
  <1> QED
    BY <1>1, <1>2, PTL DEF RepairSpec

(* No repair, of whichever strategy and with whichever selection of orders,  *)
(* makes the ledger book more sold units than were sold at the broker.       *)
THEOREM NoSaleTooMany == RepairSpec => []SalesNeverOverbooked
  <1>1. RepairInv => SalesNeverOverbooked
    <2> SUFFICES ASSUME RepairInv PROVE SalesNeverOverbooked
      OBVIOUS
    <2>1. Executed(Ledger, "sell") <= Traded(book, "sell") /\ Shape(Ledger, book)
      BY SoldFits, AccountFacts DEF RepairInv
    <2>2. DOMAIN orders = Rows(Ledger) /\ DOMAIN book = 1..Len(book)
          /\ Ledger.orders = orders /\ Ledger.executions = executions
      BY <2>1, RowFacts DEF Ledger
    <2>3. ExecutedIn(Ledger, "sell") =
            [o \in DOMAIN orders |-> IF orders[o].side = "sell" THEN FilledQuantity(o) ELSE 0]
      BY <2>2 DEF ExecutedIn, Filled, FilledQuantity
    <2>4. TradedIn(book, "sell") = [n \in DOMAIN book |-> IF book[n].side = "sell" THEN Sold(n) ELSE 0]
      BY <2>2 DEF TradedIn, Sold
    <2> QED
      BY <2>1, <2>3, <2>4 DEF SalesNeverOverbooked, Executed, Traded
  <1> QED
    BY <1>1, AccountsAreKept, PTL

(* No row has more executions than the broker reports of its order, and a    *)
(* strategy has one row of each order at the broker: what the poll books is  *)
(* not booked again by a repair, nor by two of them, unless the broker told  *)
(* the orgno of its own order in one of two answers only.                    *)
THEOREM NoSaleTwice == RepairSpec => []NoSaleReplayed
  <1>1. RepairInv => NoSaleReplayed
    <2> SUFFICES ASSUME RepairInv PROVE NoSaleReplayed
      OBVIOUS
    <2>1. Shape(Ledger, book)
      BY AccountFacts DEF RepairInv
    <2>2. DOMAIN orders = Rows(Ledger) /\ Ledger.orders = orders /\ Ledger.executions = executions
      BY <2>1, RowFacts DEF Ledger
    <2>3. \A o \in DOMAIN orders : FilledQuantity(o) <= AtBroker(o).filled
      BY <2>1, <2>2 DEF Shape, Filled, Reports, FilledQuantity, AtBroker
    <2>4. ASSUME NEW o \in DOMAIN orders, NEW p \in DOMAIN orders, p # o,
                 orders[p].strategy = orders[o].strategy, orders[p].number = orders[o].number
          PROVE  HasTwoKeys(orders[o].number) /\ orders[p].orgno # orders[o].orgno
      <3>1. orders[p].orgno # orders[o].orgno
        BY <2>1, <2>2, <2>4 DEF Shape, OrderKey
      <3>2. /\ orders[p].orgno \in BOOLEAN /\ orders[o].orgno \in BOOLEAN
            /\ IsNamed(orders[p]) /\ IsNamed(orders[o])
        BY <2>1, <2>2, RowFacts DEF Shape, Row
      <3> QED
        BY <2>4, <3>1, <3>2 DEF IsNamed, HasTwoKeys
    <2> QED
      BY <2>3, <2>4 DEF NoSaleReplayed
  <1> QED
    BY <1>1, AccountsAreKept, PTL

(* The lots explain the position also when sells come by hand and repairs    *)
(* replay them.                                                              *)
THEOREM RepairedPositionsAreTheirLots == RepairSpec => []LotsExplainPosition
  <1>1. RepairInv => LotsExplainPosition
    <2> SUFFICES ASSUME RepairInv PROVE LotsExplainPosition
      OBVIOUS
    <2>1. PositionsFit(Ledger) /\ Ledger.lots = lots /\ Ledger.position = position
      BY AccountFacts DEF RepairInv, Ledger
    <2> QED
      BY <2>1 DEF PositionsFit, Explains, LotsExplainPosition
  <1> QED
    BY <1>1, AccountsAreKept, PTL

-----------------------------------------------------------------------------
(***************************************************************************)
(* The tax report: sells replayed against what was bought.                 *)
(***************************************************************************)
\* The recursion of ReportRows has a solution: the rows follow one another.
LEMMA ReportRowsIs ==
  ASSUME NEW pending, NEW sales, Len(sales) \in Nat
  PROVE  ReportRows(pending, sales) =
           [i \in 0..Len(sales) |->
              IF i = 0 THEN [lots |-> pending, cost |-> 0, failed |-> FALSE]
              ELSE FifoRow(ReportRows(pending, sales)[i - 1], sales[i])]
  <1> DEFINE start == [lots |-> pending, cost |-> 0, failed |-> FALSE]
             Solves(n, g) == g = [i \in 0..n |-> IF i = 0 THEN start ELSE FifoRow(g[i - 1], sales[i])]
             T == {n \in Nat : ~\E g : Solves(n, g)}
  <1>1. ASSUME T # {} PROVE FALSE
    <2>1. PICK m \in T : \A n \in T : m <= n
      <3>1. T \subseteq Nat
        OBVIOUS
      <3> HIDE DEF T
      <3> QED
        BY <1>1, <3>1, LeastNatural
    <2>2. m \in Nat /\ ~\E g : Solves(m, g)
      OBVIOUS
    <2> HIDE DEF start
    <2>3. CASE m = 0
      <3> DEFINE first == [i \in 0..m |-> start]
      <3>1. Solves(m, first)
        BY <2>3
      <3> HIDE DEF first, Solves
      <3> QED
        BY <2>2, <3>1
    <2>4. CASE m # 0
      <3>1. m - 1 \in Nat /\ m - 1 \notin T
        <4>1. m - 1 \in Nat /\ ~(m <= m - 1)
          BY <2>2, <2>4
        <4> HIDE DEF T
        <4> QED
          BY <2>1, <4>1
      <3>2. PICK g : Solves(m - 1, g)
        BY <3>1
      <3> DEFINE k == [i \in 0..m |-> IF i = 0 THEN start ELSE FifoRow(g[i - 1], sales[i])]
      <3>3. ASSUME NEW i \in 0..(m - 1) PROVE k[i] = g[i]
        <4>1. i \in 0..m
          BY <2>2
        <4>2. g[i] = IF i = 0 THEN start ELSE FifoRow(g[i - 1], sales[i])
          BY <3>2
        <4> QED
          BY <4>1, <4>2
      <3>4. ASSUME NEW i \in 0..m, i # 0 PROVE k[i - 1] = g[i - 1]
        <4>1. i - 1 \in 0..(m - 1)
          BY <2>2, <3>4
        <4> HIDE DEF k
        <4> QED
          BY <3>3, <4>1
      <3>5. \A i \in 0..m : k[i] = IF i = 0 THEN start ELSE FifoRow(g[i - 1], sales[i])
        OBVIOUS
      <3>6. k = [i \in 0..m |-> k[i]]
        OBVIOUS
      <3> HIDE DEF k
      <3>7. \A i \in 0..m : k[i] = IF i = 0 THEN start ELSE FifoRow(k[i - 1], sales[i])
        BY <3>4, <3>5
      <3>8. Solves(m, k)
        BY <3>6, <3>7
      <3> QED
        BY <2>2, <3>8
    <2> QED
      BY <2>3, <2>4
  <1>3. \E g : Solves(Len(sales), g)
    BY <1>1
  <1>4. Solves(Len(sales), CHOOSE g : Solves(Len(sales), g))
    BY <1>3
  <1> QED
    BY <1>4 DEF ReportRows

LEMMA ReportStep ==
  ASSUME NEW pending, NEW n \in Nat, NEW sales, Len(sales) = n
  PROVE  /\ ReportRows(pending, sales)[0] = [lots |-> pending, cost |-> 0, failed |-> FALSE]
         /\ \A i \in 1..n : ReportRows(pending, sales)[i] = FifoRow(ReportRows(pending, sales)[i - 1], sales[i])
  <1> DEFINE rows == ReportRows(pending, sales)
             start == [lots |-> pending, cost |-> 0, failed |-> FALSE]
  <1>1. rows = [i \in 0..n |-> IF i = 0 THEN start ELSE FifoRow(rows[i - 1], sales[i])]
    BY ReportRowsIs
  <1> HIDE DEF rows, start
  <1>2. \A i \in 0..n : rows[i] = IF i = 0 THEN start ELSE FifoRow(rows[i - 1], sales[i])
    BY <1>1
  <1>3. rows[0] = start
    BY <1>2
  <1>4. \A i \in 1..n : rows[i] = FifoRow(rows[i - 1], sales[i])
    BY <1>2
  <1> QED
    BY <1>3, <1>4 DEF rows, start

\* One more term leaves the sums before it.
LEMMA SumsPrefix ==
  ASSUME NEW n \in Nat, NEW f \in [1..n -> Nat], NEW g \in [1..(n + 1) -> Nat],
         \A i \in 1..n : g[i] = f[i]
  PROVE  \A i \in 0..n : Sums(g)[i] = Sums(f)[i]
  <1> DEFINE F == Sums(f)
             G == Sums(g)
             T == {i \in 0..n : G[i] # F[i]}
  <1>1. F[0] = 0 /\ \A i \in 1..n : F[i] = F[i - 1] + f[i]
    BY SumsStep
  <1>2. G[0] = 0 /\ \A i \in 1..(n + 1) : G[i] = G[i - 1] + g[i]
    <2>1. n + 1 \in Nat
      OBVIOUS
    <2> QED
      BY <2>1, SumsStep
  <1> HIDE DEF F, G
  <1>3. 0 \notin T
    BY <1>1, <1>2
  <1>4. ASSUME NEW i \in 1..n, i - 1 \notin T PROVE i \notin T
    <2>1. G[i - 1] = F[i - 1] /\ i \in 1..(n + 1)
      BY <1>4
    <2> QED
      BY <1>1, <1>2, <2>1
  <1>5. T = {}
    <2>1. T \in SUBSET (0..n)
      OBVIOUS
    <2> HIDE DEF T
    <2> QED
      BY <1>3, <1>4, <2>1, UpTo
  <1> QED
    BY <1>5 DEF F, G

\* A sale that the lots suffice for does not touch a lot behind them.
LEMMA AppendedSale ==
  ASSUME NEW queue \in Seq(Lot), NEW lot \in Lot, NEW n \in Nat, n <= LeftIn(queue)
  PROVE  /\ Consumed(Append(queue, lot), n) = Append(Consumed(queue, n), lot)
         /\ CostBasis(Append(queue, lot), n) = CostBasis(queue, n)
  <1> PICK all : all = Append(queue, lot)
    OBVIOUS
  <1> PICK len : len = Len(queue)
    OBVIOUS
  <1>1. /\ all \in Seq(Lot) /\ Len(all) = len + 1 /\ DOMAIN all = 1..(len + 1) /\ len \in Nat
        /\ \A i \in 1..len : all[i] = queue[i]
        /\ all[len + 1] = lot
    BY AppendedLot
  <1>2. /\ DOMAIN queue = 1..len /\ Units(queue) \in [1..len -> Nat] /\ Units(all) \in [1..(len + 1) -> Nat]
        /\ \A i \in 1..len : queue[i] \in Lot
    BY <1>1, LotsAreCounted
  <1>3. \A i \in 1..len : Units(all)[i] = Units(queue)[i]
    BY <1>1, <1>2 DEF Units
  <1>4. \A i \in 0..len : Sums(Units(all))[i] = Sums(Units(queue))[i]
    <2> DEFINE f == Units(queue)
               g == Units(all)
    <2>1. len \in Nat /\ f \in [1..len -> Nat] /\ g \in [1..(len + 1) -> Nat] /\ \A i \in 1..len : g[i] = f[i]
      BY <1>1, <1>2, <1>3
    <2> HIDE DEF f, g
    <2>2. \A i \in 0..len : Sums(g)[i] = Sums(f)[i]
      BY ONLY <2>1, SumsPrefix
    <2> QED
      BY <2>2 DEF f, g
  <1>5. Sums(Units(queue))[len] = LeftIn(queue) /\ LeftIn(queue) \in Nat
    BY <1>1, <1>2, SumsStep, LotsAreCounted DEF LeftIn
  <1>6. \A i \in 1..len : Taken(all, n)[i] = Taken(queue, n)[i]
    <2> SUFFICES ASSUME NEW i \in 1..len PROVE Taken(all, n)[i] = Taken(queue, n)[i]
      OBVIOUS
    <2>1. i \in 1..Len(all) /\ i \in 1..Len(queue) /\ i - 1 \in 0..len
      BY <1>1
    <2>2. Sums(Units(all))[i - 1] = Sums(Units(queue))[i - 1] /\ all[i].left = queue[i].left
      BY <1>1, <1>4, <2>1
    <2> PICK a : a = Sums(Units(queue))[i - 1]
      OBVIOUS
    <2>3. Taken(all, n)[i] = IF n <= a THEN 0 ELSE IF queue[i].left <= n - a THEN queue[i].left ELSE n - a
      <3>1. all \in Seq(Lot) /\ n \in Nat /\ i \in 1..Len(all)
        BY <1>1, <2>1
      <3>2. Taken(all, n)[i] = IF n <= Sums(Units(all))[i - 1] THEN 0
                               ELSE IF all[i].left <= n - Sums(Units(all))[i - 1] THEN all[i].left
                               ELSE n - Sums(Units(all))[i - 1]
        BY ONLY <3>1, TakenIs
      <3>3. Sums(Units(all))[i - 1] = a
        BY <2>2
      <3> QED
        BY ONLY <2>2, <3>2, <3>3
    <2>4. Taken(queue, n)[i] = IF n <= a THEN 0 ELSE IF queue[i].left <= n - a THEN queue[i].left ELSE n - a
      BY <2>1, TakenIs
    <2> QED
      BY <2>3, <2>4
  <1>7. Taken(all, n)[len + 1] = 0
    <2>1. len + 1 \in 1..Len(all) /\ (len + 1) - 1 = len /\ len \in 0..len
      BY <1>1
    <2>2. Sums(Units(all))[(len + 1) - 1] = LeftIn(queue)
      BY <1>4, <1>5, <2>1
    <2> QED
      BY <1>1, <2>1, <2>2, TakenIs
  <1>8. Consumed(all, n) = Append(Consumed(queue, n), lot)
    <2> DEFINE rest == Consumed(queue, n)
               more == Consumed(all, n)
    <2>1. rest \in Seq(Lot) /\ Len(rest) = len /\ more \in Seq(Lot) /\ Len(more) = len + 1
      BY <1>1, ConsumedIs
    <2>2. /\ Append(rest, lot) \in Seq(Lot) /\ Len(Append(rest, lot)) = len + 1
          /\ \A i \in 1..len : Append(rest, lot)[i] = rest[i]
          /\ Append(rest, lot)[len + 1] = lot
      BY <2>1, AppendedLot
    <2>3. ASSUME NEW i \in 1..len PROVE more[i] = rest[i]
      <3>1. more[i] = [all[i] EXCEPT !.left = @ - Taken(all, n)[i]]
        BY <1>1 DEF Consumed
      <3>2. rest[i] = [queue[i] EXCEPT !.left = @ - Taken(queue, n)[i]]
        BY <1>2 DEF Consumed
      <3> HIDE DEF rest, more
      <3> QED
        BY <1>1, <1>6, <3>1, <3>2
    <2>4. more[len + 1] = lot
      <3>1. len + 1 \in 1..(len + 1)
        BY <1>1
      <3>2. more[len + 1] = [lot EXCEPT !.left = @ - Taken(all, n)[len + 1]]
        BY <1>1, <3>1 DEF Consumed
      <3>3. lot.left - 0 = lot.left
        BY DEF Lot
      <3> HIDE DEF more
      <3>4. more[len + 1] = [lot EXCEPT !.left = lot.left]
        BY <1>7, <3>2, <3>3
      <3> QED
        BY <3>4 DEF Lot
    <2> HIDE DEF rest, more
    <2>5. \A i \in 1..(len + 1) : i \in 1..len \/ i = len + 1
      BY <1>1
    <2>6. \A i \in 1..(len + 1) : more[i] = Append(rest, lot)[i]
      BY <2>2, <2>3, <2>4, <2>5
    <2>7. more = Append(rest, lot)
      BY <2>1, <2>2, <2>6, SameLots
    <2> QED
      BY <2>7 DEF rest, more
  <1>9. CostBasis(all, n) = CostBasis(queue, n)
    <2> DEFINE f == [i \in DOMAIN queue |-> Taken(queue, n)[i] * queue[i].price]
               g == [i \in DOMAIN all |-> Taken(all, n)[i] * all[i].price]
    <2>1. ASSUME NEW i \in 1..len PROVE f[i] \in Nat /\ g[i] = f[i]
      <3>1. queue[i].price \in Nat /\ Taken(queue, n)[i] \in Nat
        BY <1>1, LotsAreCounted, TakenIs
      <3>2. f[i] = Taken(queue, n)[i] * queue[i].price /\ g[i] = Taken(all, n)[i] * all[i].price
        BY <1>1, <1>2
      <3>3. Taken(queue, n)[i] * queue[i].price \in Nat
        BY ONLY <3>1
      <3> HIDE DEF f, g
      <3> QED
        BY <1>1, <1>6, <3>2, <3>3
    <2>2. g[len + 1] = 0
      <3>1. len + 1 \in DOMAIN all /\ lot.price \in Nat
        BY <1>1 DEF Lot
      <3>2. g[len + 1] = 0 * lot.price
        BY <1>1, <1>7, <3>1
      <3> HIDE DEF g
      <3> QED
        BY <3>1, <3>2
    <2>3. DOMAIN f = 1..len /\ DOMAIN g = 1..(len + 1)
      BY <1>1, <1>2
    <2>4. f = [i \in 1..len |-> f[i]] /\ g = [i \in 1..(len + 1) |-> g[i]]
      BY <1>1, <1>2
    <2>5. CostBasis(queue, n) = Total(f) /\ CostBasis(all, n) = Total(g)
      BY DEF CostBasis
    <2> HIDE DEF f, g
    <2>6. /\ len \in Nat /\ f \in [1..len -> Nat] /\ g \in [1..(len + 1) -> Nat]
          /\ \A i \in 1..len : g[i] = f[i]
      <3>1. \A i \in 1..(len + 1) : i \in 1..len \/ i = len + 1
        BY <1>1
      <3>2. f \in [1..len -> Nat]
        BY <2>1, <2>4
      <3>3. \A i \in 1..(len + 1) : g[i] \in Nat
        BY <2>1, <2>2, <3>1
      <3>4. g \in [1..(len + 1) -> Nat]
        BY ONLY <2>4, <3>3
      <3> QED
        BY <1>1, <2>1, <3>2, <3>4
    <2>7. Total(g) = Total(f) + g[len + 1]
      BY ONLY <2>6, SumsAppend
    <2>8. Total(f) \in Nat
      BY <2>6, SumsAreNatural
    <2> QED
      BY <2>2, <2>5, <2>7, <2>8
  <1> QED
    BY <1>8, <1>9

\* The units a sell may consume.
LEMMA ActiveUnitsAre ==
  ASSUME NEW queue \in Seq(Lot), NEW e \in Entry
  PROVE  /\ ActiveUnits(queue, e) \in [1..Len(queue) -> Nat]
         /\ Total(ActiveUnits(queue, e)) \in Nat /\ Total(ActiveUnits(queue, e)) <= LeftIn(queue)
         /\ (\A i \in 1..Len(queue) : queue[i].at <= e.at) =>
              Total(ActiveUnits(queue, e)) = LeftIn(queue)
  <1> DEFINE f == ActiveUnits(queue, e)
             g == Units(queue)
  <1> PICK len : len = Len(queue)
    OBVIOUS
  <1>1. /\ len \in Nat /\ DOMAIN queue = 1..len /\ g \in [1..len -> Nat]
        /\ \A i \in 1..len : queue[i].left \in Nat
    BY LotsAreCounted
  <1>2. /\ f = [i \in 1..len |-> f[i]]
        /\ \A i \in 1..len : /\ f[i] = IF queue[i].at <= e.at THEN queue[i].left ELSE 0
                             /\ g[i] = queue[i].left
    BY <1>1 DEF ActiveUnits, Units
  <1>3. LeftIn(queue) = Total(g)
    BY DEF LeftIn
  <1> HIDE DEF f, g
  <1>4. f \in [1..len -> Nat] /\ \A i \in 1..len : f[i] <= g[i]
    <2>1. \A i \in 1..len : f[i] = queue[i].left \/ f[i] = 0
      BY <1>2
    <2>2. \A i \in 1..len : f[i] \in Nat /\ f[i] <= g[i]
      BY <1>1, <1>2, <2>1
    <2> QED
      BY ONLY <1>2, <2>2
  <1>5. Total(f) \in Nat
    BY <1>1, <1>4, SumsAreNatural
  <1>6. Total(f) <= Total(g)
    BY <1>1, <1>4, SmallerTerms
  <1>7. (\A i \in 1..len : queue[i].at <= e.at) => Total(f) = Total(g)
    <2> SUFFICES ASSUME \A i \in 1..len : queue[i].at <= e.at PROVE f = g
      OBVIOUS
    <2>1. \A i \in 1..len : f[i] = g[i]
      BY <1>2
    <2>2. g = [i \in 1..len |-> g[i]]
      BY <1>1
    <2> QED
      BY <1>2, <2>1, <2>2
  <1> QED
    BY <1>3, <1>4, <1>5, <1>6, <1>7 DEF f

LEMMA AppendedActive ==
  ASSUME NEW queue \in Seq(Lot), NEW lot \in Lot, NEW e \in Entry, e.at < lot.at
  PROVE  Total(ActiveUnits(Append(queue, lot), e)) = Total(ActiveUnits(queue, e))
  <1> PICK all : all = Append(queue, lot)
    OBVIOUS
  <1> PICK len : len = Len(queue)
    OBVIOUS
  <1> DEFINE f == ActiveUnits(queue, e)
             g == ActiveUnits(all, e)
  <1>1. /\ all \in Seq(Lot) /\ Len(all) = len + 1 /\ DOMAIN all = 1..(len + 1) /\ len \in Nat
        /\ \A i \in 1..len : all[i] = queue[i]
        /\ all[len + 1] = lot
    BY AppendedLot
  <1>2. f \in [1..len -> Nat] /\ g \in [1..(len + 1) -> Nat] /\ DOMAIN queue = 1..len
    BY <1>1, ActiveUnitsAre, LotsAreCounted
  <1>3. \A i \in 1..len : g[i] = f[i]
    <2> SUFFICES ASSUME NEW i \in 1..len PROVE g[i] = f[i]
      OBVIOUS
    <2>1. i \in 1..(len + 1)
      BY <1>1
    <2> QED
      BY <1>1, <1>2, <2>1 DEF ActiveUnits
  <1>4. g[len + 1] = 0
    <2>1. len + 1 \in 1..(len + 1) /\ ~(lot.at <= e.at)
      BY <1>1 DEF Lot, Entry
    <2> QED
      BY <1>1, <2>1 DEF ActiveUnits
  <1> HIDE DEF f, g
  <1>5. Total(g) = Total(f) + g[len + 1]
    BY <1>1, <1>2, <1>3, SumsAppend
  <1>6. Total(f) \in Nat
    BY <1>1, <1>2, SumsAreNatural
  <1>7. Total(g) = Total(f)
    BY <1>4, <1>5, <1>6
  <1> QED
    BY <1>7 DEF f, g

Report == [lots : Seq(Lot), cost : Nat, failed : BOOLEAN]
Fails(r, e) == r.failed \/ Total(ActiveUnits(r.lots, e)) < e.quantity

\* A row of the report.
LEMMA FifoRowIs ==
  ASSUME NEW r \in Report, NEW e \in Entry
  PROVE  /\ FifoRow(r, e) \in Report
         /\ Fails(r, e) => FifoRow(r, e) = [lots |-> r.lots, cost |-> r.cost, failed |-> TRUE]
         /\ ~Fails(r, e) =>
              /\ e.quantity <= LeftIn(r.lots) /\ CostBasis(r.lots, e.quantity) \in Nat
              /\ FifoRow(r, e) = [lots |-> Consumed(r.lots, e.quantity),
                                  cost |-> r.cost + CostBasis(r.lots, e.quantity), failed |-> FALSE]
  <1>1. /\ r.lots \in Seq(Lot) /\ r.cost \in Nat /\ r.failed \in BOOLEAN /\ e.quantity \in Nat
        /\ r = [lots |-> r.lots, cost |-> r.cost, failed |-> r.failed]
    BY DEF Report, Entry
  <1>2. CASE Fails(r, e)
    <2>1. FifoRow(r, e) = [r EXCEPT !.failed = TRUE]
      BY <1>2 DEF FifoRow, Fails
    <2>2. FifoRow(r, e) = [lots |-> r.lots, cost |-> r.cost, failed |-> TRUE]
      BY ONLY <1>1, <2>1
    <2> QED
      BY <1>1, <1>2, <2>2 DEF Report
  <1>3. CASE ~Fails(r, e)
    <2>1. FifoRow(r, e) = [r EXCEPT !.lots = Consumed(r.lots, e.quantity),
                                    !.cost = r.cost + CostBasis(r.lots, e.quantity)]
      BY <1>3 DEF FifoRow, Fails
    <2>2. r.failed = FALSE
      BY <1>1, <1>3 DEF Fails
    <2>3. FifoRow(r, e) = [lots |-> Consumed(r.lots, e.quantity),
                           cost |-> r.cost + CostBasis(r.lots, e.quantity), failed |-> FALSE]
      BY ONLY <1>1, <2>1, <2>2
    <2>4. e.quantity <= LeftIn(r.lots)
      <3> PICK t : t = Total(ActiveUnits(r.lots, e))
        OBVIOUS
      <3> PICK u : u = LeftIn(r.lots)
        OBVIOUS
      <3>1. t \in Nat /\ t <= u /\ u \in Nat
        BY <1>1, ActiveUnitsAre, LotsAreCounted
      <3>2. ~(t < e.quantity)
        BY <1>3 DEF Fails
      <3> QED
        BY <1>1, <3>1, <3>2
    <2>5. Consumed(r.lots, e.quantity) \in Seq(Lot) /\ CostBasis(r.lots, e.quantity) \in Nat
      BY <1>1, <2>4, ConsumedIs, SaleIsTaken
    <2>6. r.cost + CostBasis(r.lots, e.quantity) \in Nat
      BY <1>1, <2>5
    <2> QED
      BY <1>3, <2>3, <2>4, <2>5, <2>6 DEF Report
  <1> QED
    BY <1>2, <1>3

\* The sells of a sequence of executions.
LEMMA SalesAre ==
  ASSUME NEW sales \in Seq(Entry)
  PROVE  Len(sales) \in Nat /\ DOMAIN sales = 1..Len(sales) /\ \A i \in 1..Len(sales) : sales[i] \in Entry
  BY LenProperties, ElementOfSeq

LEMMA RowsAreReports ==
  ASSUME NEW pending \in Seq(Lot), NEW sales \in Seq(Entry)
  PROVE  \A i \in 0..Len(sales) : ReportRows(pending, sales)[i] \in Report
  <1> DEFINE n == Len(sales)
             rows == ReportRows(pending, sales)
             T == {i \in 0..n : rows[i] \notin Report}
  <1>1. n \in Nat /\ \A i \in 1..n : sales[i] \in Entry
    BY SalesAre
  <1>2. /\ rows[0] = [lots |-> pending, cost |-> 0, failed |-> FALSE]
        /\ \A i \in 1..n : rows[i] = FifoRow(rows[i - 1], sales[i])
    BY <1>1, ReportStep
  <1>3. [lots |-> pending, cost |-> 0, failed |-> FALSE] \in Report
    BY DEF Report
  <1> HIDE DEF n, rows
  <1>4. rows[0] \in Report
    BY ONLY <1>2, <1>3
  <1>5. 0 \notin T
    BY <1>4
  <1>6. ASSUME NEW i \in 1..n, i - 1 \notin T PROVE i \notin T
    <2>1. rows[i - 1] \in Report
      BY <1>1, <1>6
    <2> QED
      BY <1>1, <1>2, <2>1, FifoRowIs
  <1>7. T = {}
    <2>1. T \in SUBSET (0..n)
      OBVIOUS
    <2> HIDE DEF T
    <2> QED
      BY <1>1, <1>5, <1>6, <2>1, UpTo
  <1> QED
    BY <1>7 DEF n, rows

\* A lot that is younger than the sells.
WithLot(r, lot) == [lots |-> Append(r.lots, lot), cost |-> r.cost, failed |-> r.failed]

LEMMA FifoRowWithLot ==
  ASSUME NEW r \in Report, NEW lot \in Lot, NEW e \in Entry, e.at < lot.at
  PROVE  FifoRow(WithLot(r, lot), e) = WithLot(FifoRow(r, e), lot)
  <1> PICK more : more = [lots |-> Append(r.lots, lot), cost |-> r.cost, failed |-> r.failed]
    BY Zenon
  <1>0. WithLot(r, lot) = more
    BY DEF WithLot
  <1>1. /\ r.lots \in Seq(Lot) /\ r.cost \in Nat /\ r.failed \in BOOLEAN /\ e.quantity \in Nat
        /\ more.lots = Append(r.lots, lot) /\ more.cost = r.cost /\ more.failed = r.failed
    BY DEF Report, Entry
  <1>2. more \in Report
    BY <1>1, AppendedLot DEF Report
  <1>3. Fails(more, e) <=> Fails(r, e)
    BY <1>1, AppendedActive DEF Fails
  <1>4. CASE Fails(r, e)
    <2>1. FifoRow(r, e) = [lots |-> r.lots, cost |-> r.cost, failed |-> TRUE]
      BY <1>4, FifoRowIs
    <2>2. FifoRow(more, e) = [lots |-> more.lots, cost |-> more.cost, failed |-> TRUE]
      BY <1>2, <1>3, <1>4, FifoRowIs
    <2>3. WithLot(FifoRow(r, e), lot) = [lots |-> Append(r.lots, lot), cost |-> r.cost, failed |-> TRUE]
      BY <2>1 DEF WithLot
    <2> QED
      BY <1>0, <1>1, <2>2, <2>3
  <1>5. CASE ~Fails(r, e)
    <2>1. /\ e.quantity <= LeftIn(r.lots)
          /\ FifoRow(r, e) = [lots |-> Consumed(r.lots, e.quantity),
                              cost |-> r.cost + CostBasis(r.lots, e.quantity), failed |-> FALSE]
      BY <1>5, FifoRowIs
    <2>2. FifoRow(more, e) = [lots |-> Consumed(more.lots, e.quantity),
                              cost |-> more.cost + CostBasis(more.lots, e.quantity), failed |-> FALSE]
      BY <1>2, <1>3, <1>5, FifoRowIs
    <2>3. /\ Consumed(more.lots, e.quantity) = Append(Consumed(r.lots, e.quantity), lot)
          /\ CostBasis(more.lots, e.quantity) = CostBasis(r.lots, e.quantity)
      BY <1>1, <2>1, AppendedSale
    <2>4. WithLot(FifoRow(r, e), lot) =
            [lots |-> Append(Consumed(r.lots, e.quantity), lot),
             cost |-> r.cost + CostBasis(r.lots, e.quantity), failed |-> FALSE]
      BY <2>1 DEF WithLot
    <2> QED
      BY <1>0, <1>1, <2>2, <2>3, <2>4
  <1> QED
    BY <1>4, <1>5

LEMMA RowsWithLot ==
  ASSUME NEW pending \in Seq(Lot), NEW lot \in Lot, NEW sales \in Seq(Entry),
         \A i \in 1..Len(sales) : sales[i].at < lot.at
  PROVE  \A i \in 0..Len(sales) :
           ReportRows(Append(pending, lot), sales)[i] = WithLot(ReportRows(pending, sales)[i], lot)
  <1> DEFINE n == Len(sales)
             rows == ReportRows(pending, sales)
             more == ReportRows(Append(pending, lot), sales)
             T == {i \in 0..n : more[i] # WithLot(rows[i], lot)}
  <1>1. n \in Nat /\ \A i \in 1..n : sales[i] \in Entry /\ sales[i].at < lot.at
    BY SalesAre
  <1>2. /\ rows[0] = [lots |-> pending, cost |-> 0, failed |-> FALSE]
        /\ \A i \in 1..n : rows[i] = FifoRow(rows[i - 1], sales[i])
    BY <1>1, ReportStep
  <1>3. /\ more[0] = [lots |-> Append(pending, lot), cost |-> 0, failed |-> FALSE]
        /\ \A i \in 1..n : more[i] = FifoRow(more[i - 1], sales[i])
    BY <1>1, ReportStep
  <1>4. \A i \in 0..n : rows[i] \in Report
    BY RowsAreReports
  <1> HIDE DEF n, rows, more
  <1>5. 0 \notin T
    <2>1. more[0] = WithLot(rows[0], lot)
      BY <1>2, <1>3 DEF WithLot
    <2> QED
      BY <2>1
  <1>6. ASSUME NEW i \in 1..n, i - 1 \notin T PROVE i \notin T
    <2>1. more[i - 1] = WithLot(rows[i - 1], lot) /\ rows[i - 1] \in Report
      BY <1>1, <1>4, <1>6
    <2>2. FifoRow(WithLot(rows[i - 1], lot), sales[i]) = WithLot(FifoRow(rows[i - 1], sales[i]), lot)
      BY <1>1, <2>1, FifoRowWithLot
    <2>3. more[i] = WithLot(rows[i], lot)
      BY <1>2, <1>3, <2>1, <2>2
    <2> QED
      BY <2>3
  <1>7. T = {}
    <2>1. T \in SUBSET (0..n)
      OBVIOUS
    <2> HIDE DEF T
    <2> QED
      BY <1>1, <1>5, <1>6, <2>1, UpTo
  <1> QED
    BY <1>7 DEF n, rows, more

\* A sell more.
LEMMA RowsOfMoreSales ==
  ASSUME NEW pending, NEW sales \in Seq(Entry), NEW e \in Entry
  PROVE  /\ \A i \in 0..Len(sales) : ReportRows(pending, Append(sales, e))[i] = ReportRows(pending, sales)[i]
         /\ ReportRows(pending, Append(sales, e))[Len(sales) + 1] =
              FifoRow(ReportRows(pending, sales)[Len(sales)], e)
  <1> DEFINE n == Len(sales)
             all == Append(sales, e)
             rows == ReportRows(pending, sales)
             more == ReportRows(pending, all)
             T == {i \in 0..n : more[i] # rows[i]}
  <1>1. n \in Nat /\ n + 1 \in Nat /\ Len(all) = n + 1 /\ all[n + 1] = e /\ \A i \in 1..n : all[i] = sales[i]
    BY SalesAre, AppendedEntry
  <1>2. /\ rows[0] = [lots |-> pending, cost |-> 0, failed |-> FALSE]
        /\ \A i \in 1..n : rows[i] = FifoRow(rows[i - 1], sales[i])
    BY <1>1, ReportStep
  <1>3. /\ more[0] = [lots |-> pending, cost |-> 0, failed |-> FALSE]
        /\ \A i \in 1..(n + 1) : more[i] = FifoRow(more[i - 1], all[i])
    <2> PICK k : k = n + 1
      OBVIOUS
    <2> HIDE DEF n, all, rows
    <2>1. k \in Nat /\ Len(all) = k
      BY <1>1
    <2> HIDE DEF more
    <2>2. /\ ReportRows(pending, all)[0] = [lots |-> pending, cost |-> 0, failed |-> FALSE]
          /\ \A i \in 1..k : ReportRows(pending, all)[i] = FifoRow(ReportRows(pending, all)[i - 1], all[i])
      BY ONLY <2>1, ReportStep
    <2> QED
      BY <2>2 DEF more
  <1> HIDE DEF n, all, rows, more
  <1>4. 0 \notin T
    BY <1>2, <1>3
  <1>5. ASSUME NEW i \in 1..n, i - 1 \notin T PROVE i \notin T
    <2>1. more[i - 1] = rows[i - 1] /\ i \in 1..(n + 1)
      BY <1>1, <1>5
    <2>2. more[i] = rows[i]
      BY <1>1, <1>2, <1>3, <2>1
    <2> QED
      BY <2>2
  <1>6. T = {}
    <2>1. T \in SUBSET (0..n)
      OBVIOUS
    <2> HIDE DEF T
    <2> QED
      BY <1>1, <1>4, <1>5, <2>1, UpTo
  <1>7. \A i \in 0..n : more[i] = rows[i]
    BY <1>6
  <1>8. more[n + 1] = FifoRow(rows[n], e)
    <2>1. n + 1 \in 1..(n + 1) /\ (n + 1) - 1 = n /\ n \in 0..n
      BY <1>1
    <2>2. more[n + 1] = FifoRow(more[n], all[n + 1])
      BY <1>3, <2>1
    <2> QED
      BY <1>1, <1>7, <2>1, <2>2
  <1> QED
    BY <1>7, <1>8 DEF n, all, rows, more

\* What was bought.
LEMMA PendingAre ==
  ASSUME NEW queue \in Seq(Lot)
  PROVE  /\ PendingLots(queue) \in Seq(Lot) /\ Len(PendingLots(queue)) = Len(queue)
         /\ \A i \in 1..Len(queue) :
              PendingLots(queue)[i] = [at |-> queue[i].at, price |-> queue[i].price,
                                       open |-> queue[i].open, left |-> queue[i].open]
  <1> DEFINE len == Len(queue)
             all == PendingLots(queue)
             whole(i) == [at |-> queue[i].at, price |-> queue[i].price,
                          open |-> queue[i].open, left |-> queue[i].open]
  <1>1. len \in Nat /\ DOMAIN queue = 1..len /\ \A i \in 1..len : queue[i] \in Lot
    BY LotsAreCounted
  <1>2. /\ all = [i \in 1..len |-> all[i]]
        /\ \A i \in 1..len : all[i] = [queue[i] EXCEPT !.left = queue[i].open]
    BY <1>1 DEF PendingLots
  <1>3. ASSUME NEW i \in 1..len PROVE all[i] = whole(i) /\ whole(i) \in Lot
    <2> PICK q : q = queue[i]
      OBVIOUS
    <2>1. q \in Lot /\ all[i] = [q EXCEPT !.left = q.open]
      BY <1>1, <1>2
    <2>2. [q EXCEPT !.left = q.open] = [at |-> q.at, price |-> q.price, open |-> q.open, left |-> q.open]
      BY <2>1 DEF Lot
    <2>3. [at |-> q.at, price |-> q.price, open |-> q.open, left |-> q.open] \in Lot
      BY <2>1 DEF Lot
    <2> HIDE DEF all
    <2> QED
      BY <2>1, <2>2, <2>3
  <1> HIDE DEF all
  <1>4. all \in [1..len -> Lot]
    <2>1. \A i \in 1..len : all[i] \in Lot
      BY <1>3
    <2> QED
      BY ONLY <1>2, <2>1
  <1>5. all \in Seq(Lot) /\ Len(all) = len
    BY <1>1, <1>4, Listed
  <1> QED
    BY <1>3, <1>5 DEF all

LEMMA PendingOfConsumed ==
  ASSUME NEW queue \in Seq(Lot), NEW n \in Nat
  PROVE  PendingLots(Consumed(queue, n)) = PendingLots(queue)
  <1> PICK rest : rest = Consumed(queue, n)
    OBVIOUS
  <1>1. /\ rest \in Seq(Lot) /\ Len(rest) = Len(queue)
        /\ \A i \in 1..Len(queue) : /\ rest[i].at = queue[i].at /\ rest[i].price = queue[i].price
                                    /\ rest[i].open = queue[i].open
    BY ConsumedIs
  <1>2. /\ PendingLots(rest) \in Seq(Lot) /\ Len(PendingLots(rest)) = Len(rest)
        /\ \A i \in 1..Len(rest) :
             PendingLots(rest)[i] = [at |-> rest[i].at, price |-> rest[i].price,
                                     open |-> rest[i].open, left |-> rest[i].open]
    BY <1>1, PendingAre
  <1>3. /\ PendingLots(queue) \in Seq(Lot) /\ Len(PendingLots(queue)) = Len(queue)
        /\ \A i \in 1..Len(queue) :
             PendingLots(queue)[i] = [at |-> queue[i].at, price |-> queue[i].price,
                                      open |-> queue[i].open, left |-> queue[i].open]
    BY PendingAre
  <1>4. \A i \in 1..Len(queue) : PendingLots(rest)[i] = PendingLots(queue)[i]
    BY <1>1, <1>2, <1>3, Zenon
  <1> QED
    BY <1>1, <1>2, <1>3, <1>4, SameLots

LEMMA PendingOfAppended ==
  ASSUME NEW queue \in Seq(Lot), NEW lot \in Lot, lot.left = lot.open
  PROVE  PendingLots(Append(queue, lot)) = Append(PendingLots(queue), lot)
  <1> PICK all : all = Append(queue, lot)
    OBVIOUS
  <1> PICK p : p = PendingLots(queue)
    OBVIOUS
  <1> PICK len : len = Len(queue)
    OBVIOUS
  <1>1. /\ all \in Seq(Lot) /\ Len(all) = len + 1 /\ len \in Nat
        /\ \A i \in 1..len : all[i] = queue[i]
        /\ all[len + 1] = lot
    BY AppendedLot
  <1>2. /\ p \in Seq(Lot) /\ Len(p) = len
        /\ \A i \in 1..len : p[i] = [at |-> queue[i].at, price |-> queue[i].price,
                                     open |-> queue[i].open, left |-> queue[i].open]
    BY PendingAre
  <1>3. /\ PendingLots(all) \in Seq(Lot) /\ Len(PendingLots(all)) = len + 1
        /\ \A i \in 1..(len + 1) : PendingLots(all)[i] = [at |-> all[i].at, price |-> all[i].price,
                                                          open |-> all[i].open, left |-> all[i].open]
    BY <1>1, PendingAre
  <1>4. /\ Append(p, lot) \in Seq(Lot) /\ Len(Append(p, lot)) = len + 1
        /\ \A i \in 1..len : Append(p, lot)[i] = p[i]
        /\ Append(p, lot)[len + 1] = lot
    BY <1>2, AppendedLot
  <1>5. ASSUME NEW i \in 1..(len + 1) PROVE PendingLots(all)[i] = Append(p, lot)[i]
    <2>1. CASE i \in 1..len
      BY <1>1, <1>2, <1>3, <1>4, <2>1
    <2>2. CASE i = len + 1
      <3>1. lot = [at |-> lot.at, price |-> lot.price, open |-> lot.open, left |-> lot.open]
        BY DEF Lot
      <3>2. PendingLots(all)[i] = [at |-> lot.at, price |-> lot.price, open |-> lot.open, left |-> lot.open]
        BY <1>1, <1>3, <2>2
      <3> QED
        BY <1>4, <2>2, <3>1, <3>2
    <2>3. len \in Nat
      BY <1>1
    <2>4. i \in 1..len \/ i = len + 1
      BY ONLY <2>3, i \in 1..(len + 1)
    <2> QED
      BY ONLY <2>1, <2>2, <2>4
  <1> QED
    BY <1>3, <1>4, <1>5, SameLots

LEMMA CostOfMore ==
  ASSUME NEW sales \in Seq(Entry), NEW e \in Entry
  PROVE  /\ LedgerCost(sales) \in Nat
         /\ LedgerCost(Append(sales, e)) = LedgerCost(sales) + e.basis
  <1>1. \A x : LedgerCost(x) = Total(Bases(x))
    BY DEF LedgerCost, Bases
  <1>2. Total(Bases(Append(sales, e))) = Total(Bases(sales)) + e.basis
    BY SumsOfAppended
  <1>3. Total(Bases(sales)) \in Nat
    BY EntriesAreCounted
  <1> QED
    BY <1>1, <1>2, <1>3

\* The report of some sells leaves the lots that the ledger left, and gives
\* the sells the cost they were booked with.
Agrees(queue, sales) ==
  ReportRows(PendingLots(queue), sales)[Len(sales)] =
    [lots |-> queue, cost |-> LedgerCost(sales), failed |-> FALSE]

LEMMA SaleAgrees ==
  ASSUME NEW queue \in Seq(Lot), NEW sales \in Seq(Entry), NEW e \in Entry, Agrees(queue, sales),
         \A i \in 1..Len(queue) : queue[i].at <= e.at,
         e.quantity <= LeftIn(queue), e.basis = CostBasis(queue, e.quantity)
  PROVE  Agrees(Consumed(queue, e.quantity), Append(sales, e))
  <1> PICK pending : pending = PendingLots(queue)
    OBVIOUS
  <1> PICK n : n = Len(sales)
    OBVIOUS
  <1> PICK r : r = ReportRows(pending, sales)[n]
    OBVIOUS
  <1>1. n \in Nat /\ Len(Append(sales, e)) = n + 1 /\ e.quantity \in Nat
    BY SalesAre, AppendedEntry DEF Entry
  <1>2. /\ LedgerCost(sales) \in Nat
        /\ LedgerCost(Append(sales, e)) = LedgerCost(sales) + e.basis
    BY CostOfMore
  <1>3. r = [lots |-> queue, cost |-> LedgerCost(sales), failed |-> FALSE]
    BY DEF Agrees
  <1>4. r \in Report /\ r.lots = queue /\ r.cost = LedgerCost(sales) /\ r.failed = FALSE
    BY <1>2, <1>3 DEF Report
  <1>5. Total(ActiveUnits(queue, e)) = LeftIn(queue) /\ LeftIn(queue) \in Nat
    BY ActiveUnitsAre, LotsAreCounted
  <1>6. ~Fails(r, e)
    BY <1>1, <1>4, <1>5 DEF Fails
  <1>7. FifoRow(r, e) = [lots |-> Consumed(queue, e.quantity),
                         cost |-> LedgerCost(sales) + e.basis, failed |-> FALSE]
    <2>1. FifoRow(r, e) = [lots |-> Consumed(r.lots, e.quantity),
                           cost |-> r.cost + CostBasis(r.lots, e.quantity), failed |-> FALSE]
      BY <1>4, <1>6, FifoRowIs
    <2> QED
      BY <1>4, <2>1
  <1>8. ReportRows(pending, Append(sales, e))[n + 1] = FifoRow(r, e)
    BY RowsOfMoreSales
  <1>9. PendingLots(Consumed(queue, e.quantity)) = pending
    BY <1>1, PendingOfConsumed
  <1> QED
    BY <1>1, <1>2, <1>7, <1>8, <1>9 DEF Agrees

LEMMA BuyAgrees ==
  ASSUME NEW queue \in Seq(Lot), NEW lot \in Lot, NEW sales \in Seq(Entry), Agrees(queue, sales),
         lot.left = lot.open, \A i \in 1..Len(sales) : sales[i].at < lot.at
  PROVE  Agrees(Append(queue, lot), sales)
  <1> PICK n : n = Len(sales)
    OBVIOUS
  <1> PICK pending : pending = PendingLots(queue)
    OBVIOUS
  <1>1. n \in Nat /\ n \in 0..n
    BY SalesAre
  <1>2. pending \in Seq(Lot) /\ PendingLots(Append(queue, lot)) = Append(pending, lot)
    BY PendingAre, PendingOfAppended
  <1>3. ReportRows(Append(pending, lot), sales)[n] = WithLot(ReportRows(pending, sales)[n], lot)
    BY <1>1, <1>2, RowsWithLot
  <1>4. ReportRows(pending, sales)[n] = [lots |-> queue, cost |-> LedgerCost(sales), failed |-> FALSE]
    BY DEF Agrees
  <1>5. WithLot([lots |-> queue, cost |-> LedgerCost(sales), failed |-> FALSE], lot) =
          [lots |-> Append(queue, lot), cost |-> LedgerCost(sales), failed |-> FALSE]
    BY DEF WithLot
  <1> QED
    BY <1>2, <1>3, <1>4, <1>5 DEF Agrees

LEMMA NothingAgrees == Agrees(<<>>, <<>>)
  <1> PICK none : none = <<>>
    OBVIOUS
  <1>1. none \in Seq(Lot) /\ none \in Seq(Entry) /\ Len(none) = 0
    BY EmptySeq
  <1>2. PendingLots(none) \in Seq(Lot) /\ Len(PendingLots(none)) = 0
    BY <1>1, PendingAre
  <1>3. PendingLots(none) = none
    BY <1>1, <1>2, EmptySeq
  <1>4. ReportRows(none, none)[0] = [lots |-> none, cost |-> 0, failed |-> FALSE]
    BY <1>1, ReportStep
  <1>5. LedgerCost(none) = 0
    BY NoEntries DEF LedgerCost, Bases
  <1> QED
    BY <1>1, <1>3, <1>4, <1>5 DEF Agrees

\* The sequences of all elements of a set of executions, by time.
InOrder(S) ==
  {sales \in SetToSeqs(S) : \A i, j \in DOMAIN sales : i < j => sales[i].at <= sales[j].at}

LEMMA SameEntries ==
  ASSUME NEW sales \in Seq(Entry), NEW other \in Seq(Entry), Len(sales) = Len(other),
         \A i \in 1..Len(sales) : sales[i] = other[i]
  PROVE  sales = other
  <1>1. /\ sales = [i \in 1..Len(sales) |-> sales[i]] /\ other = [i \in 1..Len(sales) |-> other[i]]
    BY LenProperties
  <1> QED
    BY <1>1

LEMMA InOrderIs ==
  ASSUME NEW S \in SUBSET Entry, IsFiniteSet(S), NEW sales \in InOrder(S)
  PROVE  /\ Cardinality(S) \in Nat /\ sales \in [1..Cardinality(S) -> S]
         /\ \A i, j \in 1..Cardinality(S) : i # j => sales[i] # sales[j]
         /\ \A i, j \in 1..Cardinality(S) : i < j => sales[i].at <= sales[j].at
         /\ sales \in Seq(Entry) /\ Len(sales) = Cardinality(S)
         /\ \A i \in 1..Len(sales) : sales[i] \in S
  <1> DEFINE n == Cardinality(S)
  <1>1. n \in Nat
    BY FS_CardinalityType
  <1>2. sales \in [1..n -> S] /\ \A i, j \in 1..n : i # j => sales[i] # sales[j]
    BY DEF InOrder, SetToSeqs
  <1>3. \A i, j \in DOMAIN sales : i < j => sales[i].at <= sales[j].at
    BY DEF InOrder
  <1> HIDE DEF n
  <1>4. \A i, j \in 1..n : i < j => sales[i].at <= sales[j].at
    BY <1>2, <1>3
  <1>5. sales \in [1..n -> Entry]
    BY <1>2
  <1>6. sales \in Seq(Entry) /\ Len(sales) = n
    BY <1>1, <1>5, Listed
  <1>7. \A i \in 1..Len(sales) : sales[i] \in S
    BY <1>2, <1>6
  <1> QED
    BY <1>1, <1>2, <1>4, <1>6, <1>7 DEF n

LEMMA InOrderOfNone ==
  ASSUME NEW sales \in InOrder({})
  PROVE  sales = <<>>
  <1>1. IsFiniteSet({}) /\ Cardinality({}) = 0
    BY FS_EmptySet
  <1>2. sales \in Seq(Entry) /\ Len(sales) = 0
    BY <1>1, InOrderIs
  <1> QED
    BY <1>2, EmptySeq

\* The youngest comes last.
LEMMA LastInOrder ==
  ASSUME NEW S \in SUBSET Entry, IsFiniteSet(S), NEW e \in Entry, \A x \in S : x.at < e.at,
         NEW sales \in InOrder(S \cup {e})
  PROVE  \E front \in InOrder(S) : front \in Seq(Entry) /\ sales = Append(front, e)
  <1> PICK n : n = Cardinality(S)
    OBVIOUS
  <1> PICK U : U = S \cup {e}
    OBVIOUS
  <1>1. n \in Nat /\ IsFiniteSet(U) /\ U \in SUBSET Entry
    BY FS_CardinalityType, FS_AddElement
  <1>2. e \notin S
    <2>1. e.at \in Nat /\ ~(e.at < e.at)
      BY DEF Entry
    <2> QED
      BY <2>1
  <1>3. Cardinality(U) = n + 1
    BY <1>2, FS_AddElement
  <1>4. /\ sales \in [1..(n + 1) -> U] /\ \A i, j \in 1..(n + 1) : i # j => sales[i] # sales[j]
        /\ \A i, j \in 1..(n + 1) : i < j => sales[i].at <= sales[j].at
        /\ sales \in Seq(Entry) /\ Len(sales) = n + 1
    BY <1>1, <1>3, InOrderIs
  <1>5. /\ n + 1 \in 1..(n + 1) /\ \A i \in 1..n : i \in 1..(n + 1) /\ i < n + 1 /\ i # n + 1
        /\ \A i \in 1..(n + 1) : i \in 1..n \/ i = n + 1
    BY <1>1
  <1>6. sales[n + 1] = e
    <2> SUFFICES ASSUME sales[n + 1] # e PROVE FALSE
      OBVIOUS
    <2>1. sales[n + 1] \in S
      BY <1>4, <1>5
    <2>2. ASSUME NEW k \in 1..n, sales[k] = e PROVE FALSE
      <3>1. e.at <= sales[n + 1].at
        BY <1>4, <1>5, <2>2
      <3>2. sales[n + 1].at < e.at
        BY <2>1
      <3>3. sales[n + 1].at \in Nat /\ e.at \in Nat
        BY <2>1 DEF Entry
      <3> QED
        BY ONLY <3>1, <3>2, <3>3
    <2>3. \A i \in 1..(n + 1) : sales[i] \in S
      BY <1>4, <1>5, <2>1, <2>2
    <2>4. sales \in [1..(n + 1) -> S]
      BY <1>4, <2>3
    <2>5. IsFiniteSet(1..(n + 1)) /\ Cardinality(1..(n + 1)) = n + 1
      <3>1. 1 \in Int /\ n + 1 \in Int /\ ~(1 > n + 1) /\ (n + 1) - 1 + 1 = n + 1
        BY <1>1
      <3> QED
        BY <3>1, FS_Interval
    <2>6. Cardinality(S) < Cardinality(1..(n + 1))
      BY <1>1, <2>5
    <2> PICK D : D = 1..(n + 1)
      OBVIOUS
    <2>7. /\ IsFiniteSet(D) /\ IsFiniteSet(S) /\ Cardinality(S) < Cardinality(D)
          /\ sales \in [D -> S]
      BY <2>4, <2>5, <2>6
    <2>8. \E x, y \in D : x # y /\ sales[x] = sales[y]
      BY ONLY <2>7, FS_PigeonHole
    <2> QED
      BY <1>4, <2>8
  <1> DEFINE front == [i \in 1..n |-> sales[i]]
  <1>7. \A i \in 1..n : front[i] = sales[i] /\ sales[i] \in S
    <2>1. \A i \in 1..n : sales[i] # e /\ sales[i] \in U
      BY <1>4, <1>5, <1>6
    <2> QED
      BY <2>1
  <1>8. front \in [1..n -> S] /\ DOMAIN front = 1..n
    BY <1>7
  <1> HIDE DEF front
  <1>9. front \in SetToSeqs(S)
    <2>1. \A i, j \in 1..n : i # j => front[i] # front[j]
      BY <1>4, <1>5, <1>7
    <2> QED
      BY <1>8, <2>1 DEF SetToSeqs
  <1>10. front \in InOrder(S)
    <2>1. \A i, j \in 1..n : i < j => front[i].at <= front[j].at
      BY <1>4, <1>5, <1>7
    <2> QED
      BY <1>8, <1>9, <2>1 DEF InOrder
  <1>11. front \in Seq(Entry) /\ Len(front) = n
    BY <1>10, InOrderIs
  <1>12. sales = Append(front, e)
    <2> PICK all : all = Append(front, e)
      OBVIOUS
    <2>1. /\ all \in Seq(Entry) /\ Len(all) = n + 1
          /\ \A i \in 1..n : all[i] = front[i]
          /\ all[n + 1] = e
      BY <1>11, AppendedEntry
    <2>2. \A i \in 1..(n + 1) : sales[i] = all[i]
      BY <1>5, <1>6, <1>7, <2>1
    <2> QED
      BY <1>4, <2>1, <2>2, SameEntries
  <1> QED
    BY <1>10, <1>11, <1>12

\* The report of all sells of a strategy, in whatever order those of a time
\* come, ends with its lots.
ReportInv ==
  \A s \in Strategies :
    /\ IsFiniteSet(SellsOf(s))
    /\ \A sales \in InOrder(SellsOf(s)) : Agrees(lots[s], sales)

LEMMA InitReport ==
  ASSUME Init
  PROVE  ReportInv
  <1> SUFFICES ASSUME NEW s \in Strategies
               PROVE  /\ IsFiniteSet(SellsOf(s))
                      /\ \A sales \in InOrder(SellsOf(s)) : Agrees(lots[s], sales)
    BY DEF ReportInv
  <1>1. lots[s] = <<>>
    BY DEF Init
  <1>2. SellsOf(s) = {}
    BY InitTime
  <1>3. ASSUME NEW sales \in InOrder({}) PROVE Agrees(lots[s], sales)
    <2>1. sales = <<>>
      BY InOrderOfNone
    <2> QED
      BY <1>1, <2>1, NothingAgrees
  <1> QED
    BY <1>2, <1>3, FS_EmptySet

LEMMA SameReport ==
  ASSUME ReportInv, lots' = lots, \A s \in Strategies : SellsOf(s)' = SellsOf(s)
  PROVE  ReportInv'
  BY DEF ReportInv

LEMMA BookingKeepsReport ==
  ASSUME BookInv, LotsInv, TimeInv, ReportInv, ProcessFill, ~Raises(Ledger, Head(fills))
  PROVE  ReportInv'
  <1> PICK f : f = Head(fills)
    OBVIOUS
  <1> PICK s : s = orders[f.order].strategy
    OBVIOUS
  <1> PICK queue : queue = lots[s]
    OBVIOUS
  <1> PICK S : S = SellsOf(s)
    OBVIOUS
  <1>1. s \in Strategies /\ queue \in Seq(Lot) /\ f.at \in Nat /\ NewerThan(s, f.at)
    BY BookingIsLast
  <1>2. PICK lot, e : lot.at = f.at /\ e.at = f.at /\ BookedAs(s, lot, e)
    BY BookingIsLast, Zenon
  <1>3. lot \in Lot /\ lot.left = lot.open /\ e \in Entry
    BY <1>2 DEF BookedAs
  <1>4. IsFiniteSet(S) /\ S \in SUBSET Entry /\ \A sales \in InOrder(S) : Agrees(queue, sales)
    <2>1. S \in SUBSET Entry
      BY SellsAreEntries DEF BookInv
    <2> QED
      BY <1>1, <2>1, Zenon DEF ReportInv
  <1>5. /\ \A i \in 1..Len(queue) : queue[i].at <= f.at
        /\ \A x \in S : x.at < f.at
    <2>1. \A i \in 1..Len(queue) : queue[i].at \in Nat /\ queue[i].at < f.at
      BY <1>1, LotsAreCounted DEF NewerThan
    <2>2. \A x \in Nat : x < f.at => x <= f.at
      BY <1>1
    <2> QED
      BY <1>1, <2>1, <2>2 DEF NewerThan
  <1>6. IsFiniteSet(SellsOf(s)') /\ \A sales \in InOrder(SellsOf(s)') : Agrees(lots'[s], sales)
    <2>1. CASE lots'[s] = Append(queue, lot) /\ SellsOf(s)' = S
      <3>1. ASSUME NEW sales \in InOrder(S) PROVE Agrees(lots'[s], sales)
        <4>1. sales \in Seq(Entry) /\ \A i \in 1..Len(sales) : sales[i] \in S
          BY <1>4, InOrderIs
        <4>2. \A i \in 1..Len(sales) : sales[i].at < lot.at
          BY <1>2, <1>5, <4>1
        <4>3. Agrees(Append(queue, lot), sales)
          BY <1>1, <1>3, <1>4, <4>1, <4>2, BuyAgrees, Zenon
        <4> QED
          BY <2>1, <4>3
      <3> QED
        BY <1>4, <2>1, <3>1, Zenon
    <2>2. CASE /\ lots'[s] = Consumed(queue, e.quantity) /\ SellsOf(s)' = S \cup {e}
               /\ e.quantity <= LeftIn(queue) /\ e.basis = CostBasis(queue, e.quantity)
      <3>1. ASSUME NEW sales \in InOrder(S \cup {e}) PROVE Agrees(lots'[s], sales)
        <4>1. /\ S \in SUBSET Entry /\ IsFiniteSet(S) /\ e \in Entry /\ \A x \in S : x.at < e.at
              /\ sales \in InOrder(S \cup {e})
          BY <1>2, <1>3, <1>4, <1>5
        <4>2. PICK front \in InOrder(S) : front \in Seq(Entry) /\ sales = Append(front, e)
          BY ONLY <4>1, LastInOrder, Zenon
        <4>3. /\ queue \in Seq(Lot) /\ front \in Seq(Entry) /\ e \in Entry /\ Agrees(queue, front)
              /\ \A i \in 1..Len(queue) : queue[i].at <= e.at
              /\ e.quantity <= LeftIn(queue) /\ e.basis = CostBasis(queue, e.quantity)
          BY <1>1, <1>2, <1>3, <1>4, <1>5, <2>2, <4>2
        <4>4. Agrees(Consumed(queue, e.quantity), Append(front, e))
          BY ONLY <4>3, SaleAgrees
        <4> QED
          BY <2>2, <4>2, <4>4, Zenon
      <3>2. IsFiniteSet(S \cup {e})
        BY <1>4, FS_AddElement
      <3> QED
        BY <2>2, <3>1, <3>2, Zenon
    <2> QED
      BY <1>2, <2>1, <2>2, Zenon DEF BookedAs
  <1>7. ASSUME NEW t \in Strategies
        PROVE  IsFiniteSet(SellsOf(t)') /\ \A sales \in InOrder(SellsOf(t)') : Agrees(lots'[t], sales)
    <2>1. CASE t # s
      <3>1. lots'[t] = lots[t] /\ SellsOf(t)' = SellsOf(t)
        BY <1>2, <2>1 DEF BookedAs
      <3> QED
        BY <3>1, Zenon DEF ReportInv
    <2> QED
      BY <1>6, <2>1
  <1> QED
    BY <1>7 DEF ReportInv

LEMMA ReportIsKept ==
  ASSUME BookInv, LotsInv, TimeInv, ReportInv, [Next]_vars
  PROVE  ReportInv'
  <1>1. ASSUME NEW s \in Strategies, NEW side \in {"buy", "sell"}, NEW n \in 1..MaxUnits,
               SubmitOrder(s, side, n)
        PROVE  ReportInv'
    <2>1. lots' = lots
      BY <1>1 DEF SubmitOrder, ledgerVars
    <2>2. \A t \in Strategies : SellsOf(t)' = SellsOf(t)
      BY <1>1, SubmitSells
    <2> QED
      BY <2>1, <2>2, SameReport
  <1>2. ASSUME lots' = lots, orders' = orders, executions' = executions PROVE ReportInv'
    <2>1. \A t \in Strategies : SellsOf(t)' = SellsOf(t)
      BY <1>2, SameSells
    <2> QED
      BY <1>2, <2>1, SameReport
  <1>3. ASSUME NEW n \in DOMAIN book, NEW p \in Prices, BrokerFill(n, p) PROVE ReportInv'
    BY <1>2, <1>3 DEF BrokerFill, ledgerVars
  <1>4. CASE CollectFills
    BY <1>2, <1>4 DEF CollectFills, ledgerVars
  <1>5. CASE ProcessFill /\ ~Raises(Ledger, Head(fills))
    BY <1>5, BookingKeepsReport
  <1>6. CASE FewerFills
    BY <1>2, <1>6 DEF FewerFills
  <1> QED
    BY <1>1, <1>3, <1>4, <1>5, <1>6, NextSteps

\* The sells up to now are all sells.
LEMMA SalesUpToNow ==
  ASSUME TablesInv, RowsInv, TimeInv, NEW s \in Strategies
  PROVE  Sales(s, 0, clock + 1) = InOrder(SellsOf(s))
  <1>1. SellsOf(s) \in SUBSET Entry
    BY SellsAreEntries
  <1>2. \A e \in SellsOf(s) : 0 <= e.at /\ e.at < clock + 1
    <2>1. \A e \in SellsOf(s) : e.at \in Nat /\ e.at < clock + 1
      BY <1>1 DEF TimeInv, NewerThan, Entry
    <2> QED
      BY <2>1
  <1>3. SellsOf(s) = UNION {ToSet(executions[o]) : o \in {p \in DOMAIN orders : IsOf(p, s, "sell")}}
    BY DEF SellsOf, SellsIn, IsOf
  <1>4. SellTrades(s, 0, clock + 1) = SellsOf(s)
    BY <1>2, <1>3 DEF SellTrades
  <1> QED
    BY <1>4 DEF Sales, InOrder

(* build_trade_report() over all sells of a strategy does not fail, and puts *)
(* the cost on them that _apply_sell() booked, for every order in which the  *)
(* fills of any number of strategies are polled, dropped and booked.         *)
THEOREM ReportIsRight == Spec => []ReportMatchesLedger
  <1>1. Init => ReportInv
    BY InitReport
  <1>2. LedgerInv /\ ReportInv /\ [Next]_vars => ReportInv'
    BY ReportIsKept DEF LedgerInv
  <1>3. LedgerInv /\ ReportInv => ReportMatchesLedger
    <2> SUFFICES ASSUME BookInv, TimeInv, ReportInv, NEW s \in Strategies,
                        NEW sales \in Sales(s, 0, clock + 1)
                 PROVE  LET report == TradeReport(s, sales) IN
                        ~report.failed /\ report.cost = LedgerCost(sales)
      BY DEF ReportMatchesLedger, LedgerInv
    <2>1. sales \in InOrder(SellsOf(s))
      BY SalesUpToNow DEF BookInv
    <2>2. Agrees(lots[s], sales)
      BY <2>1 DEF ReportInv
    <2>3. TradeReport(s, sales) = [lots |-> lots[s], cost |-> LedgerCost(sales), failed |-> FALSE]
      BY <2>2 DEF Agrees, TradeReport
    <2> QED
      BY <2>3
  <1> QED
    BY <1>1, <1>2, <1>3, LedgerIsKept, PTL DEF Spec
=============================================================================
