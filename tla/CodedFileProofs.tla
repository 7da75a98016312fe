---------------------------- MODULE CodedFileProofs ----------------------------
(***************************************************************************)
(* Proofs about a coded file, for every size of file and every value of    *)
(* the constants: what determine_shard_size returns and what               *)
(* prepare_upload_state counts from it, that the two ends of a coded file  *)
(* agree on its code, that recovery never fails on what can_recover_shards *)
(* accepts, that nothing is written over a shard that was fetched, and     *)
(* that every shard keeps the length and the range of its bytes whatever   *)
(* the code computes.                                                      *)
(***************************************************************************)
EXTENDS CodedFile, TLAPS, FiniteSetTheorems, SequenceTheorems, WellFoundedInduction

-----------------------------------------------------------------------------
(* Natural numbers.                                                        *)

LEMMA LeastMember ==
  ASSUME NEW S \in SUBSET Nat, S # {}
  PROVE  \E x \in S : \A y \in S : x <= y
<1> DEFINE T == {0..n : n \in S}
<1>1. ASSUME NEW n \in S PROVE IsFiniteSet(0..n) /\ 0..n \subseteq Nat
  BY FS_Interval
<1>2. T \subseteq FiniteSubsetsOf(Nat) /\ T # {}
  BY <1>1 DEF FiniteSubsetsOf
<1>3. PICK t \in T : \A u \in T : ~ (<<u, t>> \in StrictSubsetOrdering(Nat))
  <2>1. IsWellFoundedOn(StrictSubsetOrdering(Nat), FiniteSubsetsOf(Nat))
    BY FS_StrictSubsetOrderingWellFounded
  <2> HIDE DEF T
  <2> QED
    BY <1>2, <2>1, WFMin
<1>4. PICK x \in S : t = 0..x
  OBVIOUS
<1>5. ASSUME NEW y \in S PROVE x <= y
  <2>1. SUFFICES ASSUME y < x PROVE FALSE
    OBVIOUS
  <2>2. 0..y \subseteq 0..x /\ x \in 0..x /\ x \notin 0..y
    BY <2>1
  <2>3. <<0..y, t>> \in StrictSubsetOrdering(Nat)
    BY <2>2, <1>4, <1>1 DEF StrictSubsetOrdering
  <2> QED
    BY <1>3, <2>3
<1> QED
  BY <1>5

(* Induction, over a set: what no operator parameter is needed for.        *)
LEMMA NatSetInduction ==
  ASSUME NEW S \in SUBSET Nat, 0 \in S, \A n \in S : n + 1 \in S
  PROVE  \A n \in Nat : n \in S
<1>1. SUFFICES ASSUME Nat \ S # {} PROVE FALSE
  OBVIOUS
<1>2. PICK x \in Nat \ S : \A y \in Nat \ S : x <= y
  <2>1. Nat \ S \in SUBSET Nat
    OBVIOUS
  <2> QED
    BY <1>1, <2>1, LeastMember
<1>3. x # 0
  OBVIOUS
<1>4. x - 1 \in Nat /\ ~ (x <= x - 1) /\ (x - 1) + 1 = x
  BY <1>3
<1>5. x - 1 \in S
  BY <1>2, <1>4
<1> QED
  BY <1>4, <1>5

-----------------------------------------------------------------------------
(* The powers of 2.                                                        *)

(* A beginning of PowerOf2, up to n. *)
Begins(g, n) ==
  g[0] = 1 /\ \A i \in 1..n : g[i] = 2 * g[i - 1]

LEMMA BeginningsAgree ==
  ASSUME NEW g, NEW h, NEW n \in Nat, NEW m \in Nat, Begins(g, n), Begins(h, m)
  PROVE  \A i \in Nat : i <= n /\ i <= m => g[i] = h[i]
<1> DEFINE S == {i \in Nat : i <= n /\ i <= m => g[i] = h[i]}
<1>1. 0 \in S
  BY DEF Begins
<1>2. ASSUME NEW i \in S PROVE i + 1 \in S
  <2>1. SUFFICES ASSUME i + 1 <= n, i + 1 <= m PROVE g[i + 1] = h[i + 1]
    OBVIOUS
  <2>2. g[i] = h[i] /\ i + 1 \in 1..n /\ i + 1 \in 1..m /\ (i + 1) - 1 = i
    BY <2>1
  <2> QED
    BY <2>2 DEF Begins
<1>3. \A i \in Nat : i \in S
  <2> HIDE DEF S
  <2>1. S \in SUBSET Nat
    BY DEF S
  <2> QED
    BY <1>1, <1>2, <2>1, NatSetInduction
<1> QED
  BY <1>3

LEMMA PowersBegin ==
  \A n \in Nat : \E g \in [0..n -> Nat] : Begins(g, n)
<1> DEFINE S == {n \in Nat : \E g \in [0..n -> Nat] : Begins(g, n)}
<1>1. 0 \in S
  <2>1. [i \in 0..0 |-> 1] \in [0..0 -> Nat] /\ Begins([i \in 0..0 |-> 1], 0)
    BY DEF Begins
  <2> QED
    BY <2>1
<1>2. ASSUME NEW n \in S PROVE n + 1 \in S
  <2>1. PICK g \in [0..n -> Nat] : Begins(g, n)
    OBVIOUS
  <2>2. PICK h : h = [i \in 0..(n + 1) |-> IF i = n + 1 THEN 2 * g[n] ELSE g[i]]
    OBVIOUS
  <2>3. h \in [0..(n + 1) -> Nat]
    BY <2>2
  <2>4. ASSUME NEW i \in 1..(n + 1) PROVE h[i] = 2 * h[i - 1]
    <3>1. CASE i = n + 1
      BY <2>2, <3>1
    <3>2. CASE i # n + 1
      <4>1. i \in 1..n /\ i \in 0..(n + 1) /\ i - 1 \in 0..(n + 1) /\ i - 1 # n + 1
        BY <3>2
      <4> QED
        BY <2>1, <2>2, <3>2, <4>1 DEF Begins
    <3> QED
      BY <3>1, <3>2
  <2>5. h[0] = 1
    BY <2>1, <2>2 DEF Begins
  <2>6. Begins(h, n + 1)
    BY <2>4, <2>5 DEF Begins
  <2>7. n + 1 \in Nat
    OBVIOUS
  <2> QED
    BY <2>3, <2>6, <2>7
<1>3. \A n \in Nat : n \in S
  <2> HIDE DEF S
  <2>1. S \in SUBSET Nat
    BY DEF S
  <2> QED
    BY <1>1, <1>2, <2>1, NatSetInduction
<1> QED
  BY <1>3

(* PowerOf2 is what its equation says.                                     *)
LEMMA PowerOf2Equation ==
  /\ Cut!PowerOf2 \in [Nat -> Nat]
  /\ Cut!PowerOf2[0] = 1
  /\ \A n \in Nat : Cut!PowerOf2[n + 1] = 2 * Cut!PowerOf2[n]
<1> DEFINE Value(n) == CHOOSE v \in Nat : \E g \in [0..n -> Nat] : Begins(g, n) /\ v = g[n]
           F == [n \in Nat |-> Value(n)]
<1>1. ASSUME NEW n \in Nat, NEW g \in [0..n -> Nat], Begins(g, n)
      PROVE  Value(n) = g[n]
  <2>1. \A h \in [0..n -> Nat] : Begins(h, n) => h[n] = g[n]
    BY <1>1, BeginningsAgree
  <2>2. g[n] \in Nat
    OBVIOUS
  <2> QED
    BY <1>1, <2>1, <2>2
<1>2. Value(0) = 1
  <2>1. PICK g \in [0..0 -> Nat] : Begins(g, 0)
    BY PowersBegin
  <2> QED
    BY <1>1, <2>1 DEF Begins
<1>3. ASSUME NEW n \in Nat
      PROVE  Value(n) \in Nat /\ Value(n + 1) = 2 * Value(n)
  <2>1. n + 1 \in Nat
    OBVIOUS
  <2>2. PICK g \in [0..(n + 1) -> Nat] : Begins(g, n + 1)
    BY <2>1, PowersBegin
  <2>3. PICK h \in [0..n -> Nat] : Begins(h, n)
    BY PowersBegin
  <2>4. Value(n + 1) = g[n + 1] /\ Value(n) = h[n]
    BY <1>1, <2>1, <2>2, <2>3
  <2>5. g[n] = h[n]
    BY <2>1, <2>2, <2>3, BeginningsAgree
  <2>6. n + 1 \in 1..(n + 1) /\ (n + 1) - 1 = n
    OBVIOUS
  <2>7. g[n + 1] = 2 * g[n]
    BY <2>2, <2>6 DEF Begins
  <2> HIDE DEF Value
  <2> QED
    BY <2>3, <2>4, <2>5, <2>7
<1> HIDE DEF Value
<1>4. F = [n \in Nat |-> IF n = 0 THEN 1 ELSE 2 * F[n - 1]]
  <2>1. ASSUME NEW n \in Nat PROVE Value(n) = IF n = 0 THEN 1 ELSE 2 * F[n - 1]
    <3>1. CASE n = 0
      BY <1>2, <3>1
    <3>2. CASE n # 0
      <4>1. n - 1 \in Nat /\ (n - 1) + 1 = n
        BY <3>2
      <4> QED
        BY <1>3, <3>2, <4>1
    <3> QED
      BY <3>1, <3>2
  <2> QED
    BY <2>1
<1> HIDE DEF F
<1>5. Cut!PowerOf2 = [n \in Nat |-> IF n = 0 THEN 1 ELSE 2 * Cut!PowerOf2[n - 1]]
  BY <1>4 DEF Cut!PowerOf2
<1>6. Cut!PowerOf2[0] = 1
  BY <1>5
<1>7. ASSUME NEW n \in Nat PROVE Cut!PowerOf2[n + 1] = 2 * Cut!PowerOf2[n]
  <2>1. n + 1 \in Nat /\ n + 1 # 0 /\ (n + 1) - 1 = n
    OBVIOUS
  <2> QED
    BY <1>5, <2>1
<1>8. \A n \in Nat : Cut!PowerOf2[n] \in Nat
  <2> DEFINE S == {n \in Nat : Cut!PowerOf2[n] \in Nat}
  <2>1. 0 \in S /\ \A n \in S : n + 1 \in S
    BY <1>6, <1>7
  <2>2. S \in SUBSET Nat
    OBVIOUS
  <2>3. \A n \in Nat : n \in S
    <3> HIDE DEF S
    <3> QED
      BY <2>1, <2>2, NatSetInduction
  <2> QED
    BY <2>3
<1> QED
  BY <1>5, <1>6, <1>7, <1>8

-----------------------------------------------------------------------------
(* Arithmetic.                                                             *)

LEMMA Remainder ==
  ASSUME NEW a \in Nat, NEW b \in Nat \ {0}
  PROVE  /\ a \div b \in Nat /\ a % b \in 0..(b - 1)
         /\ a = (a \div b) * b + (a % b)
OBVIOUS

LEMMA Product ==
  ASSUME NEW a \in Nat, NEW b \in Nat
  PROVE  a * b \in Nat /\ (a # 0 => b <= a * b) /\ (b # 0 => a <= a * b)
OBVIOUS

LEMMA ProductGrows ==
  ASSUME NEW a \in Nat, NEW b \in Nat, NEW c \in Nat, a <= b
  PROVE  a * c \in Nat /\ b * c \in Nat /\ a * c <= b * c
<1>1. PICK d \in Nat : b = a + d
  <2>1. b - a \in Nat /\ b = a + (b - a)
    OBVIOUS
  <2> QED
    BY <2>1
<1>2. d * c \in Nat /\ a * c \in Nat /\ (a + d) * c = a * c + d * c
  OBVIOUS
<1>3. (a + d) * c >= a * c
  BY <1>2
<1> QED
  BY <1>1, <1>2, <1>3

(* A division that is rounded up.                                          *)
LEMMA DividedUp ==
  ASSUME NEW a \in Nat, NEW b \in Nat \ {0}
  PROVE  /\ Cut!DivideUp(a, b) \in Nat
         /\ a <= Cut!DivideUp(a, b) * b
         /\ Cut!DivideUp(a, b) * b < a + b
         /\ a # 0 => Cut!DivideUp(a, b) # 0
<1>1. PICK x \in Nat : x = a + b - 1
  OBVIOUS
<1>2. PICK q \in Nat : q = x \div b
  BY <1>1, Remainder
<1>3. PICK r \in 0..(b - 1) : x = q * b + r
  BY <1>1, <1>2, Remainder
<1>4. Cut!DivideUp(a, b) = q
  BY <1>1, <1>2 DEF Cut!DivideUp
<1>5. PICK y \in Nat : y = q * b
  BY Product
<1>6. a <= y /\ y < a + b
  BY <1>1, <1>3, <1>5
<1>7. a # 0 => q # 0
  <2>1. SUFFICES ASSUME q = 0 PROVE a = 0
    OBVIOUS
  <2>2. y = 0
    BY <1>5, <2>1
  <2> QED
    BY <1>6, <2>2
<1> QED
  BY <1>4, <1>5, <1>6, <1>7

(* The least quotient that covers.                                         *)
LEMMA DividedUpLeast ==
  ASSUME NEW a \in Nat, NEW b \in Nat \ {0}, NEW q \in Nat, a <= q * b
  PROVE  Cut!DivideUp(a, b) <= q
<1>1. PICK d \in Nat : d = Cut!DivideUp(a, b)
  BY DividedUp
<1>2. d * b < a + b /\ d * b \in Nat /\ q * b \in Nat
  BY <1>1, DividedUp, Product
<1>3. ASSUME q + 1 <= d PROVE FALSE
  <2>1. (q + 1) * b <= d * b
    BY <1>3, ProductGrows
  <2>2. (q + 1) * b = q * b + b
    OBVIOUS
  <2> QED
    BY <1>2, <2>1, <2>2
<1> QED
  BY <1>1, <1>3

-----------------------------------------------------------------------------
(* The sizes a shard may have.                                             *)

LEMMA PowerPositive == \A n \in Nat : Cut!PowerOf2[n] \in Nat \ {0}
<1> DEFINE S == {n \in Nat : Cut!PowerOf2[n] # 0}
<1>1. \A n \in Nat : Cut!PowerOf2[n] \in Nat
  BY PowerOf2Equation
<1>2. 0 \in S /\ \A n \in S : n + 1 \in S
  BY <1>1, PowerOf2Equation
<1>3. S \in SUBSET Nat
  OBVIOUS
<1>4. \A n \in Nat : n \in S
  <2> HIDE DEF S
  <2> QED
    BY <1>2, <1>3, NatSetInduction
<1> QED
  BY <1>1, <1>4

LEMMA PowerOfSum ==
  ASSUME NEW a \in Nat
  PROVE  \A b \in Nat : Cut!PowerOf2[a + b] = Cut!PowerOf2[a] * Cut!PowerOf2[b]
<1> DEFINE S == {b \in Nat : Cut!PowerOf2[a + b] = Cut!PowerOf2[a] * Cut!PowerOf2[b]}
<1>1. PICK x \in Nat : x = Cut!PowerOf2[a]
  BY PowerPositive
<1>2. 0 \in S
  <2>1. a + 0 = a /\ x * 1 = x
    OBVIOUS
  <2> QED
    BY <1>1, <2>1, PowerOf2Equation
<1>3. ASSUME NEW b \in S PROVE b + 1 \in S
  <2>1. PICK y \in Nat : y = Cut!PowerOf2[b]
    BY PowerPositive
  <2>2. a + b \in Nat /\ a + (b + 1) = (a + b) + 1 /\ b + 1 \in Nat
    OBVIOUS
  <2>3. Cut!PowerOf2[a + (b + 1)] = 2 * (x * y)
    BY <1>1, <2>1, <2>2, PowerOf2Equation
  <2>4. Cut!PowerOf2[b + 1] = 2 * y
    BY <2>1, PowerOf2Equation
  <2>5. 2 * (x * y) = x * (2 * y)
    OBVIOUS
  <2> QED
    BY <1>1, <2>2, <2>3, <2>4, <2>5
<1>4. S \in SUBSET Nat
  OBVIOUS
<1>5. \A b \in Nat : b \in S
  <2> HIDE DEF S
  <2> QED
    BY <1>2, <1>3, <1>4, NatSetInduction
<1> QED
  BY <1>5

LEMMA ShardSizeOfPositive ==
  ASSUME NEW h \in Nat
  PROVE  Cut!ShardSizeOf(h) \in Nat \ {0} /\ MIN_SHARD_SIZE <= Cut!ShardSizeOf(h)
<1>1. PICK p \in Nat \ {0} : p = Cut!PowerOf2[h]
  BY PowerPositive
<1>2. PICK m \in Nat \ {0} : m = MIN_SHARD_SIZE
  BY CodedFileAssumption
<1>3. m * p \in Nat /\ m <= m * p
  BY Product
<1> QED
  BY <1>1, <1>2, <1>3 DEF Cut!ShardSizeOf

LEMMA ShardSizeOfZero == Cut!ShardSizeOf(0) = MIN_SHARD_SIZE
<1>1. MIN_SHARD_SIZE \in Nat
  BY CodedFileAssumption
<1> QED
  BY <1>1, PowerOf2Equation DEF Cut!ShardSizeOf

(* Doubling a size.                                                        *)
LEMMA ShardSizeOfSum ==
  ASSUME NEW h \in Nat, NEW k \in Nat
  PROVE  Cut!ShardSizeOf(h + k) = Cut!ShardSizeOf(h) * Cut!PowerOf2[k]
<1>1. PICK m \in Nat : m = MIN_SHARD_SIZE
  BY CodedFileAssumption
<1>2. PICK p \in Nat, q \in Nat : p = Cut!PowerOf2[h] /\ q = Cut!PowerOf2[k]
  BY PowerPositive
<1>3. Cut!PowerOf2[h + k] = p * q
  BY <1>2, PowerOfSum
<1>4. m * (p * q) = (m * p) * q
  OBVIOUS
<1> QED
  BY <1>1, <1>2, <1>3, <1>4 DEF Cut!ShardSizeOf

LEMMA ShardSizeOfGrows ==
  ASSUME NEW h \in Nat, NEW k \in Nat
  PROVE  /\ h <= k => Cut!ShardSizeOf(h) <= Cut!ShardSizeOf(k)
         /\ h < k => Cut!ShardSizeOf(h) < Cut!ShardSizeOf(k)
<1>1. SUFFICES ASSUME h < k PROVE Cut!ShardSizeOf(h) < Cut!ShardSizeOf(k)
  BY ShardSizeOfPositive
<1>2. PICK d \in Nat : k = (h + d) + 1
  <2>1. k - h - 1 \in Nat /\ k = (h + (k - h - 1)) + 1
    BY <1>1
  <2> QED
    BY <2>1
<1>3. h + d \in Nat
  OBVIOUS
<1>4. PICK x \in Nat \ {0}, y \in Nat : x = Cut!ShardSizeOf(h) /\ y = Cut!ShardSizeOf(h + d)
  BY <1>3, ShardSizeOfPositive
<1>5. x <= y
  <2>1. PICK p \in Nat \ {0} : p = Cut!PowerOf2[d]
    BY PowerPositive
  <2>2. y = x * p
    BY <1>4, <2>1, ShardSizeOfSum
  <2> QED
    BY <2>2, Product
<1>6. Cut!ShardSizeOf(k) = y * 2
  <2>1. Cut!PowerOf2[1] = 2
    <3>1. 0 + 1 = 1 /\ 0 \in Nat
      OBVIOUS
    <3> QED
      BY <3>1, PowerOf2Equation
  <2> QED
    BY <1>2, <1>3, <1>4, <2>1, ShardSizeOfSum
<1>7. y * 2 > x
  BY <1>5
<1> QED
  BY <1>4, <1>6, <1>7

-----------------------------------------------------------------------------
(* The two recursions of determine_shard_size.                             *)

(* MAX_SHARD_SIZE is k doublings of MIN_SHARD_SIZE. *)
Largest(k) ==
  k \in Nat /\ k <= MaxAccumulator /\ MAX_SHARD_SIZE = Cut!ShardSizeOf(k)

LEMMA LargestExists == \E k \in Nat : Largest(k)
<1>1. MaxAccumulator \in Nat
  BY CodedFileAssumption
<1>2. PICK k \in 0..MaxAccumulator : MAX_SHARD_SIZE = Cut!ShardSizeOf(k)
  BY CodedFileAssumption
<1> QED
  BY <1>1, <1>2 DEF Largest

LEMMA ShardSizeOfAbove ==
  ASSUME NEW k, Largest(k), NEW h \in Nat
  PROVE  Cut!ShardSizeOf(h) > MAX_SHARD_SIZE <=> h > k
<1>1. k \in Nat /\ MAX_SHARD_SIZE = Cut!ShardSizeOf(k)
  BY DEF Largest
<1>2. PICK x \in Nat, y \in Nat : x = Cut!ShardSizeOf(h) /\ y = Cut!ShardSizeOf(k)
  BY <1>1, ShardSizeOfPositive
<1>3. (h <= k => x <= y) /\ (k < h => y < x)
  BY <1>1, <1>2, ShardSizeOfGrows
<1>4. x > y <=> h > k
  BY <1>1, <1>3
<1> QED
  BY <1>1, <1>2, <1>4

(* The equation of capped. *)
CapStep(c) ==
  [h \in Nat |-> IF h > 0 /\ Cut!ShardSizeOf(h) > MAX_SHARD_SIZE THEN c[h - 1] ELSE h]

LEMMA CappedHopsIs ==
  ASSUME NEW k, Largest(k), NEW h \in Nat
  PROVE  Cut!CappedHops(h) = IF h <= k THEN h ELSE k
<1> DEFINE W == [n \in Nat |-> IF n <= k THEN n ELSE k]
<1>1. k \in Nat
  BY DEF Largest
<1>2. W = CapStep(W)
  <2>1. ASSUME NEW n \in Nat
        PROVE  W[n] = IF n > 0 /\ Cut!ShardSizeOf(n) > MAX_SHARD_SIZE THEN W[n - 1] ELSE n
    <3>1. CASE n > k
      <4>1. n > 0 /\ Cut!ShardSizeOf(n) > MAX_SHARD_SIZE /\ n - 1 \in Nat
        BY <1>1, <3>1, ShardSizeOfAbove
      <4>2. W[n] = k /\ W[n - 1] = k
        BY <1>1, <3>1, <4>1
      <4> QED
        BY <4>1, <4>2
    <3>2. CASE ~ (n > k)
      <4>1. ~ (Cut!ShardSizeOf(n) > MAX_SHARD_SIZE)
        BY <3>2, ShardSizeOfAbove
      <4> QED
        BY <1>1, <3>2, <4>1
    <3> QED
      BY <3>1, <3>2
  <2> QED
    BY <2>1 DEF CapStep
<1> HIDE DEF W
<1>3. PICK c : c = CapStep(c) /\ Cut!CappedHops(h) = c[h]
  <2>1. Cut!CappedHops(h) = (CHOOSE c : c = CapStep(c))[h]
    BY DEF Cut!CappedHops, CapStep
  <2>2. (CHOOSE c : c = CapStep(c)) = CapStep(CHOOSE c : c = CapStep(c))
    BY <1>2
  <2> QED
    BY <2>1, <2>2
<1> DEFINE S == {n \in Nat : c[n] = IF n <= k THEN n ELSE k}
<1>4. 0 \in S
  BY <1>1, <1>3 DEF CapStep
<1>5. ASSUME NEW n \in S PROVE n + 1 \in S
  <2>1. /\ n + 1 \in Nat /\ n + 1 > 0 /\ (n + 1) - 1 = n
        /\ c[n] = IF n <= k THEN n ELSE k
    OBVIOUS
  <2>2. c[n + 1] = IF Cut!ShardSizeOf(n + 1) > MAX_SHARD_SIZE THEN c[n] ELSE n + 1
    <3>1. c[n + 1] = CapStep(c)[n + 1]
      BY <1>3
    <3>2. CapStep(c)[n + 1] = IF Cut!ShardSizeOf(n + 1) > MAX_SHARD_SIZE THEN c[n] ELSE n + 1
      BY <2>1 DEF CapStep
    <3> QED
      BY <3>1, <3>2
  <2>3. Cut!ShardSizeOf(n + 1) > MAX_SHARD_SIZE <=> n + 1 > k
    BY <2>1, ShardSizeOfAbove
  <2>4. c[n + 1] = IF n + 1 > k THEN c[n] ELSE n + 1
    BY <2>2, <2>3
  <2>5. c[n + 1] = IF n + 1 <= k THEN n + 1 ELSE k
    BY <1>1, <2>1, <2>4
  <2> QED
    BY <2>1, <2>5
<1>6. \A n \in Nat : n \in S
  <2>1. S \in SUBSET Nat
    OBVIOUS
  <2> HIDE DEF S
  <2> QED
    BY <1>4, <1>5, <2>1, NatSetInduction
<1> QED
  BY <1>3, <1>6

(* The equation of from. *)
SizeFrom(accumulator) == Cut!ShardSizeOf(Cut!CappedHops(Cut!Hops(accumulator)))

FromStep(size, f) ==
  [a \in Nat |->
     IF size <= Cut!ShardSizeOf(a) THEN SizeFrom(a)
     ELSE IF a > MaxAccumulator THEN 0
     ELSE f[a + 1]]

(* m is the accumulator at which the recursion stops because the file fits. *)
FirstFit(size, m) ==
  /\ m \in Nat
  /\ size <= Cut!ShardSizeOf(m)
  /\ \A a \in Nat : a < m => ~ (size <= Cut!ShardSizeOf(a))

LEMMA FitsFromThere ==
  ASSUME NEW size \in Nat, NEW m, FirstFit(size, m), NEW a \in Nat
  PROVE  size <= Cut!ShardSizeOf(a) <=> m <= a
<1>1. CASE m <= a
  <2>1. PICK x \in Nat, y \in Nat : x = Cut!ShardSizeOf(m) /\ y = Cut!ShardSizeOf(a)
    BY ShardSizeOfPositive DEF FirstFit
  <2>2. x <= y /\ size <= x
    BY <1>1, <2>1, ShardSizeOfGrows DEF FirstFit
  <2>3. size <= y
    BY <2>2
  <2> QED
    BY <1>1, <2>1, <2>3
<1>2. CASE ~ (m <= a)
  BY <1>2 DEF FirstFit
<1> QED
  BY <1>1, <1>2

LEMMA FirstFitExists ==
  ASSUME NEW size \in Nat, NEW a \in Nat, size <= Cut!ShardSizeOf(a)
  PROVE  \E m \in Nat : FirstFit(size, m) /\ m <= a
<1> DEFINE S == {n \in Nat : size <= Cut!ShardSizeOf(n)}
<1>1. a \in S /\ S \in SUBSET Nat
  OBVIOUS
<1>2. PICK m \in S : \A y \in S : m <= y
  <2> HIDE DEF S
  <2> QED
    BY <1>1, LeastMember
<1>3. ASSUME NEW n \in Nat, n < m PROVE ~ (size <= Cut!ShardSizeOf(n))
  <2>1. ~ (m <= n)
    BY <1>3
  <2> QED
    BY <1>2, <2>1
<1>4. FirstFit(size, m)
  BY <1>2, <1>3 DEF FirstFit
<1> QED
  BY <1>1, <1>2, <1>4

(* from is defined: this function solves its equation. *)
LEMMA FromSolved ==
  ASSUME NEW size \in Nat
  PROVE  \E f : f = FromStep(size, f)
<1>1. PICK last \in Nat : last = MaxAccumulator + 1
  BY CodedFileAssumption
<1>2. CASE size <= Cut!ShardSizeOf(last)
  <2>1. PICK m \in Nat : FirstFit(size, m) /\ m <= last
    BY <1>1, <1>2, FirstFitExists
  <2> DEFINE W == [a \in Nat |-> IF m <= a THEN SizeFrom(a) ELSE SizeFrom(m)]
  <2>2. ASSUME NEW a \in Nat
        PROVE  W[a] = IF size <= Cut!ShardSizeOf(a) THEN SizeFrom(a)
                      ELSE IF a > MaxAccumulator THEN 0 ELSE W[a + 1]
    <3>1. size <= Cut!ShardSizeOf(a) <=> m <= a
      BY <2>1, FitsFromThere
    <3>2. CASE m <= a
      BY <3>1, <3>2
    <3>3. CASE ~ (m <= a)
      <4>1. ~ (a > MaxAccumulator)
        BY <1>1, <2>1, <3>3, CodedFileAssumption
      <4>2. a + 1 \in Nat /\ (m <= a + 1 => m = a + 1)
        BY <3>3
      <4>3. W[a + 1] = SizeFrom(m)
        <5> HIDE DEF SizeFrom
        <5> QED
          BY <4>2
      <4>4. W[a] = SizeFrom(m)
        BY <3>3
      <4> HIDE DEF W
      <4> QED
        BY <3>1, <3>3, <4>1, <4>3, <4>4
    <3> QED
      BY <3>2, <3>3
  <2>3. W = FromStep(size, W)
    BY <2>2 DEF FromStep
  <2> QED
    BY <2>3
<1>3. CASE ~ (size <= Cut!ShardSizeOf(last))
  <2> DEFINE W == [a \in Nat |-> IF size <= Cut!ShardSizeOf(a) THEN SizeFrom(a) ELSE 0]
  <2>1. ASSUME NEW a \in Nat, ~ (a > MaxAccumulator)
        PROVE  ~ (size <= Cut!ShardSizeOf(a + 1)) /\ a + 1 \in Nat
    <3>1. a + 1 \in Nat /\ a + 1 <= last
      BY <1>1, <2>1, CodedFileAssumption
    <3>2. PICK x \in Nat, y \in Nat : x = Cut!ShardSizeOf(a + 1) /\ y = Cut!ShardSizeOf(last)
      BY <1>1, <3>1, ShardSizeOfPositive
    <3>3. x <= y
      BY <1>1, <3>1, <3>2, ShardSizeOfGrows
    <3>4. ~ (size <= y)
      BY <1>3, <3>2
    <3>5. ~ (size <= x)
      BY <3>3, <3>4
    <3> QED
      BY <3>1, <3>2, <3>5
  <2>2. ASSUME NEW a \in Nat
        PROVE  W[a] = IF size <= Cut!ShardSizeOf(a) THEN SizeFrom(a)
                      ELSE IF a > MaxAccumulator THEN 0 ELSE W[a + 1]
    BY <2>1
  <2>3. W = FromStep(size, W)
    BY <2>2 DEF FromStep
  <2> QED
    BY <2>3
<1> QED
  BY <1>2, <1>3

LEMMA Determined ==
  ASSUME NEW size \in Nat \ {0}
  PROVE  \E f : f = FromStep(size, f) /\ Cut!determine_shard_size(size) = f[0]
<1>1. Cut!determine_shard_size(size) = (CHOOSE f : f = FromStep(size, f))[0]
  BY DEF Cut!determine_shard_size, FromStep, SizeFrom
<1>2. (CHOOSE f : f = FromStep(size, f)) = FromStep(size, CHOOSE f : f = FromStep(size, f))
  BY FromSolved
<1> QED
  BY <1>1, <1>2

(* As long as nothing fits, the recursion goes on. *)
LEMMA GoesUp ==
  ASSUME NEW size \in Nat, NEW f, f = FromStep(size, f), NEW m \in Nat,
         m <= MaxAccumulator + 1,
         \A a \in Nat : a < m => ~ (size <= Cut!ShardSizeOf(a))
  PROVE  f[0] = f[m]
<1> DEFINE S == {n \in Nat : n <= m => f[0] = f[n]}
<1>1. 0 \in S
  OBVIOUS
<1>2. ASSUME NEW n \in S PROVE n + 1 \in S
  <2>1. SUFFICES ASSUME n + 1 <= m PROVE f[0] = f[n + 1]
    OBVIOUS
  <2>2. /\ f[0] = f[n] /\ ~ (size <= Cut!ShardSizeOf(n))
        /\ ~ (n > MaxAccumulator)
    BY <2>1, CodedFileAssumption
  <2>3. f[n] = FromStep(size, f)[n]
    OBVIOUS
  <2>4. FromStep(size, f)[n] = f[n + 1]
    BY <2>2 DEF FromStep
  <2> QED
    BY <2>2, <2>3, <2>4
<1>3. \A n \in Nat : n \in S
  <2>1. S \in SUBSET Nat
    OBVIOUS
  <2> HIDE DEF S
  <2> QED
    BY <1>1, <1>2, <2>1, NatSetInduction
<1> QED
  BY <1>3

-----------------------------------------------------------------------------
(* What determine_shard_size returns.                                      *)

LEMMA SizeWhenItFits ==
  ASSUME NEW size \in Nat \ {0}, NEW m, FirstFit(size, m),
         m <= MaxAccumulator + 1
  PROVE  Cut!determine_shard_size(size) = SizeFrom(m)
<1>1. m \in Nat /\ size <= Cut!ShardSizeOf(m)
      /\ \A a \in Nat : a < m => ~ (size <= Cut!ShardSizeOf(a))
  BY DEF FirstFit
<1>2. PICK f : f = FromStep(size, f) /\ Cut!determine_shard_size(size) = f[0]
  BY Determined
<1>3. f[0] = f[m]
  BY <1>1, <1>2, GoesUp
<1>4. f[m] = FromStep(size, f)[m]
  BY <1>2
<1>5. FromStep(size, f)[m] = SizeFrom(m)
  BY <1>1 DEF FromStep
<1> QED
  BY <1>2, <1>3, <1>4, <1>5

LEMMA NoSizeFits ==
  ASSUME NEW size \in Nat \ {0},
         ~ (size <= Cut!ShardSizeOf(MaxAccumulator + 1))
  PROVE  Cut!determine_shard_size(size) = 0
<1>1. PICK last \in Nat : last = MaxAccumulator + 1
  BY CodedFileAssumption
<1>2. PICK f : f = FromStep(size, f) /\ Cut!determine_shard_size(size) = f[0]
  BY Determined
<1>3. ASSUME NEW a \in Nat, a < last PROVE ~ (size <= Cut!ShardSizeOf(a))
  <2>1. PICK x \in Nat, y \in Nat : x = Cut!ShardSizeOf(a) /\ y = Cut!ShardSizeOf(last)
    BY ShardSizeOfPositive
  <2>2. x <= y
    BY <1>3, <2>1, ShardSizeOfGrows
  <2>3. ~ (size <= y)
    BY <1>1, <2>1
  <2>4. ~ (size <= x)
    BY <2>2, <2>3
  <2> QED
    BY <2>1, <2>4
<1>4. f[0] = f[last]
  <2>1. last <= MaxAccumulator + 1
    BY <1>1
  <2> QED
    BY <1>2, <1>3, <2>1, GoesUp
<1>5. f[last] = FromStep(size, f)[last]
  BY <1>2
<1>6. FromStep(size, f)[last] = 0
  <2>1. last > MaxAccumulator /\ ~ (size <= Cut!ShardSizeOf(last))
    BY <1>1, CodedFileAssumption
  <2> QED
    BY <2>1 DEF FromStep
<1> QED
  BY <1>2, <1>4, <1>5, <1>6

(* The shard size s of a file: h doublings of the smallest, few enough;    *)
(* SHARD_MULTIPLES_BACK more cover the file, or h is the most there is;    *)
(* and fewer would not do.                                                 *)
Suits(size, s, k, h) ==
  /\ Largest(k) /\ h \in Nat /\ h <= k
  /\ s = Cut!ShardSizeOf(h)
  /\ h = k \/ size <= Cut!ShardSizeOf(h + SHARD_MULTIPLES_BACK)
  /\ \A j \in Nat : j < h => ~ (size <= Cut!ShardSizeOf(j + SHARD_MULTIPLES_BACK))

Suitable(size, s) == \E k \in Nat, h \in Nat : Suits(size, s, k, h)

LEMMA FitSuits ==
  ASSUME NEW size \in Nat, NEW m, FirstFit(size, m)
  PROVE  Suitable(size, SizeFrom(m))
<1>1. m \in Nat
  BY DEF FirstFit
<1>2. PICK k \in Nat : Largest(k)
  BY LargestExists
<1>3. PICK b \in Nat : b = SHARD_MULTIPLES_BACK
  BY CodedFileAssumption
<1>4. PICK n \in Nat : n = Cut!Hops(m) /\ n = IF m < b THEN 0 ELSE m - b
  <2>1. Cut!Hops(m) = IF m < b THEN 0 ELSE m - b
    BY <1>3 DEF Cut!Hops
  <2>2. (IF m < b THEN 0 ELSE m - b) \in Nat
    BY <1>1
  <2> QED
    BY <2>1, <2>2
<1>5. PICK h \in Nat : h = IF n <= k THEN n ELSE k
  OBVIOUS
<1>6. SizeFrom(m) = Cut!ShardSizeOf(h)
  <2>1. Cut!CappedHops(n) = h
    BY <1>2, <1>5, CappedHopsIs
  <2> QED
    BY <1>4, <2>1 DEF SizeFrom
<1>7. h = k \/ size <= Cut!ShardSizeOf(h + b)
  <2>1. h # k => h + b \in Nat /\ m <= h + b
    BY <1>1, <1>4, <1>5
  <2> QED
    BY <2>1, FitsFromThere
<1>8. ASSUME NEW j \in Nat, j < h PROVE ~ (size <= Cut!ShardSizeOf(j + b))
  <2>1. j + b \in Nat /\ ~ (m <= j + b)
    BY <1>1, <1>4, <1>5, <1>8
  <2> QED
    BY <2>1, FitsFromThere
<1>9. h <= k
  BY <1>5
<1>10. Suits(size, SizeFrom(m), k, h)
  BY <1>2, <1>3, <1>6, <1>7, <1>8, <1>9 DEF Suits
<1> QED
  BY <1>10 DEF Suitable

(* An empty file is refused, and one for which the last accumulator is too *)
(* small; any other is given a suitable size.                              *)
LEMMA SizeReturned ==
  ASSUME NEW size \in Nat
  PROVE  IF size = 0 \/ size > Cut!ShardSizeOf(MaxAccumulator + 1)
         THEN Cut!determine_shard_size(size) = 0
         ELSE /\ Suitable(size, Cut!determine_shard_size(size))
              /\ Cut!determine_shard_size(size) \in Nat \ {0}
<1>1. PICK last \in Nat : last = MaxAccumulator + 1
  BY CodedFileAssumption
<1>2. PICK z \in Nat : z = Cut!ShardSizeOf(last)
  BY ShardSizeOfPositive
<1>3. size > z <=> ~ (size <= z)
  OBVIOUS
<1>4. CASE size = 0
  BY <1>4 DEF Cut!determine_shard_size
<1>5. CASE size # 0 /\ size > z
  <2>1. size \in Nat \ {0} /\ ~ (size <= Cut!ShardSizeOf(MaxAccumulator + 1))
    BY <1>1, <1>2, <1>3, <1>5
  <2>2. Cut!determine_shard_size(size) = 0
    BY <2>1, NoSizeFits
  <2> QED
    BY <1>1, <1>2, <1>5, <2>2
<1>6. CASE size # 0 /\ ~ (size > z)
  <2>1. PICK m \in Nat : FirstFit(size, m) /\ m <= last
    BY <1>2, <1>3, <1>6, FirstFitExists
  <2>2. Cut!determine_shard_size(size) = SizeFrom(m)
    BY <1>1, <1>6, <2>1, SizeWhenItFits
  <2>3. Suitable(size, SizeFrom(m))
    BY <2>1, FitSuits
  <2>4. SizeFrom(m) \in Nat \ {0}
    <3>1. PICK k \in Nat, h \in Nat : Suits(size, SizeFrom(m), k, h)
      BY <2>3 DEF Suitable
    <3> QED
      BY <3>1, ShardSizeOfPositive DEF Suits
  <2> QED
    BY <1>1, <1>2, <1>6, <2>2, <2>3, <2>4
<1> QED
  BY <1>4, <1>5, <1>6

-----------------------------------------------------------------------------
(* What a suitable size is good for.                                       *)

(* The multiples are the sizes up to the largest. *)
LEMMA MultiplesAre ==
  ASSUME NEW k, Largest(k)
  PROVE  Cut!Multiples = {Cut!ShardSizeOf(h) : h \in 0..k}
<1>1. k \in Nat /\ k <= MaxAccumulator /\ MaxAccumulator \in Nat
  BY CodedFileAssumption DEF Largest
<1>2. ASSUME NEW h \in 0..MaxAccumulator
      PROVE  Cut!ShardSizeOf(h) <= MAX_SHARD_SIZE <=> h <= k
  <2>1. h \in Nat
    BY <1>1
  <2>2. PICK x \in Nat, y \in Nat : x = Cut!ShardSizeOf(h) /\ y = MAX_SHARD_SIZE
    BY <1>1, <2>1, ShardSizeOfPositive DEF Largest
  <2>3. x > y <=> h > k
    BY <2>1, <2>2, ShardSizeOfAbove
  <2>4. x <= y <=> h <= k
    BY <1>1, <2>1, <2>3
  <2> QED
    BY <2>2, <2>4
<1>3. \A h \in 0..k : h \in 0..MaxAccumulator /\ h <= k
  BY <1>1
<1>4. \A h \in 0..MaxAccumulator : h <= k => h \in 0..k
  BY <1>1
<1> QED
  BY <1>2, <1>3, <1>4 DEF Cut!Multiples

LEMMA SuitableIsSmallest ==
  ASSUME NEW s, Suitable(file_size, s), file_size \in Nat
  PROVE  /\ s \in Cut!Multiples
         /\ IF Cut!Enough = {} THEN \A t \in Cut!Multiples : t <= s
            ELSE s \in Cut!Enough /\ \A t \in Cut!Enough : s <= t
<1>1. PICK k \in Nat, h \in Nat : Suits(file_size, s, k, h)
  BY DEF Suitable
<1>2. Largest(k) /\ h <= k /\ s = Cut!ShardSizeOf(h) /\ h \in 0..k
  BY <1>1 DEF Suits
<1>3. PICK b \in Nat : b = SHARD_MULTIPLES_BACK
  BY CodedFileAssumption
<1>4. Cut!Multiples = {Cut!ShardSizeOf(j) : j \in 0..k}
  BY <1>2, MultiplesAre
<1>5. ASSUME NEW j \in 0..k
      PROVE  Cut!ShardSizeOf(j) \in Cut!Enough <=> file_size <= Cut!ShardSizeOf(j + b)
  BY <1>3, <1>4, ShardSizeOfSum DEF Cut!Enough
<1>6. ASSUME NEW t \in Cut!Enough
      PROVE  s <= t /\ s \in Cut!Enough
  <2>1. PICK j \in 0..k : t = Cut!ShardSizeOf(j)
    BY <1>4 DEF Cut!Enough
  <2>2. file_size <= Cut!ShardSizeOf(j + b)
    BY <1>5, <2>1
  <2>3. ~ (j < h)
    BY <1>1, <1>3, <2>2 DEF Suits
  <2>4. s <= t
    <3>1. h <= j /\ j \in Nat
      BY <2>3
    <3> QED
      BY <1>2, <2>1, <3>1, ShardSizeOfGrows
  <2>5. h = k \/ file_size <= Cut!ShardSizeOf(h + b)
    BY <1>1, <1>3 DEF Suits
  <2>6. h = k => j = h
    BY <2>3
  <2>7. file_size <= Cut!ShardSizeOf(h + b)
    BY <2>2, <2>5, <2>6
  <2> QED
    BY <1>2, <1>5, <2>4, <2>7
<1>7. ASSUME Cut!Enough = {}, NEW t \in Cut!Multiples
      PROVE  t <= s
  <2>1. PICK j \in 0..k : t = Cut!ShardSizeOf(j)
    BY <1>4
  <2>2. ~ (file_size <= Cut!ShardSizeOf(h + b))
    BY <1>2, <1>5, <1>7
  <2>3. h = k
    BY <1>1, <1>3, <2>2 DEF Suits
  <2>4. j \in Nat /\ j <= h
    BY <2>3
  <2> QED
    BY <1>2, <2>1, <2>4, ShardSizeOfGrows
<1> QED
  BY <1>2, <1>4, <1>6, <1>7

(* All but the last shard are full, and the last is not empty.             *)
LEMMA SuitableCovers ==
  ASSUME NEW size \in Nat \ {0}, NEW s \in Nat \ {0},
         NEW data, data = Cut!DivideUp(size, s)
  PROVE  /\ data \in Nat \ {0}
         /\ (data - 1) * s < size
         /\ size <= data * s
<1>1. data \in Nat \ {0} /\ size <= data * s /\ data * s < size + s
  BY DividedUp
<1>2. (data - 1) * s = data * s - s /\ data * s \in Nat
  BY <1>1
<1> QED
  BY <1>1, <1>2

(* A file of one shard whose size is not less than the smallest fills it:  *)
(* a larger size comes only with several shards.                           *)
LEMMA OneShardIsFull ==
  ASSUME NEW size \in Nat \ {0}, NEW s \in Nat, Suitable(size, s),
         MIN_SHARD_SIZE <= size, size <= s
  PROVE  size = s
<1>1. PICK k \in Nat, h \in Nat : Suits(size, s, k, h)
  BY DEF Suitable
<1>2. CASE h = 0
  <2>1. s = MIN_SHARD_SIZE /\ MIN_SHARD_SIZE \in Nat
    BY <1>1, <1>2, ShardSizeOfZero, CodedFileAssumption DEF Suits
  <2> QED
    BY <2>1
<1>3. CASE h # 0
  <2>1. PICK b \in Nat \ {0} : b = SHARD_MULTIPLES_BACK
    BY CodedFileAssumption
  <2>2. h - 1 \in Nat /\ h - 1 < h /\ (h - 1) + b \in Nat /\ h <= (h - 1) + b
    BY <1>3
  <2>3. ~ (size <= Cut!ShardSizeOf((h - 1) + b))
    BY <1>1, <2>1, <2>2 DEF Suits
  <2>4. s = Cut!ShardSizeOf(h)
    BY <1>1 DEF Suits
  <2>5. PICK x \in Nat : x = Cut!ShardSizeOf((h - 1) + b)
    BY <2>2, ShardSizeOfPositive
  <2>6. s <= x
    BY <2>2, <2>4, <2>5, ShardSizeOfGrows
  <2> QED
    BY <2>3, <2>5, <2>6
<1> QED
  BY <1>2, <1>3

LEMMA Thirds ==
  ASSUME NEW a \in Nat
  PROVE  Cut!DivideUp(a, 3) \in Nat
<1>1. PICK three \in Nat \ {0} : three = 3
  OBVIOUS
<1>2. Cut!DivideUp(a, three) \in Nat
  BY DividedUp
<1> QED
  BY <1>1, <1>2

(* Two thirds more than three fifths are the whole.                        *)
LEMMA ThreeFifths ==
  ASSUME NEW max \in Nat, NEW data \in Nat, data <= (3 * max) \div 5
  PROVE  data + Cut!DivideUp(2 * data, 3) <= max
<1>1. PICK q \in Nat : q = (3 * max) \div 5
  BY Remainder
<1>2. 5 * data <= 3 * max
  <2>1. PICK y \in Nat : y = 3 * max
    OBVIOUS
  <2>2. PICK r \in 0..4 : y = q * 5 + r
    BY <1>1, <2>1, Remainder
  <2> QED
    BY <1>1, <2>1, <2>2
<1>3. max - data \in Nat /\ 2 * data <= (max - data) * 3 /\ 2 * data \in Nat
  BY <1>2
<1>4. Cut!DivideUp(2 * data, 3) <= max - data
  <2>1. PICK a \in Nat, d \in Nat : a = 2 * data /\ d = max - data
    BY <1>3
  <2>2. Cut!DivideUp(a, 3) <= d
    BY <1>3, <2>1, DividedUpLeast
  <2> QED
    BY <2>1, <2>2
<1>5. Cut!DivideUp(2 * data, 3) \in Nat
  BY <1>3, DividedUp
<1> QED
  BY <1>3, <1>4, <1>5

(* Fewer shards have less parity.                                          *)
LEMMA FewerFit ==
  ASSUME NEW a \in Nat, NEW b \in Nat, a <= b
  PROVE  a + Cut!DivideUp(2 * a, 3) <= b + Cut!DivideUp(2 * b, 3)
<1>1. PICK x \in Nat, y \in Nat : x = 2 * a /\ y = 2 * b /\ x <= y
  OBVIOUS
<1>2. PICK d \in Nat, c \in Nat : d = Cut!DivideUp(y, 3) /\ c = Cut!DivideUp(x, 3)
  BY Thirds
<1>3. y <= d * 3
  BY <1>2, DividedUp
<1>4. x <= d * 3
  BY <1>1, <1>3
<1>5. c <= d
  BY <1>2, <1>4, DividedUpLeast
<1> QED
  BY <1>1, <1>2, <1>5

(* Only a file of more than three fifths of a code's shards at the largest *)
(* size is cut into more shards than a code has.                           *)
LEMMA TooManyShards ==
  ASSUME NEW size \in Nat \ {0}, NEW s \in Nat \ {0}, Suitable(size, s),
         NEW data \in Nat, data = Cut!DivideUp(size, s),
         ~ (data + Cut!DivideUp(2 * data, 3) <= DATA_SHARDS_MAX)
  PROVE  size > ((3 * DATA_SHARDS_MAX) \div 5) * MAX_SHARD_SIZE
<1>1. PICK max \in Nat : max = DATA_SHARDS_MAX
  BY CodedFileAssumption
<1>2. PICK q \in Nat : q = (3 * max) \div 5
  BY Remainder
<1>3. PICK k \in Nat, h \in Nat : Suits(size, s, k, h)
  BY DEF Suitable
<1>4. h = k
  <2>1. SUFFICES ASSUME h # k PROVE FALSE
    OBVIOUS
  <2>2. PICK aim \in Nat : aim = Cut!PowerOf2[SHARD_MULTIPLES_BACK]
    BY PowerPositive, CodedFileAssumption
  <2>3. size <= aim * s
    <3>1. s = Cut!ShardSizeOf(h) /\ size <= Cut!ShardSizeOf(h + SHARD_MULTIPLES_BACK)
      BY <1>3, <2>1 DEF Suits
    <3>2. SHARD_MULTIPLES_BACK \in Nat
      BY CodedFileAssumption
    <3>3. Cut!ShardSizeOf(h + SHARD_MULTIPLES_BACK) = s * aim
      BY <2>2, <3>1, <3>2, ShardSizeOfSum
    <3>4. s * aim = aim * s
      OBVIOUS
    <3> QED
      BY <3>1, <3>3, <3>4
  <2>4. data <= aim
    BY <2>3, DividedUpLeast
  <2>5. data + Cut!DivideUp(2 * data, 3) <= aim + Cut!DivideUp(2 * aim, 3)
    BY <2>4, FewerFit
  <2>6. aim + Cut!DivideUp(2 * aim, 3) <= max
    BY <1>1, <2>2, CodedFileAssumption
  <2>7. PICK x \in Nat, y \in Nat : /\ x = data + Cut!DivideUp(2 * data, 3)
                                   /\ y = aim + Cut!DivideUp(2 * aim, 3)
    <3>1. 2 * data \in Nat /\ 2 * aim \in Nat
      OBVIOUS
    <3>2. Cut!DivideUp(2 * data, 3) \in Nat /\ Cut!DivideUp(2 * aim, 3) \in Nat
      BY <3>1, Thirds
    <3> QED
      BY <3>2
  <2> QED
    BY <1>1, <2>5, <2>6, <2>7
<1>5. s = MAX_SHARD_SIZE
  BY <1>3, <1>4 DEF Suits, Largest
<1>6. ~ (data <= q)
  <2>1. SUFFICES ASSUME data <= q PROVE FALSE
    OBVIOUS
  <2>2. data + Cut!DivideUp(2 * data, 3) <= max
    BY <1>2, <2>1, ThreeFifths
  <2> QED
    BY <1>1, <2>2
<1>7. data - 1 \in Nat /\ q <= data - 1
  BY <1>6
<1>8. q * s <= (data - 1) * s /\ q * s \in Nat /\ (data - 1) * s \in Nat
  BY <1>7, ProductGrows
<1>9. (data - 1) * s < size
  BY SuitableCovers
<1>10. size > q * s
  BY <1>8, <1>9
<1> QED
  BY <1>1, <1>2, <1>5, <1>10

-----------------------------------------------------------------------------
(* The counts of an upload.                                                *)

Counted ==
  /\ file_size \in Nat \ {0} /\ shard_size \in Nat \ {0}
  /\ Suitable(file_size, shard_size)
  /\ total_data_shards = Cut!DivideUp(file_size, shard_size)
  /\ rs => total_parity_shards = Cut!DivideUp(2 * total_data_shards, 3)

(* The inductive invariant of the cut: an upload is refused for its size   *)
(* or counted, and fails to get a code only for having too many shards.    *)
CutInv ==
  /\ file_size \in Nat
  /\ stage = "new" => error_status = "none"
  /\ error_status = "STORJ_FILE_SIZE_ERROR" <=>
       stage # "new" /\ (file_size = 0 \/ file_size > Cut!ShardSizeOf(MaxAccumulator + 1))
  /\ stage # "new" /\ error_status = "none" => Counted
  /\ stage = "crashed" => Counted /\ rs /\ ~ Cut!CodeFits

LEMMA PrepareCounts ==
  ASSUME CutInv, Cut!prepare_upload_state
  PROVE  CutInv'
<1>1. /\ file_size \in Nat /\ file_size' = file_size
      /\ stage = "new" /\ stage' = "prepared" /\ error_status = "none"
      /\ shard_size' = Cut!determine_shard_size(file_size)
  BY DEF CutInv, Cut!prepare_upload_state
<1>2. CASE file_size = 0 \/ file_size > Cut!ShardSizeOf(MaxAccumulator + 1)
  <2>1. shard_size' = 0
    BY <1>1, <1>2, SizeReturned
  <2>2. error_status' = "STORJ_FILE_SIZE_ERROR"
    BY <2>1 DEF Cut!prepare_upload_state
  <2> QED
    BY <1>1, <1>2, <2>2 DEF CutInv
<1>3. CASE ~ (file_size = 0 \/ file_size > Cut!ShardSizeOf(MaxAccumulator + 1))
  <2>1. /\ Suitable(file_size, Cut!determine_shard_size(file_size))
        /\ Cut!determine_shard_size(file_size) \in Nat \ {0}
    BY <1>1, <1>3, SizeReturned
  <2>2. Suitable(file_size, shard_size') /\ shard_size' \in Nat \ {0}
    BY <1>1, <2>1
  <2>3. /\ error_status' = "none"
        /\ total_data_shards' = Cut!DivideUp(file_size, shard_size')
        /\ rs' => total_parity_shards' = Cut!DivideUp(2 * total_data_shards', 3)
    BY <1>1, <2>2 DEF Cut!prepare_upload_state
  <2>4. Counted'
    BY <1>1, <1>3, <2>2, <2>3 DEF Counted
  <2> QED
    BY <1>1, <1>3, <2>3, <2>4 DEF CutInv
<1> QED
  BY <1>2, <1>3

LEMMA CreateCounts ==
  ASSUME CutInv, Cut!create_parity_shards
  PROVE  CutInv'
<1>1. UNCHANGED <<file_size, rs, shard_size, total_data_shards,
                  total_parity_shards, error_status>>
  BY DEF Cut!create_parity_shards
<1>2. Counted' <=> Counted
  BY <1>1 DEF Counted
<1>3. Cut!CodeFits' <=> Cut!CodeFits
  BY <1>1 DEF Cut!CodeFits
<1>4. /\ stage = "prepared" /\ error_status = "none" /\ rs
      /\ stage' = IF Cut!CodeFits THEN "coded" ELSE "crashed"
  BY DEF Cut!create_parity_shards
<1>5. Counted
  BY <1>4 DEF CutInv
<1> QED
  BY <1>1, <1>2, <1>3, <1>4, <1>5 DEF CutInv

LEMMA CutStays ==
  ASSUME CutInv, UNCHANGED cut_vars
  PROVE  CutInv'
BY DEF CutInv, cut_vars, Counted, Cut!CodeFits

LEMMA InitCut == FileInit => CutInv
BY CodedFileAssumption DEF FileInit, Cut!Init, CutInv

LEMMA NextCut == CutInv /\ [FileNext]_<<vars, cut_vars>> => CutInv'
<1> SUFFICES ASSUME CutInv, [FileNext]_<<vars, cut_vars>> PROVE CutInv'
  OBVIOUS
<1>1. CASE prepare_upload_state
  BY <1>1, PrepareCounts DEF prepare_upload_state
<1>2. CASE create_parity_shards
  BY <1>2, CreateCounts DEF create_parity_shards
<1>3. CASE resolve_file
  BY <1>3, CutStays DEF resolve_file
<1>4. CASE UNCHANGED <<vars, cut_vars>>
  BY <1>4, CutStays
<1> QED
  BY <1>1, <1>2, <1>3, <1>4 DEF FileNext

LEMMA ShardSizesRightHolds == CutInv => ShardSizesRight
<1> SUFFICES ASSUME CutInv PROVE ShardSizesRight
  OBVIOUS
<1>1. Cut!ShardsCoverFile
  <2> SUFFICES ASSUME Cut!Cut
               PROVE  /\ (total_data_shards - 1) * shard_size < file_size
                      /\ file_size <= total_data_shards * shard_size
    BY DEF Cut!ShardsCoverFile
  <2>1. Counted
    BY DEF CutInv, Cut!Cut
  <2> QED
    BY <2>1, SuitableCovers DEF Counted
<1>2. Cut!SmallestThatCovers
  <2> SUFFICES ASSUME Cut!Cut PROVE Cut!SmallestThatCovers
    BY DEF Cut!SmallestThatCovers
  <2>1. Counted
    BY DEF CutInv, Cut!Cut
  <2>2. Suitable(file_size, shard_size) /\ file_size \in Nat
    BY <2>1 DEF Counted
  <2>3. /\ shard_size \in Cut!Multiples
        /\ IF Cut!Enough = {} THEN \A t \in Cut!Multiples : t <= shard_size
           ELSE shard_size \in Cut!Enough /\ \A t \in Cut!Enough : shard_size <= t
    BY <2>2, SuitableIsSmallest
  <2> QED
    BY <2>3 DEF Cut!SmallestThatCovers
<1>3. Cut!RefusedOnlyAtTheEnds
  BY DEF CutInv, Cut!RefusedOnlyAtTheEnds
<1>4. Cut!LargestFileThatFits
  <2> SUFFICES ASSUME stage = "crashed" PROVE Cut!LargestFileThatFits
    BY DEF Cut!LargestFileThatFits
  <2>1. Counted /\ rs /\ ~ Cut!CodeFits
    BY DEF CutInv
  <2>2. PICK data \in Nat : data = total_data_shards
    BY <2>1, SuitableCovers DEF Counted
  <2>3. /\ data = Cut!DivideUp(file_size, shard_size)
        /\ ~ (data + Cut!DivideUp(2 * data, 3) <= DATA_SHARDS_MAX)
    BY <2>1, <2>2 DEF Counted, Cut!CodeFits
  <2>4. file_size > ((3 * DATA_SHARDS_MAX) \div 5) * MAX_SHARD_SIZE
    BY <2>1, <2>3, TooManyShards DEF Counted
  <2> QED
    BY <2>4 DEF Cut!LargestFileThatFits
<1> QED
  BY <1>1, <1>2, <1>3, <1>4 DEF ShardSizesRight

(* For a file of any size, and any sizes and limits like those of the      *)
(* code: the shards cover the file and the last is not empty; their size   *)
(* is the smallest that is meant to do; only an empty file, or one beyond  *)
(* the last accumulator, is refused; and only one of more than three       *)
(* fifths of a code's shards has no code (determine_shard_size,            *)
(* prepare_upload_state, reed_solomon_new).                                *)
THEOREM SizesRight == FileSpec => []ShardSizesRight
BY InitCut, NextCut, ShardSizesRightHolds, PTL DEF FileSpec

-----------------------------------------------------------------------------
(* The code, at both ends.                                                 *)

(* A code as an upload asks for it: a single data shard is a full one. *)
CodeOf(g) ==
  \E data \in Nat \ {0}, parity \in Nat, block \in Nat \ {0}, total \in Nat \ {0} :
    /\ g = [data |-> data, parity |-> parity, block |-> block, total |-> total]
    /\ (data - 1) * block < total
    /\ data = 1 => total = block

CodeInv ==
  /\ stage = "new" => geometry = NoGeometry
  /\ geometry # NoGeometry => CodeOf(geometry) /\ file \in FilesOf(geometry)
  /\ stored # <<>> =>
       geometry # NoGeometry /\ stored = file \o reed_solomon_encode(geometry, file)

LEMMA CodeIsOne == ASSUME NEW g, CodeOf(g) PROVE g # NoGeometry
BY DEF CodeOf, NoGeometry

LEMMA CountedIsCode ==
  ASSUME NEW size \in Nat \ {0}, NEW s \in Nat \ {0}, Suitable(size, s),
         MIN_SHARD_SIZE <= size,
         NEW data, data = Cut!DivideUp(size, s),
         NEW parity, parity = Cut!DivideUp(2 * data, 3)
  PROVE  CodeOf([data |-> data, parity |-> parity, block |-> s, total |-> size])
<1>1. data \in Nat \ {0} /\ (data - 1) * s < size /\ size <= data * s
  BY SuitableCovers
<1>2. parity \in Nat
  <2>1. 2 * data \in Nat
    BY <1>1
  <2> QED
    BY <2>1, Thirds
<1>3. ASSUME data = 1 PROVE size = s
  <2>1. size <= s
    BY <1>1, <1>3
  <2> QED
    BY <2>1, OneShardIsFull
<1> QED
  BY <1>1, <1>2, <1>3 DEF CodeOf

LEMMA PrepareCode ==
  ASSUME CutInv, CodeInv, prepare_upload_state
  PROVE  CodeInv'
<1>1. /\ Cut!prepare_upload_state /\ stage = "new" /\ stage' = "prepared"
      /\ file_size' = file_size /\ stored' = stored
  BY DEF prepare_upload_state, Cut!prepare_upload_state
<1>2. geometry = NoGeometry /\ stored = <<>>
  BY <1>1 DEF CodeInv
<1>3. CASE rs' /\ shard_size' # 0 /\ file_size <= MaxCoded
  <2>1. CutInv'
    BY <1>1, PrepareCounts
  <2>2. error_status' = "none"
    BY <1>1, <1>3 DEF Cut!prepare_upload_state, CutInv
  <2>3. Counted'
    BY <1>1, <2>1, <2>2 DEF CutInv
  <2>4. MIN_SHARD_SIZE <= file_size
    <3>1. file_size >= MIN_SHARD_SIZE
      BY <1>1, <1>3 DEF Cut!prepare_upload_state
    <3>2. file_size \in Nat /\ MIN_SHARD_SIZE \in Nat
      BY CodedFileAssumption DEF CutInv
    <3> QED
      BY <3>1, <3>2
  <2>5. PICK data, parity, block :
          /\ data = total_data_shards' /\ parity = total_parity_shards'
          /\ block = shard_size'
    OBVIOUS
  <2>6. /\ file_size \in Nat \ {0} /\ block \in Nat \ {0}
        /\ Suitable(file_size, block)
        /\ data = Cut!DivideUp(file_size, block)
        /\ parity = Cut!DivideUp(2 * data, 3)
    BY <1>1, <1>3, <2>3, <2>5 DEF Counted
  <2>7. CodeOf([data |-> data, parity |-> parity, block |-> block, total |-> file_size])
    BY <2>4, <2>6, CountedIsCode
  <2>8. /\ geometry' = [data |-> data, parity |-> parity, block |-> block,
                        total |-> file_size]
        /\ file' \in FilesOf(geometry')
    BY <1>3, <2>5 DEF prepare_upload_state
  <2>9. FilesOf(geometry)' = FilesOf(geometry')
    BY DEF FilesOf, DataLength
  <2>10. CodeOf(geometry)'
    BY <2>7, <2>8 DEF CodeOf
  <2> QED
    BY <1>1, <1>2, <2>8, <2>9, <2>10 DEF CodeInv
<1>4. CASE ~ (rs' /\ shard_size' # 0 /\ file_size <= MaxCoded)
  <2>1. geometry' = geometry
    BY <1>4 DEF prepare_upload_state
  <2> QED
    BY <1>1, <1>2, <2>1 DEF CodeInv
<1> QED
  BY <1>3, <1>4

LEMMA CodeStays ==
  ASSUME CodeInv, UNCHANGED <<geometry, file, stored>>,
         stage' = "new" => stage = "new"
  PROVE  CodeInv'
BY DEF CodeInv

LEMMA CreateCode ==
  ASSUME CodeInv, create_parity_shards
  PROVE  CodeInv'
<1>1. stage' # "new"
  BY DEF create_parity_shards, Cut!create_parity_shards
<1>2. CASE geometry # NoGeometry /\ stage' = "coded"
  <2>1. CreateParityShards
    BY <1>2 DEF create_parity_shards
  <2>2. /\ geometry' = geometry /\ file' = file
        /\ stored' = file \o reed_solomon_encode(geometry, file)
    BY <2>1 DEF CreateParityShards
  <2>3. CodeOf(geometry) /\ file \in FilesOf(geometry)
    BY <1>2 DEF CodeInv
  <2> QED
    BY <1>1, <1>2, <2>2, <2>3 DEF CodeInv
<1>3. CASE ~ (geometry # NoGeometry /\ stage' = "coded")
  <2>1. UNCHANGED <<geometry, file, stored>>
    BY <1>3 DEF create_parity_shards, vars
  <2> QED
    BY <1>1, <2>1, CodeStays
<1> QED
  BY <1>2, <1>3

LEMMA ResolveCode ==
  ASSUME CodeInv, resolve_file
  PROVE  CodeInv'
<1>1. UNCHANGED <<geometry, file, stored>>
  BY DEF resolve_file, FetchShard, GiveUpShard, recover_shards
<1>2. stage' = stage
  BY DEF resolve_file, cut_vars
<1> QED
  BY <1>1, <1>2, CodeStays

LEMMA InitCode == FileInit => CodeInv
BY DEF FileInit, CodeInv

LEMMA NextCode ==
  CutInv /\ CodeInv /\ [FileNext]_<<vars, cut_vars>> => CodeInv'
<1> SUFFICES ASSUME CutInv, CodeInv, [FileNext]_<<vars, cut_vars>> PROVE CodeInv'
  OBVIOUS
<1>1. CASE prepare_upload_state
  BY <1>1, PrepareCode
<1>2. CASE create_parity_shards
  BY <1>2, CreateCode
<1>3. CASE resolve_file
  BY <1>3, ResolveCode
<1>4. CASE UNCHANGED <<vars, cut_vars>>
  BY <1>4, CodeStays DEF vars, cut_vars
<1> QED
  BY <1>1, <1>2, <1>3, <1>4 DEF FileNext

(* The lengths of the shards of a file. *)
LEMMA DataLengths ==
  ASSUME NEW g, CodeOf(g), NEW f \in FilesOf(g)
  PROVE  /\ g.data \in Nat \ {0} /\ g.block \in Nat \ {0} /\ g.total \in Nat
         /\ Len(f) = g.data
         /\ \E S : f \in Seq(S)
         /\ \A n \in 1..g.data :
              Len(f[n]) = IF n < g.data THEN g.block ELSE g.total - (g.data - 1) * g.block
         /\ Len(f[1]) = g.block
<1>1. PICK data \in Nat \ {0}, parity \in Nat, block \in Nat \ {0}, total \in Nat \ {0} :
        /\ g = [data |-> data, parity |-> parity, block |-> block, total |-> total]
        /\ data = 1 => total = block
  BY DEF CodeOf
<1>2. g.data = data /\ g.block = block /\ g.total = total
  BY <1>1
<1>3. PICK S : f \in [1..data -> S]
  BY <1>2 DEF FilesOf
<1>4. f \in Seq(S) /\ Len(f) = data
  BY <1>3
<1>5. ASSUME NEW n \in 1..data
      PROVE  Len(f[n]) = IF n < data THEN block ELSE total - (data - 1) * block
  <2>1. Len(f[n]) = DataLength(g, n - 1)
    BY <1>2 DEF FilesOf
  <2>2. DataLength(g, n - 1) = IF n - 1 < data - 1 THEN block ELSE total - (n - 1) * block
    BY <1>2 DEF DataLength
  <2>3. n - 1 < data - 1 <=> n < data
    OBVIOUS
  <2>4. ~ (n < data) => n = data
    OBVIOUS
  <2> QED
    BY <2>1, <2>2, <2>3, <2>4
<1>6. Len(f[1]) = block
  <2>1. 1 \in 1..data
    OBVIOUS
  <2>2. CASE 1 < data
    BY <1>5, <2>1, <2>2
  <2>3. CASE ~ (1 < data)
    <3>1. data = 1
      BY <2>3
    <3>2. PICK n \in 1..data : n = 1 /\ ~ (n < data)
      BY <2>1, <2>3
    <3>3. Len(f[n]) = total - (data - 1) * block
      BY <1>5, <3>2
    <3>4. (data - 1) * block = 0
      BY <3>1
    <3> QED
      BY <1>1, <3>1, <3>2, <3>3, <3>4
  <2> QED
    BY <2>2, <2>3
<1> QED
  BY <1>2, <1>4, <1>5, <1>6

LEMMA ParityShards ==
  ASSUME NEW g, CodeOf(g), NEW f
  PROVE  /\ g.parity \in Nat
         /\ \E S : reed_solomon_encode(g, f) \in Seq(S)
         /\ Len(reed_solomon_encode(g, f)) = g.parity
<1>1. PICK parity \in Nat : parity = g.parity
  BY DEF CodeOf
<1>2. PICK shard : reed_solomon_encode(g, f) = [i \in 1..parity |-> shard[i]]
  <2> DEFINE rows == sub_matrix(Matrices[g], g.data, g.data + g.parity)
             outputs == [i \in 1..g.parity |-> Zeros(g.block)]
             shards == [i \in 1..parity |-> CodeShard(rows[i - 1], f, outputs[i], g.data)]
  <2>1. reed_solomon_encode(g, f) = code_some_shards(rows, f, outputs, g.data)
    BY DEF reed_solomon_encode
  <2>2. DOMAIN outputs = 1..parity
    BY <1>1
  <2>3. code_some_shards(rows, f, outputs, g.data) = shards
    <3> HIDE DEF rows, outputs
    <3> QED
      BY <2>2 DEF code_some_shards
  <2>4. shards = [i \in 1..parity |-> shards[i]]
    OBVIOUS
  <2> QED
    BY <2>1, <2>3, <2>4
<1>3. PICK S : S = {shard[i] : i \in 1..parity}
  OBVIOUS
<1>4. [i \in 1..parity |-> shard[i]] \in [1..parity -> S]
  BY <1>3
<1>5. [i \in 1..parity |-> shard[i]] \in Seq(S) /\ Len([i \in 1..parity |-> shard[i]]) = parity
  BY <1>4
<1> QED
  BY <1>1, <1>2, <1>5

(* The equation of length in Received. *)
LengthStep(f, data, length) ==
  [n \in 0..data |-> IF n = 0 THEN 0 ELSE length[n - 1] + Len(f[n])]

(* All data shards but the last have the shard size. *)
LengthsOf(f, data, block, total) ==
  \A n \in 1..data :
    Len(f[n]) = IF n < data THEN block ELSE total - (data - 1) * block

LEMMA LengthsAdd ==
  ASSUME NEW f, NEW data \in Nat \ {0}, NEW block \in Nat, NEW total \in Nat,
         LengthsOf(f, data, block, total)
  PROVE  /\ \E c : c = LengthStep(f, data, c)
         /\ \A c : c = LengthStep(f, data, c) => c[data] = total
<1> DEFINE W == [n \in 0..data |-> IF n < data THEN n * block ELSE total]
<1>1. ASSUME NEW n \in 0..data
      PROVE  W[n] = IF n = 0 THEN 0 ELSE W[n - 1] + Len(f[n])
  <2>1. CASE n = 0
    BY <2>1
  <2>2. CASE n # 0
    <3>1. n \in 1..data /\ n - 1 \in 0..data /\ n - 1 < data
      BY <2>2
    <3>2. W[n - 1] = (n - 1) * block
      BY <3>1
    <3>3. PICK x \in Nat : x = (n - 1) * block
      <4>1. n - 1 \in Nat
        BY <3>1
      <4> QED
        BY <4>1, Product
    <3>4. n * block = x + block
      BY <3>1, <3>3
    <3>5. CASE n < data
      <4>1. Len(f[n]) = block
        BY <3>1, <3>5 DEF LengthsOf
      <4>2. W[n] = n * block
        BY <3>5
      <4> HIDE DEF W
      <4> QED
        BY <2>2, <3>2, <3>3, <3>4, <4>1, <4>2
    <3>6. CASE ~ (n < data)
      <4>1. n = data
        BY <3>6
      <4>2. Len(f[n]) = total - x
        BY <3>1, <3>3, <3>6, <4>1 DEF LengthsOf
      <4>3. W[n] = total
        BY <3>6
      <4>4. x + (total - x) = total
        OBVIOUS
      <4> HIDE DEF W
      <4> QED
        BY <2>2, <3>2, <3>3, <4>2, <4>3, <4>4
    <3> QED
      BY <3>5, <3>6
  <2> QED
    BY <2>1, <2>2
<1>2. W = LengthStep(f, data, W)
  BY <1>1 DEF LengthStep
<1>3. W[data] = total
  OBVIOUS
<1>4. ASSUME NEW c, c = LengthStep(f, data, c) PROVE c[data] = W[data]
  <2> HIDE DEF W
  <2> DEFINE S == {n \in Nat : n <= data => c[n] = W[n]}
  <2>1. 0 \in S
    <3>1. c[0] = 0 /\ W[0] = 0
      BY <1>1, <1>4 DEF LengthStep
    <3> QED
      BY <3>1
  <2>2. ASSUME NEW n \in S PROVE n + 1 \in S
    <3>1. SUFFICES ASSUME n + 1 <= data PROVE c[n + 1] = W[n + 1]
      OBVIOUS
    <3>2. n + 1 \in 0..data /\ n + 1 # 0 /\ (n + 1) - 1 = n /\ c[n] = W[n]
      BY <3>1
    <3>3. c[n + 1] = c[n] + Len(f[n + 1])
      BY <1>4, <3>2 DEF LengthStep
    <3>4. W[n + 1] = W[n] + Len(f[n + 1])
      BY <1>1, <3>2
    <3> QED
      BY <3>2, <3>3, <3>4
  <2>3. \A n \in Nat : n \in S
    <3>1. S \in SUBSET Nat
      OBVIOUS
    <3> HIDE DEF S
    <3> QED
      BY <2>1, <2>2, <3>1, NatSetInduction
  <2> QED
    BY <2>3
<1> QED
  BY <1>2, <1>3, <1>4

LEMMA GeometriesAgreeHolds == CodeInv => GeometriesAgree
<1> SUFFICES ASSUME CodeInv, stored # <<>> PROVE Received = geometry
  BY DEF GeometriesAgree
<1>1. CodeOf(geometry) /\ file \in FilesOf(geometry)
      /\ stored = file \o reed_solomon_encode(geometry, file)
  BY DEF CodeInv
<1>2. PICK data \in Nat \ {0}, parity \in Nat, block \in Nat \ {0}, total \in Nat \ {0} :
        geometry = [data |-> data, parity |-> parity, block |-> block, total |-> total]
  BY <1>1 DEF CodeOf
<1>3. PICK e : e = reed_solomon_encode(geometry, file)
  OBVIOUS
<1>4. /\ Len(file) = data
      /\ \A n \in 1..data :
           Len(file[n]) = IF n < data THEN block ELSE total - (data - 1) * block
      /\ Len(file[1]) = block
  BY <1>1, <1>2, DataLengths
<1>5. PICK S1 : file \in Seq(S1)
  BY <1>1, DataLengths
<1>6. PICK S2 : e \in Seq(S2)
  BY <1>1, <1>3, ParityShards
<1>7. Len(e) = parity
  BY <1>1, <1>2, <1>3, ParityShards
<1>8. Len(stored) = data + parity /\ \A n \in 1..data : stored[n] = file[n]
  <2>1. PICK S : S = S1 \union S2
    OBVIOUS
  <2>2. file \in Seq(S) /\ e \in Seq(S)
    BY <1>5, <1>6, <2>1
  <2>3. /\ Len(file \o e) = Len(file) + Len(e)
        /\ \A i \in 1..(Len(file) + Len(e)) :
             (file \o e)[i] = IF i <= Len(file) THEN file[i] ELSE e[i - Len(file)]
    BY <2>2, ConcatProperties
  <2>4. \A n \in 1..data : n \in 1..(data + parity) /\ n <= data
    OBVIOUS
  <2> QED
    BY <1>1, <1>3, <1>4, <1>7, <2>3, <2>4
<1>9. Len(stored) - geometry.parity = data /\ geometry.parity = parity
  BY <1>2, <1>8
<1>10. Len(stored[1]) = block
  <2>1. 1 \in 1..data
    OBVIOUS
  <2> QED
    BY <1>4, <1>8, <2>1
<1>11. LengthsOf(stored, data, block, total)
  BY <1>4, <1>8 DEF LengthsOf
<1>12. PICK length :
         /\ length = LengthStep(stored, data, length)
         /\ Received = [data |-> data, parity |-> parity, block |-> Len(stored[1]),
                        total |-> length[data]]
  <2>1. Received = [data |-> data, parity |-> parity, block |-> Len(stored[1]),
                    total |-> (CHOOSE c : c = LengthStep(stored, data, c))[data]]
    BY <1>9 DEF Received, LengthStep
  <2>2. \E c : c = LengthStep(stored, data, c)
    BY <1>11, LengthsAdd
  <2>3. (CHOOSE c : c = LengthStep(stored, data, c))
          = LengthStep(stored, data, CHOOSE c : c = LengthStep(stored, data, c))
    BY <2>2
  <2> QED
    BY <2>1, <2>3
<1>13. length[data] = total
  <2>1. \A c : c = LengthStep(stored, data, c) => c[data] = total
    BY <1>11, LengthsAdd
  <2> QED
    BY <1>12, <2>1
<1> QED
  BY <1>2, <1>10, <1>12, <1>13

(* What the download computes from the list of pointers, their parity      *)
(* flags, the size of the first and the sum of the sizes, is the code that *)
(* the upload chose from the size of the file, for a file of any size: a   *)
(* first shard that is shorter than the shard size never comes, because a  *)
(* coded file of one data shard fills it (prepare_upload_state,            *)
(* recover_shards).                                                        *)
THEOREM CodesAgree == FileSpec => []GeometriesAgree
<1>1. FileInit => CutInv /\ CodeInv
  BY InitCut, InitCode
<1>2. CutInv /\ CodeInv /\ [FileNext]_<<vars, cut_vars>> => (CutInv /\ CodeInv)'
  BY NextCut, NextCode
<1> QED
  BY <1>1, <1>2, GeometriesAgreeHolds, PTL DEF FileSpec

-----------------------------------------------------------------------------
(* The lists of shards that recovery makes.                                *)

(* The equation of upTo in Sorted. *)
SortStep(S, n, upTo) ==
  [i \in 0..n |->
     IF i = 0 THEN <<>>
     ELSE IF i - 1 \in S THEN Append(upTo[i - 1], i - 1) ELSE upTo[i - 1]]

LEMMA SortSolved ==
  ASSUME NEW S, NEW n \in Nat
  PROVE  \E upTo : upTo = SortStep(S, n, upTo)
<1> DEFINE T == {m \in Nat : \E upTo : upTo = SortStep(S, m, upTo)}
<1>1. 0 \in T
  <2> DEFINE W == [i \in 0..0 |-> <<>>]
  <2>1. W = SortStep(S, 0, W)
    BY DEF SortStep
  <2> QED
    BY <2>1
<1>2. ASSUME NEW m \in T PROVE m + 1 \in T
  <2>1. PICK f : f = SortStep(S, m, f)
    OBVIOUS
  <2> DEFINE W == [i \in 0..(m + 1) |->
                     IF i <= m THEN f[i] ELSE IF m \in S THEN Append(f[m], m) ELSE f[m]]
  <2>2. ASSUME NEW i \in 0..(m + 1)
        PROVE  W[i] = IF i = 0 THEN <<>>
                      ELSE IF i - 1 \in S THEN Append(W[i - 1], i - 1) ELSE W[i - 1]
    <3>1. CASE i = 0
      BY <2>1, <3>1 DEF SortStep
    <3>2. CASE i # 0 /\ i <= m
      <4>1. i \in 0..m /\ i - 1 \in 0..(m + 1) /\ i - 1 <= m
        BY <3>2
      <4>2. W[i] = f[i] /\ W[i - 1] = f[i - 1]
        BY <3>2, <4>1
      <4>3. f[i] = IF i - 1 \in S THEN Append(f[i - 1], i - 1) ELSE f[i - 1]
        BY <2>1, <3>2, <4>1 DEF SortStep
      <4> QED
        BY <3>2, <4>2, <4>3
    <3>3. CASE i # 0 /\ ~ (i <= m)
      <4>1. i = m + 1 /\ i - 1 = m /\ m \in 0..(m + 1) /\ m <= m
        BY <3>3
      <4>2. W[m] = f[m]
        BY <4>1
      <4>3. W[i] = IF m \in S THEN Append(f[m], m) ELSE f[m]
        BY <3>3
      <4> HIDE DEF W
      <4> QED
        BY <3>3, <4>1, <4>2, <4>3
    <3> QED
      BY <3>1, <3>2, <3>3
  <2>3. W = SortStep(S, m + 1, W)
    BY <2>2 DEF SortStep
  <2> QED
    BY <2>3
<1>3. \A m \in Nat : m \in T
  <2>1. T \in SUBSET Nat
    OBVIOUS
  <2> HIDE DEF T
  <2> QED
    BY <1>1, <1>2, <2>1, NatSetInduction
<1> QED
  BY <1>3

HoldsAll(list, S) == \A x \in S : \E j \in 1..Len(list) : list[j] = x

(* Sorted lists the members of its set, and each of them once. *)
LEMMA SortedLists ==
  ASSUME NEW n \in Nat, NEW S \in SUBSET (0..(n - 1))
  PROVE  /\ Sorted(S, n) \in Seq(S)
         /\ IsFiniteSet(S)
         /\ Len(Sorted(S, n)) = Cardinality(S)
         /\ HoldsAll(Sorted(S, n), S)
<1>1. PICK upTo : upTo = SortStep(S, n, upTo) /\ Sorted(S, n) = upTo[n]
  <2>1. Sorted(S, n) = (CHOOSE c : c = SortStep(S, n, c))[n]
    BY DEF Sorted, SortStep
  <2>2. (CHOOSE c : c = SortStep(S, n, c))
          = SortStep(S, n, CHOOSE c : c = SortStep(S, n, c))
    BY SortSolved
  <2> QED
    BY <2>1, <2>2
<1> DEFINE Below(i) == S \intersect (0..(i - 1))
           T == {i \in Nat : i <= n => /\ upTo[i] \in Seq(S)
                                       /\ IsFiniteSet(Below(i))
                                       /\ Len(upTo[i]) = Cardinality(Below(i))
                                       /\ HoldsAll(upTo[i], Below(i))}
<1>2. 0 \in T
  <2>1. upTo[0] = <<>> /\ Below(0) = {}
    BY <1>1 DEF SortStep
  <2>2. IsFiniteSet(Below(0)) /\ Cardinality(Below(0)) = 0
    BY <2>1, FS_EmptySet
  <2>3. <<>> \in Seq(S) /\ Len(<<>>) = 0 /\ HoldsAll(<<>>, {})
    BY DEF HoldsAll
  <2> QED
    BY <2>1, <2>2, <2>3
<1>3. ASSUME NEW i \in T PROVE i + 1 \in T
  <2> SUFFICES ASSUME i + 1 <= n
               PROVE  /\ upTo[i + 1] \in Seq(S)
                      /\ IsFiniteSet(Below(i + 1))
                      /\ Len(upTo[i + 1]) = Cardinality(Below(i + 1))
                      /\ HoldsAll(upTo[i + 1], Below(i + 1))
    OBVIOUS
  <2>1. /\ i \in Nat /\ i + 1 \in 0..n /\ i + 1 # 0 /\ (i + 1) - 1 = i
        /\ upTo[i] \in Seq(S)
        /\ IsFiniteSet(Below(i)) /\ Len(upTo[i]) = Cardinality(Below(i))
        /\ HoldsAll(upTo[i], Below(i))
    OBVIOUS
  <2>2. upTo[i + 1] = IF i \in S THEN Append(upTo[i], i) ELSE upTo[i]
    BY <1>1, <2>1 DEF SortStep
  <2>3. CASE i \in S
    <3>1. Below(i + 1) = Below(i) \union {i} /\ i \notin Below(i)
      BY <2>1, <2>3
    <3>2. /\ IsFiniteSet(Below(i) \union {i})
          /\ Cardinality(Below(i) \union {i}) = Cardinality(Below(i)) + 1
      <4> HIDE DEF Below
      <4> QED
        BY <2>1, <3>1, FS_AddElement
    <3>3. Append(upTo[i], i) \in Seq(S) /\ Len(Append(upTo[i], i)) = Len(upTo[i]) + 1
      BY <2>1, <2>3
    <3>4. HoldsAll(Append(upTo[i], i), Below(i) \union {i})
      <4> HIDE DEF Below
      <4>1. PICK list \in Seq(S) : list = upTo[i]
        BY <2>1
      <4>2. ASSUME NEW x \in Below(i)
            PROVE  \E j \in 1..Len(Append(list, i)) : Append(list, i)[j] = x
        <5>1. PICK j \in 1..Len(list) : list[j] = x
          BY <2>1, <4>1 DEF HoldsAll
        <5>2. j \in 1..Len(Append(list, i)) /\ Append(list, i)[j] = x
          BY <2>3, <5>1
        <5> QED
          BY <5>2
      <4>3. \E j \in 1..Len(Append(list, i)) : Append(list, i)[j] = i
        <5>1. /\ Len(list) + 1 \in 1..Len(Append(list, i))
              /\ Append(list, i)[Len(list) + 1] = i
          BY <2>3
        <5> QED
          BY <5>1
      <4> QED
        BY <4>1, <4>2, <4>3 DEF HoldsAll
    <3> HIDE DEF Below
    <3> QED
      BY <2>1, <2>2, <2>3, <3>1, <3>2, <3>3, <3>4
  <2>4. CASE i \notin S
    <3>1. Below(i + 1) = Below(i)
      BY <2>1, <2>4
    <3> HIDE DEF Below
    <3> QED
      BY <2>1, <2>2, <2>4, <3>1
  <2> QED
    BY <2>3, <2>4
<1>4. \A i \in Nat : i \in T
  <2>1. T \in SUBSET Nat
    OBVIOUS
  <2> HIDE DEF T
  <2> QED
    BY <1>2, <1>3, <2>1, NatSetInduction
<1>5. Below(n) = S
  OBVIOUS
<1>6. /\ upTo[n] \in Seq(S)
      /\ IsFiniteSet(Below(n)) /\ Len(upTo[n]) = Cardinality(Below(n))
      /\ HoldsAll(upTo[n], Below(n))
  <2>1. n \in T
    <3> HIDE DEF T
    <3> QED
      BY <1>4
  <2> HIDE DEF Below
  <2> QED
    BY <2>1
<1> HIDE DEF Below, T
<1> QED
  BY <1>1, <1>5, <1>6

(* As many parity shards are there as data shards are missing, or more,    *)
(* when no more are missing than there are parity shards.                  *)
LEMMA ParityIsEnough ==
  ASSUME NEW data \in Nat, NEW parity \in Nat,
         NEW marks \in SUBSET (0..(data + parity - 1)), Cardinality(marks) <= parity
  PROVE  Cardinality(marks \intersect (0..(data - 1)))
           <= Cardinality((data..(data + parity - 1)) \ marks)
<1> DEFINE D == marks \intersect (0..(data - 1))
           P == data..(data + parity - 1)
           L == P \intersect marks
<1>1. IsFiniteSet(P) /\ Cardinality(P) = parity
  <2>1. data \in Int /\ data + parity - 1 \in Int
    OBVIOUS
  <2>2. /\ IsFiniteSet(P)
        /\ Cardinality(P) = IF data > data + parity - 1 THEN 0
                            ELSE data + parity - 1 - data + 1
    BY <2>1, FS_Interval
  <2> QED
    BY <2>2
<1>2. IsFiniteSet(0..(data + parity - 1))
  BY FS_Interval
<1>3. IsFiniteSet(marks)
  BY <1>2, FS_Subset
<1>4. IsFiniteSet(D) /\ IsFiniteSet(L)
  BY <1>3, FS_Subset
<1>5. marks = D \union L /\ D \intersect L = {}
  <2>1. ASSUME NEW s \in marks
        PROVE  s \in 0..(data - 1) <=> s \notin P
    <3>1. s \in 0..(data + parity - 1)
      OBVIOUS
    <3> QED
      BY <3>1
  <2> HIDE DEF P
  <2> QED
    BY <2>1
<1>6. Cardinality(marks) = Cardinality(D) + Cardinality(L) - 0
  <2>1. Cardinality(D \intersect L) = 0
    BY <1>5, FS_EmptySet
  <2>2. Cardinality(D \union L)
          = Cardinality(D) + Cardinality(L) - Cardinality(D \intersect L)
    <3> HIDE DEF D, L
    <3> QED
      BY <1>4, FS_Union
  <2> HIDE DEF D, L
  <2> QED
    BY <1>5, <2>1, <2>2
<1>7. Cardinality(P \ marks) = parity - Cardinality(L)
  BY <1>1, FS_Difference
<1>8. Cardinality(D) \in Nat /\ Cardinality(L) \in Nat
  BY <1>4, FS_CardinalityType
<1>9. Cardinality(D) <= Cardinality(P \ marks)
  <2> HIDE DEF D, P, L
  <2> QED
    BY <1>6, <1>7, <1>8
<1> QED
  BY <1>9

MembersOf(list, S) == \A i \in DOMAIN list : list[i] \in S

(* Only the shards to repair are written to. *)
LEMMA DecodeKeeps ==
  ASSUME NEW g, NEW blocks, NEW S, NEW erased, MembersOf(erased, S), NEW fec
  PROVE  /\ DOMAIN reed_solomon_decode(g, blocks, erased, fec) = DOMAIN blocks
         /\ \A s \in DOMAIN blocks :
              s \notin S => reed_solomon_decode(g, blocks, erased, fec)[s] = blocks[s]
<1>1. PICK repaired :
        reed_solomon_decode(g, blocks, erased, fec)
          = [s \in DOMAIN blocks |->
               IF \E i \in DOMAIN erased : erased[i] = s
               THEN repaired[CHOOSE i \in DOMAIN erased : erased[i] = s]
               ELSE blocks[s]]
  BY DEF reed_solomon_decode
<1>2. \A s : s \notin S => ~ \E i \in DOMAIN erased : erased[i] = s
  BY DEF MembersOf
<1> QED
  BY <1>1, <1>2

LEMMA Reconstructs ==
  ASSUME NEW g, NEW data \in Nat, NEW parity \in Nat,
         g.data = data, g.parity = parity,
         NEW marks \in SUBSET (0..(data + parity - 1)), Cardinality(marks) <= parity,
         NEW blocks, NEW r, r = reed_solomon_reconstruct(g, blocks, marks)
  PROVE  /\ r.error = 0
         /\ DOMAIN r.blocks = DOMAIN blocks
         /\ \A s \in DOMAIN blocks : s \notin marks => r.blocks[s] = blocks[s]
<1> DEFINE D == marks \intersect (0..(data - 1))
           V == (data..(data + parity - 1)) \ marks
<1>1. PICK erased : erased = Sorted(D, data)
  OBVIOUS
<1>2. PICK valid : valid = Sorted(V, data + parity)
  OBVIOUS
<1>3. erased \in Seq(D) /\ Len(erased) = Cardinality(D)
  <2>1. D \in SUBSET (0..(data - 1))
    OBVIOUS
  <2> HIDE DEF D
  <2> QED
    BY <1>1, <2>1, SortedLists
<1>4. Len(valid) = Cardinality(V)
  <2>1. V \in SUBSET (0..((data + parity) - 1)) /\ data + parity \in Nat
    OBVIOUS
  <2> HIDE DEF V
  <2> QED
    BY <1>2, <2>1, SortedLists
<1>5. Len(valid) >= Len(erased) /\ Len(erased) \in Nat /\ Len(valid) \in Nat
  <2>1. IsFiniteSet(D) /\ IsFiniteSet(V)
    <3>1. IsFiniteSet(0..(data - 1)) /\ IsFiniteSet(data..(data + parity - 1))
      BY FS_Interval
    <3> QED
      BY <3>1, FS_Subset
  <2>2. Cardinality(D) \in Nat /\ Cardinality(V) \in Nat
    BY <2>1, FS_CardinalityType
  <2>3. Cardinality(D) <= Cardinality(V)
    BY ParityIsEnough
  <2> HIDE DEF D, V
  <2> QED
    BY <1>3, <1>4, <2>2, <2>3
<1>6. reed_solomon_reconstruct(g, blocks, marks)
        = CASE Len(erased) = 0 -> [blocks |-> blocks, error |-> 0]
            [] Len(erased) > 0 /\ Len(valid) >= Len(erased) ->
                 [blocks |-> reed_solomon_decode(g, blocks, erased,
                                                 SubSeq(valid, 1, Len(erased))),
                  error |-> 0]
            [] OTHER -> [blocks |-> blocks, error |-> 1]
  BY <1>1, <1>2 DEF reed_solomon_reconstruct
<1>7. CASE Len(erased) = 0
  <2>1. r = [blocks |-> blocks, error |-> 0]
    BY <1>6, <1>7
  <2> QED
    BY <2>1
<1>8. CASE Len(erased) # 0
  <2>1. PICK fec : fec = SubSeq(valid, 1, Len(erased))
    OBVIOUS
  <2>2. r = [blocks |-> reed_solomon_decode(g, blocks, erased, fec), error |-> 0]
    <3>1. Len(erased) > 0
      BY <1>5, <1>8
    <3> QED
      BY <1>5, <1>6, <1>8, <2>1, <3>1
  <2>3. /\ DOMAIN reed_solomon_decode(g, blocks, erased, fec) = DOMAIN blocks
        /\ \A s \in DOMAIN blocks :
             s \notin D => reed_solomon_decode(g, blocks, erased, fec)[s] = blocks[s]
    <3>1. PICK S : S = D
      OBVIOUS
    <3>2. MembersOf(erased, S)
      BY <1>3, <3>1 DEF MembersOf
    <3>3. /\ DOMAIN reed_solomon_decode(g, blocks, erased, fec) = DOMAIN blocks
          /\ \A s \in DOMAIN blocks :
               s \notin S => reed_solomon_decode(g, blocks, erased, fec)[s] = blocks[s]
      BY <3>2, DecodeKeeps
    <3> QED
      BY <3>1, <3>3
  <2> QED
    BY <2>2, <2>3
<1> QED
  BY <1>7, <1>8

-----------------------------------------------------------------------------
(* The types of the counts.                                                *)

LEMMA TwoThirds ==
  ASSUME NEW data \in Nat
  PROVE  Cut!DivideUp(2 * data, 3) \in 0..data
<1>1. PICK parity : parity = Cut!DivideUp(2 * data, 3)
  OBVIOUS
<1>2. parity \in Nat /\ parity * 3 < 2 * data + 3
  <2>1. PICK three \in Nat \ {0}, twice \in Nat : three = 3 /\ twice = 2 * data
    OBVIOUS
  <2>2. Cut!DivideUp(twice, three) \in Nat /\ Cut!DivideUp(twice, three) * three < twice + three
    BY DividedUp
  <2> QED
    BY <1>1, <2>1, <2>2
<1>3. parity <= data
  BY <1>2
<1> QED
  BY <1>1, <1>2, <1>3

LEMMA LargestSize == MAX_SHARD_SIZE \in Nat
BY LargestExists, ShardSizeOfPositive DEF Largest

LEMMA PrepareTypes ==
  ASSUME CutInv, Cut!TypeOK, Cut!prepare_upload_state
  PROVE  Cut!TypeOK'
<1>1. stage' = "prepared" /\ stage = "new" /\ error_status = "none" /\ file_size' = file_size
  BY DEF CutInv, Cut!prepare_upload_state
<1>2. CASE shard_size' = 0
  <2>1. UNCHANGED <<total_data_shards, total_parity_shards>>
    BY <1>2 DEF Cut!prepare_upload_state
  <2> QED
    BY <1>1, <1>2, <2>1, LargestSize DEF Cut!TypeOK
<1>3. CASE shard_size' # 0
  <2>1. error_status' = "none"
    BY <1>1, <1>3 DEF Cut!prepare_upload_state
  <2>2. Counted'
    BY <1>1, <2>1, PrepareCounts DEF CutInv
  <2>3. PICK size \in Nat \ {0} : size = shard_size'
    BY <2>2 DEF Counted
  <2> DEFINE data == total_data_shards'
             parity == total_parity_shards'
  <2>4. /\ file_size \in Nat \ {0} /\ Suitable(file_size, size)
        /\ data = Cut!DivideUp(file_size, size)
    BY <1>1, <2>2, <2>3 DEF Counted
  <2>5. size <= MAX_SHARD_SIZE
    <3>1. size \in Cut!Multiples
      BY <2>4, SuitableIsSmallest
    <3> QED
      BY <3>1 DEF Cut!Multiples
  <2>6. data \in Nat
    BY <2>4, SuitableCovers
  <2>7. parity = IF rs' THEN Cut!DivideUp(2 * data, 3) ELSE 0
    BY <1>3, <2>3 DEF Cut!prepare_upload_state
  <2>8. parity \in 0..data
    BY <2>6, <2>7, TwoThirds
  <2>9. size \in 0..MAX_SHARD_SIZE
    BY <2>5, LargestSize
  <2> QED
    BY <1>1, <2>3, <2>6, <2>8, <2>9 DEF Cut!TypeOK
<1> QED
  BY <1>2, <1>3

LEMMA NextTypes ==
  CutInv /\ Cut!TypeOK /\ [FileNext]_<<vars, cut_vars>> => Cut!TypeOK'
<1> SUFFICES ASSUME CutInv, Cut!TypeOK, [FileNext]_<<vars, cut_vars>> PROVE Cut!TypeOK'
  OBVIOUS
<1>1. CASE prepare_upload_state
  BY <1>1, PrepareTypes DEF prepare_upload_state
<1>2. CASE create_parity_shards
  BY <1>2 DEF create_parity_shards, Cut!create_parity_shards, Cut!TypeOK
<1>3. CASE UNCHANGED cut_vars
  BY <1>3 DEF cut_vars, Cut!TypeOK
<1> QED
  BY <1>1, <1>2, <1>3 DEF FileNext, resolve_file

(* The shard size stays within its limit and the counts are numbers, with  *)
(* never more parity shards than data shards (determine_shard_size,        *)
(* prepare_upload_state).                                                  *)
THEOREM CutTypes == FileSpec => []Cut!TypeOK
<1>1. FileInit => Cut!TypeOK
  <2> SUFFICES ASSUME FileInit PROVE Cut!TypeOK
    OBVIOUS
  <2>1. /\ shard_size = 0 /\ total_data_shards = 0 /\ total_parity_shards = 0
        /\ stage = "new"
    BY DEF FileInit, Cut!Init
  <2> QED
    BY <2>1, LargestSize DEF Cut!TypeOK
<1> QED
  BY <1>1, InitCut, NextCut, NextTypes, PTL DEF FileSpec

-----------------------------------------------------------------------------
(* What a download has of a coded file.                                    *)

(* The shards given up and the shards fetched are different ones, and      *)
(* recovery starts when there are no others.                               *)
FetchInv ==
  /\ stored = <<>> => missing = {} /\ fetched = {} /\ result = "none"
  /\ missing \subseteq Shards /\ fetched \subseteq Shards
  /\ missing \intersect fetched = {}
  /\ geometry # NoGeometry => DOMAIN destination = Shards
  /\ \A s \in fetched : destination[s] = stored[s + 1]
  /\ result # "none" => missing \union fetched = Shards
  /\ result \in {"none", "ok"}

LEMMA FetchStays == FetchInv /\ UNCHANGED vars => FetchInv'
BY DEF FetchInv, vars, Shards

LEMMA PrepareFetch ==
  ASSUME CodeInv, FetchInv, prepare_upload_state
  PROVE  FetchInv' /\ FetchedStay
<1>1. stage = "new" /\ UNCHANGED <<stored, missing, fetched, result>>
  BY DEF prepare_upload_state, Cut!prepare_upload_state
<1>2. geometry = NoGeometry /\ stored = <<>>
  BY <1>1 DEF CodeInv
<1>3. missing = {} /\ fetched = {} /\ result = "none"
  BY <1>2 DEF FetchInv
<1>4. geometry' # NoGeometry => DOMAIN destination' = Shards'
  <2>1. CASE rs' /\ shard_size' # 0 /\ file_size <= MaxCoded
    <3>1. destination' = Untouched(geometry')
      BY <2>1 DEF prepare_upload_state
    <3> QED
      BY <3>1 DEF Untouched, Shards
  <2>2. CASE ~ (rs' /\ shard_size' # 0 /\ file_size <= MaxCoded)
    BY <1>2, <2>2 DEF prepare_upload_state
  <2> QED
    BY <2>1, <2>2
<1> QED
  BY <1>1, <1>3, <1>4 DEF FetchInv, FetchedStay

LEMMA CreateFetch ==
  ASSUME FetchInv, create_parity_shards
  PROVE  FetchInv' /\ FetchedStay
<1>1. CASE CreateParityShards
  <2>1. stored = <<>> /\ UNCHANGED <<geometry, file, destination, missing, fetched, result>>
    BY <1>1 DEF CreateParityShards
  <2>2. missing = {} /\ fetched = {} /\ result = "none"
    BY <2>1 DEF FetchInv
  <2>3. Shards' = Shards
    BY <2>1 DEF Shards
  <2> QED
    BY <2>1, <2>2, <2>3 DEF FetchInv, FetchedStay
<1>2. CASE UNCHANGED vars
  <2>1. FetchInv'
    BY <1>2, FetchStays
  <2> QED
    BY <1>2, <2>1 DEF vars, FetchedStay
<1> QED
  BY <1>1, <1>2 DEF create_parity_shards

LEMMA OneShardFetch ==
  ASSUME CodeInv, FetchInv, NEW s \in Shards, FetchShard(s)
  PROVE  FetchInv' /\ FetchedStay
<1>1. /\ stored # <<>> /\ s \notin missing \union fetched
      /\ destination' = [destination EXCEPT ![s] = stored[s + 1]]
      /\ fetched' = fetched \union {s}
      /\ UNCHANGED <<geometry, file, stored, missing, result>>
  BY DEF FetchShard
<1>2. DOMAIN destination = Shards
  BY <1>1 DEF CodeInv, FetchInv
<1>3. Shards' = Shards
  BY <1>1 DEF Shards
<1>4. FetchedStay
  BY <1>1, <1>2 DEF FetchedStay, FetchInv
<1>5. \A t \in fetched' : destination'[t] = stored'[t + 1]
  BY <1>1, <1>2, <1>4 DEF FetchInv, FetchedStay
<1>6. DOMAIN destination' = Shards'
  BY <1>1, <1>2, <1>3
<1>7. result = "none"
  BY <1>1 DEF FetchInv
<1> QED
  BY <1>1, <1>3, <1>4, <1>5, <1>6, <1>7 DEF FetchInv

LEMMA OneShardGivenUp ==
  ASSUME CodeInv, FetchInv, NEW s \in Shards, GiveUpShard(s)
  PROVE  FetchInv' /\ FetchedStay
<1>1. /\ stored # <<>> /\ s \notin missing \union fetched
      /\ missing' = missing \union {s}
      /\ UNCHANGED <<geometry, file, stored, fetched, result>>
  BY DEF GiveUpShard
<1>2. PICK left : destination' = [destination EXCEPT ![s] = left]
  BY DEF GiveUpShard
<1>3. DOMAIN destination = Shards /\ DOMAIN destination' = DOMAIN destination
  BY <1>1, <1>2 DEF CodeInv, FetchInv
<1>4. Shards' = Shards
  BY <1>1 DEF Shards
<1>5. FetchedStay
  BY <1>1, <1>2, <1>3 DEF FetchedStay, FetchInv
<1>6. \A t \in fetched' : destination'[t] = stored'[t + 1]
  BY <1>1, <1>5 DEF FetchInv, FetchedStay
<1>7. result = "none"
  BY <1>1 DEF FetchInv
<1> QED
  BY <1>1, <1>3, <1>4, <1>5, <1>6, <1>7 DEF FetchInv

(* Recovery is let through with what it needs, and leaves what it has.     *)
LEMMA RecoverFetch ==
  ASSUME CodeInv, FetchInv, recover_shards
  PROVE  FetchInv' /\ FetchedStay
<1>1. /\ stored # <<>> /\ missing \union fetched = Shards
      /\ Cardinality(missing) <= geometry.parity
      /\ UNCHANGED <<geometry, file, stored, missing, fetched>>
  BY DEF recover_shards, Recoverable
<1>2. DOMAIN destination = Shards
  BY <1>1 DEF CodeInv, FetchInv
<1>3. CodeOf(geometry) /\ Received = geometry
  BY <1>1, GeometriesAgreeHolds DEF CodeInv, GeometriesAgree
<1>4. PICK data \in Nat, parity \in Nat : geometry.data = data /\ geometry.parity = parity
  BY <1>3 DEF CodeOf
<1>5. PICK r :
        /\ r = IF missing = {} THEN [blocks |-> destination, error |-> 0]
               ELSE reed_solomon_reconstruct(geometry, destination, missing)
        /\ destination' = r.blocks
        /\ result' = IF r.error = 0 THEN "ok" ELSE "STORJ_FILE_RECOVER_ERROR"
  BY <1>3 DEF recover_shards
<1>6. /\ r.error = 0
      /\ DOMAIN r.blocks = DOMAIN destination
      /\ \A s \in DOMAIN destination : s \notin missing => r.blocks[s] = destination[s]
  <2>1. CASE missing = {}
    BY <1>5, <2>1
  <2>2. CASE missing # {}
    <3>1. PICK marks, blocks : marks = missing /\ blocks = destination
      OBVIOUS
    <3>2. marks \in SUBSET (0..(data + parity - 1)) /\ Cardinality(marks) <= parity
      BY <1>1, <1>4, <3>1 DEF Shards
    <3>3. r = reed_solomon_reconstruct(geometry, blocks, marks)
      BY <1>5, <2>2, <3>1
    <3>4. /\ r.error = 0
          /\ DOMAIN r.blocks = DOMAIN blocks
          /\ \A s \in DOMAIN blocks : s \notin marks => r.blocks[s] = blocks[s]
      BY <1>4, <3>2, <3>3, Reconstructs
    <3> QED
      BY <3>1, <3>4
  <2> QED
    BY <2>1, <2>2
<1>7. FetchedStay
  BY <1>2, <1>5, <1>6 DEF FetchInv, FetchedStay
<1>8. Shards' = Shards
  BY <1>1 DEF Shards
<1>9. \A t \in fetched' : destination'[t] = stored'[t + 1]
  BY <1>1, <1>7 DEF FetchInv, FetchedStay
<1>10. DOMAIN destination' = Shards' /\ result' = "ok"
  BY <1>2, <1>5, <1>6, <1>8
<1> QED
  BY <1>1, <1>7, <1>8, <1>9, <1>10 DEF FetchInv

LEMMA InitFetch == FileInit => FetchInv
<1> SUFFICES ASSUME FileInit PROVE FetchInv
  OBVIOUS
<1>1. /\ geometry = NoGeometry /\ missing = {} /\ fetched = {} /\ result = "none"
  BY DEF FileInit
<1> QED
  BY <1>1 DEF FetchInv

LEMMA NextFetch ==
  CodeInv /\ FetchInv /\ [FileNext]_<<vars, cut_vars>>
    => FetchInv' /\ [FetchedStay]_vars
<1> SUFFICES ASSUME CodeInv, FetchInv, [FileNext]_<<vars, cut_vars>>
             PROVE  FetchInv' /\ [FetchedStay]_vars
  OBVIOUS
<1>1. CASE prepare_upload_state
  BY <1>1, PrepareFetch
<1>2. CASE create_parity_shards
  BY <1>2, CreateFetch
<1>3. CASE resolve_file
  <2>1. ASSUME NEW s \in Shards, FetchShard(s) PROVE FetchInv' /\ FetchedStay
    BY <2>1, OneShardFetch
  <2>2. ASSUME NEW s \in Shards, GiveUpShard(s) PROVE FetchInv' /\ FetchedStay
    BY <2>2, OneShardGivenUp
  <2>3. CASE recover_shards
    BY <2>3, RecoverFetch
  <2> QED
    BY <1>3, <2>1, <2>2, <2>3 DEF resolve_file
<1>4. CASE UNCHANGED vars
  BY <1>4, FetchStays
<1> QED
  BY <1>1, <1>2, <1>3, <1>4 DEF FileNext

LEMMA AllOfIt == FileSpec => [](CutInv /\ CodeInv /\ FetchInv)
BY InitCut, InitCode, InitFetch, NextCut, NextCode, NextFetch, PTL DEF FileSpec

(* Recovery never fails once can_recover_shards has let the download       *)
(* through: with as many shards missing as there are parity shards, of     *)
(* whichever kind, the parity rows left are as many as the data shards     *)
(* missing, and reed_solomon_reconstruct does not run out of them.         *)
THEOREM AcceptedRecovers == FileSpec => []AcceptedIsRecovered
<1>1. FetchInv => AcceptedIsRecovered
  BY DEF FetchInv, AcceptedIsRecovered
<1> QED
  BY <1>1, AllOfIt, PTL

(* No step writes to a shard that was fetched, recovery included: the part *)
(* of RepairsOverStaleBytes that needs nothing of the field.               *)
THEOREM FetchedKept == FileSpec => [][FetchedStay]_vars
BY AllOfIt, NextFetch, PTL DEF FileSpec

(* The data shards a download has fetched. *)
FetchedIsFile == \A i \in fetched \intersect DataShards : destination[i] = file[i + 1]

LEMMA FetchedData == CodeInv /\ FetchInv => FetchedIsFile
<1> SUFFICES ASSUME CodeInv, FetchInv, NEW i \in fetched \intersect DataShards
             PROVE  destination[i] = file[i + 1]
  BY DEF FetchedIsFile
<1>1. stored # <<>>
  BY DEF FetchInv
<1>2. /\ CodeOf(geometry) /\ file \in FilesOf(geometry)
      /\ stored = file \o reed_solomon_encode(geometry, file)
  BY <1>1 DEF CodeInv
<1>3. PICK data \in Nat, parity \in Nat : geometry.data = data /\ geometry.parity = parity
  BY <1>2 DEF CodeOf
<1>4. PICK e : e = reed_solomon_encode(geometry, file)
  OBVIOUS
<1>5. Len(file) = data
  BY <1>2, <1>3, DataLengths
<1>6. PICK S1 : file \in Seq(S1)
  BY <1>2, DataLengths
<1>7. PICK S2 : e \in Seq(S2)
  BY <1>2, <1>4, ParityShards
<1>8. PICK n \in 1..data : n = i + 1
  BY <1>3 DEF DataShards
<1>9. stored[n] = file[n]
  <2>1. PICK S : S = S1 \union S2
    OBVIOUS
  <2>2. file \in Seq(S) /\ e \in Seq(S)
    BY <1>6, <1>7, <2>1
  <2>3. \A k \in 1..(Len(file) + Len(e)) :
          (file \o e)[k] = IF k <= Len(file) THEN file[k] ELSE e[k - Len(file)]
    BY <2>2, ConcatProperties
  <2>4. Len(e) \in Nat
    BY <2>2
  <2>5. n \in 1..(data + Len(e)) /\ n <= data
    BY <2>4
  <2> QED
    BY <1>2, <1>4, <1>5, <2>3, <2>5
<1>10. destination[i] = stored[i + 1]
  BY DEF FetchInv
<1> QED
  BY <1>8, <1>9, <1>10

(* A data shard that a download has fetched is the uploader's, at every    *)
(* moment and after any recovery.                                          *)
THEOREM FetchedIsTheFile == FileSpec => []FetchedIsFile
BY AllOfIt, FetchedData, PTL

(* Bytes of failed attempts reach a recovered file only where a data shard *)
(* was given up: when none was, whatever was left in the parity shards,    *)
(* the data shards of a recovered file are the uploader's.                 *)
THEOREM WholeWithoutLoss ==
  FileSpec => [](missing \intersect DataShards = {} => RepairsMissingData)
<1>1. CodeInv /\ FetchInv /\ FetchedIsFile =>
        (missing \intersect DataShards = {} => RepairsMissingData)
  <2> SUFFICES ASSUME CodeInv, FetchInv, FetchedIsFile, missing \intersect DataShards = {},
                      result = "ok", NEW i \in DataShards
               PROVE  destination[i] = file[i + 1]
    BY DEF RepairsMissingData
  <2>1. missing \union fetched = Shards /\ stored # <<>>
    BY DEF FetchInv
  <2>2. PICK data \in Nat, parity \in Nat : geometry.data = data /\ geometry.parity = parity
    BY <2>1 DEF CodeInv, CodeOf
  <2>3. i \in Shards /\ i \notin missing
    BY <2>2 DEF DataShards, Shards
  <2>4. i \in fetched
    BY <2>1, <2>3
  <2> QED
    BY <2>4 DEF FetchedIsFile
<1> QED
  BY <1>1, AllOfIt, FetchedIsTheFile, PTL

-----------------------------------------------------------------------------
(* Recursions over 0..k, in a set of values.                               *)

(* The equation of a function that starts with base and goes on with G.    *)
IterStep(base, G, k, f) ==
  [n \in 0..k |-> IF n = 0 THEN base ELSE G[<<n, f[n - 1]>>]]

StaysIn(f, T, k) == \A n \in 1..k : f[n - 1] \in T => f[n] \in T

LEMMA Stays ==
  ASSUME NEW T, NEW k \in Nat, NEW f, f[0] \in T, StaysIn(f, T, k)
  PROVE  \A n \in 0..k : f[n] \in T
<1> DEFINE S == {n \in Nat : n <= k => f[n] \in T}
<1>1. 0 \in S
  OBVIOUS
<1>2. ASSUME NEW n \in S PROVE n + 1 \in S
  <2>1. SUFFICES ASSUME n + 1 <= k PROVE f[n + 1] \in T
    OBVIOUS
  <2>2. n + 1 \in 1..k /\ (n + 1) - 1 = n /\ f[n] \in T
    BY <2>1
  <2> QED
    BY <2>2 DEF StaysIn
<1>3. \A n \in Nat : n \in S
  <2>1. S \in SUBSET Nat
    OBVIOUS
  <2> HIDE DEF S
  <2> QED
    BY <1>1, <1>2, <2>1, NatSetInduction
<1> QED
  BY <1>3

LEMMA IterSolved ==
  ASSUME NEW base, NEW G, NEW k \in Nat
  PROVE  \E f : f = IterStep(base, G, k, f)
<1> DEFINE T == {m \in Nat : \E f : f = IterStep(base, G, m, f)}
<1>1. 0 \in T
  <2> DEFINE W == [n \in 0..0 |-> base]
  <2>1. W = IterStep(base, G, 0, W)
    BY DEF IterStep
  <2> QED
    BY <2>1
<1>2. ASSUME NEW m \in T PROVE m + 1 \in T
  <2>1. PICK f : f = IterStep(base, G, m, f)
    OBVIOUS
  <2> DEFINE W == [n \in 0..(m + 1) |-> IF n <= m THEN f[n] ELSE G[<<m + 1, f[m]>>]]
  <2>2. ASSUME NEW n \in 0..(m + 1)
        PROVE  W[n] = IF n = 0 THEN base ELSE G[<<n, W[n - 1]>>]
    <3>1. CASE n = 0
      BY <2>1, <3>1 DEF IterStep
    <3>2. CASE n # 0 /\ n <= m
      <4>1. n \in 0..m /\ n - 1 \in 0..(m + 1) /\ n - 1 <= m
        BY <3>2
      <4>2. W[n] = f[n] /\ W[n - 1] = f[n - 1]
        BY <3>2, <4>1
      <4>3. f[n] = G[<<n, f[n - 1]>>]
        BY <2>1, <3>2, <4>1 DEF IterStep
      <4> HIDE DEF W
      <4> QED
        BY <3>2, <4>2, <4>3
    <3>3. CASE n # 0 /\ ~ (n <= m)
      <4>1. n = m + 1 /\ n - 1 = m /\ m \in 0..(m + 1) /\ m <= m
        BY <3>3
      <4>2. W[m] = f[m]
        BY <4>1
      <4>3. W[n] = G[<<m + 1, f[m]>>]
        BY <3>3
      <4> HIDE DEF W
      <4> QED
        BY <3>3, <4>1, <4>2, <4>3
    <3> QED
      BY <3>1, <3>2, <3>3
  <2>3. W = IterStep(base, G, m + 1, W)
    BY <2>2 DEF IterStep
  <2> QED
    BY <2>3
<1>3. \A m \in Nat : m \in T
  <2>1. T \in SUBSET Nat
    OBVIOUS
  <2> HIDE DEF T
  <2> QED
    BY <1>1, <1>2, <2>1, NatSetInduction
<1> QED
  BY <1>3

StepsIn(G, T, k) == G \in [(1..k) \X T -> T]

(* With values of a set, the steps may be of that set only. *)
LEMMA IterTyped ==
  ASSUME NEW T, NEW base \in T, NEW k \in Nat, NEW G, StepsIn(G, T, k)
  PROVE  \E f \in [0..k -> T] : f = IterStep(base, G, k, f)
<1>1. PICK f : f = IterStep(base, G, k, f)
  BY IterSolved
<1>2. f[0] = base
  BY <1>1 DEF IterStep
<1>3. ASSUME NEW n \in 1..k, f[n - 1] \in T PROVE f[n] \in T
  <2>1. f[n] = G[<<n, f[n - 1]>>]
    BY <1>1 DEF IterStep
  <2>2. <<n, f[n - 1]>> \in (1..k) \X T
    BY <1>3
  <2> QED
    BY <2>1, <2>2 DEF StepsIn
<1>4. StaysIn(f, T, k)
  BY <1>3 DEF StaysIn
<1>5. \A n \in 0..k : f[n] \in T
  BY <1>2, <1>4, Stays
<1>6. f \in [0..k -> T]
  BY <1>1, <1>5 DEF IterStep
<1> QED
  BY <1>1, <1>6

-----------------------------------------------------------------------------
(* The field, and the sums over it.                                        *)

(* A sequence of k elements. *)
Row(a, k) == \A i \in 0..(k - 1) : a[i] \in Elements

SumStep(a, b, n, sum) ==
  [i \in 0..n |->
     IF i = 0 THEN 0 ELSE Plus(sum[i - 1], gf_mul(a[i - 1], b[i - 1]))]

LEMMA ZeroOne == ASSUME FieldClosed PROVE 0 \in Elements /\ 1 \in Elements
BY DEF FieldClosed, Elements

LEMMA DotIn ==
  ASSUME FieldClosed, NEW n \in Nat, NEW a, NEW b, Row(a, n), Row(b, n)
  PROVE  Dot(a, b, n) \in Elements
<1> DEFINE G == [p \in (1..n) \X Elements |->
                   Plus(p[2], gf_mul(a[p[1] - 1], b[p[1] - 1]))]
<1>1. ASSUME NEW i \in 1..n, NEW x \in Elements
      PROVE  Plus(x, gf_mul(a[i - 1], b[i - 1])) \in Elements
  <2>1. i - 1 \in 0..(n - 1)
    OBVIOUS
  <2>2. a[i - 1] \in Elements /\ b[i - 1] \in Elements
    BY <2>1 DEF Row
  <2> QED
    BY <2>2 DEF FieldClosed
<1>2. StepsIn(G, Elements, n)
  BY <1>1 DEF StepsIn
<1>3. 0 \in Elements
  BY ZeroOne
<1>4. PICK f \in [0..n -> Elements] : f = IterStep(0, G, n, f)
  <2> HIDE DEF G
  <2>1. PICK zero \in Elements : zero = 0
    BY <1>3
  <2>2. \E f \in [0..n -> Elements] : f = IterStep(zero, G, n, f)
    BY <1>2, IterTyped, Zenon
  <2> QED
    BY <2>1, <2>2
<1>5. f = SumStep(a, b, n, f)
  <2>1. ASSUME NEW i \in 0..n
        PROVE  f[i] = IF i = 0 THEN 0 ELSE Plus(f[i - 1], gf_mul(a[i - 1], b[i - 1]))
    <3>1. f[i] = IF i = 0 THEN 0 ELSE G[<<i, f[i - 1]>>]
      <4> HIDE DEF G
      <4> QED
        BY <1>4 DEF IterStep
    <3>2. i # 0 => <<i, f[i - 1]>> \in (1..n) \X Elements
      OBVIOUS
    <3> QED
      BY <3>1, <3>2
  <2>2. DOMAIN f = 0..n
    OBVIOUS
  <2> HIDE DEF G
  <2> QED
    BY <2>1, <2>2 DEF SumStep
<1>6. PICK sum : sum = SumStep(a, b, n, sum) /\ Dot(a, b, n) = sum[n]
  <2>1. Dot(a, b, n) = (CHOOSE c : c = SumStep(a, b, n, c))[n]
    BY DEF Dot, SumStep
  <2>2. (CHOOSE c : c = SumStep(a, b, n, c))
          = SumStep(a, b, n, CHOOSE c : c = SumStep(a, b, n, c))
    BY <1>5
  <2> QED
    BY <2>1, <2>2
<1>7. sum[0] \in Elements
  BY <1>3, <1>6 DEF SumStep
<1>8. StaysIn(sum, Elements, n)
  <2>1. ASSUME NEW i \in 1..n, sum[i - 1] \in Elements
        PROVE sum[i] \in Elements
    <3>1. sum[i] = Plus(sum[i - 1], gf_mul(a[i - 1], b[i - 1]))
      BY <1>6 DEF SumStep
    <3> QED
      BY <1>1, <2>1, <3>1
  <2> QED
    BY <2>1 DEF StaysIn
<1>9. n \in 0..n
  OBVIOUS
<1> QED
  BY <1>6, <1>7, <1>8, <1>9, Stays

(* A shard of k bytes. *)
HasBytes(x, k) == k \in Nat /\ x \in [1..k -> Elements]

Inputs(inputs, ds) == \A n \in 1..ds : \E k : HasBytes(inputs[n], k)

(* What an input adds to a byte of the output. *)
ByteOf(row, inputs, b, n, x) ==
  IF row[n - 1] = 0 \/ b > Len(inputs[n]) THEN x
  ELSE IF n = 1 THEN gf_mul(row[n - 1], inputs[n][b])
  ELSE Plus(x, gf_mul(row[n - 1], inputs[n][b]))

ByteStep(row, inputs, first, b, ds, byte) ==
  [n \in 0..ds |-> IF n = 0 THEN first ELSE ByteOf(row, inputs, b, n, byte[n - 1])]

LEMMA ByteOfIn ==
  ASSUME FieldClosed, NEW ds \in Nat, NEW row, Row(row, ds), NEW inputs,
         Inputs(inputs, ds),
         NEW b \in Nat \ {0}, NEW n \in 1..ds, NEW x \in Elements
  PROVE  ByteOf(row, inputs, b, n, x) \in Elements
<1>1. n - 1 \in 0..(ds - 1)
  OBVIOUS
<1>2. PICK c \in Elements : c = row[n - 1]
  BY <1>1 DEF Row
<1>3. PICK k : HasBytes(inputs[n], k)
  BY DEF Inputs
<1>4. PICK in : in = inputs[n] /\ in \in [1..k -> Elements] /\ k \in Nat
  BY <1>3 DEF HasBytes
<1>5. Len(in) = k
  BY <1>4
<1>6. CASE c = 0 \/ b > Len(in)
  BY <1>2, <1>4, <1>6 DEF ByteOf
<1>7. CASE ~ (c = 0 \/ b > Len(in))
  <2>1. b \in 1..k
    BY <1>4, <1>5, <1>7
  <2>2. in[b] \in Elements
    BY <1>4, <2>1
  <2>3. gf_mul(c, in[b]) \in Elements
    BY <1>2, <2>2 DEF FieldClosed
  <2>4. Plus(x, gf_mul(c, in[b])) \in Elements
    BY <2>3 DEF FieldClosed
  <2> QED
    BY <1>2, <1>4, <1>7, <2>3, <2>4 DEF ByteOf
<1> QED
  BY <1>6, <1>7

LEMMA ByteIn ==
  ASSUME FieldClosed, NEW ds \in Nat, NEW row, Row(row, ds), NEW inputs,
         Inputs(inputs, ds),
         NEW b \in Nat \ {0}, NEW first \in Elements
  PROVE  (CHOOSE c : c = ByteStep(row, inputs, first, b, ds, c))[ds] \in Elements
<1> DEFINE G == [p \in (1..ds) \X Elements |-> ByteOf(row, inputs, b, p[1], p[2])]
<1>1. ASSUME NEW n \in 1..ds, NEW x \in Elements
      PROVE  ByteOf(row, inputs, b, n, x) \in Elements
  BY ByteOfIn
<1>2. StepsIn(G, Elements, ds)
  BY <1>1 DEF StepsIn
<1>3. PICK f \in [0..ds -> Elements] : f = IterStep(first, G, ds, f)
  <2> HIDE DEF G
  <2>1. \E f \in [0..ds -> Elements] : f = IterStep(first, G, ds, f)
    <3>1. PICK T, steps : T = Elements /\ steps = G
      OBVIOUS
    <3>2. StepsIn(steps, T, ds) /\ first \in T
      BY <1>2, <3>1
    <3>3. \E f \in [0..ds -> T] : f = IterStep(first, steps, ds, f)
      BY <3>2, IterTyped
    <3> QED
      BY <3>1, <3>3
  <2> QED
    BY <2>1
<1>4. f = ByteStep(row, inputs, first, b, ds, f)
  <2>1. ASSUME NEW n \in 0..ds
        PROVE  f[n] = IF n = 0 THEN first ELSE ByteOf(row, inputs, b, n, f[n - 1])
    <3>1. f[n] = IF n = 0 THEN first ELSE G[<<n, f[n - 1]>>]
      <4> HIDE DEF G
      <4> QED
        BY <1>3 DEF IterStep
    <3>2. n # 0 => <<n, f[n - 1]>> \in (1..ds) \X Elements
      OBVIOUS
    <3> QED
      BY <3>1, <3>2
  <2>2. DOMAIN f = 0..ds
    OBVIOUS
  <2> HIDE DEF G
  <2> QED
    BY <2>1, <2>2 DEF ByteStep
<1>5. PICK byte :
        /\ byte = CHOOSE c : c = ByteStep(row, inputs, first, b, ds, c)
        /\ byte = ByteStep(row, inputs, first, b, ds, byte)
  <2>1. (CHOOSE c : c = ByteStep(row, inputs, first, b, ds, c))
          = ByteStep(row, inputs, first, b, ds,
                     CHOOSE c : c = ByteStep(row, inputs, first, b, ds, c))
    BY <1>4
  <2> QED
    BY <2>1
<1>6. /\ DOMAIN byte = 0..ds
      /\ \A n \in 0..ds :
           byte[n] = IF n = 0 THEN first ELSE ByteOf(row, inputs, b, n, byte[n - 1])
  <2> HIDE DEF G
  <2>1. byte = [n \in 0..ds |->
                  IF n = 0 THEN first ELSE ByteOf(row, inputs, b, n, byte[n - 1])]
    BY <1>5 DEF ByteStep
  <2> QED
    BY <2>1
<1>7. StaysIn(byte, Elements, ds)
  <2>1. ASSUME NEW n \in 1..ds, byte[n - 1] \in Elements
        PROVE byte[n] \in Elements
    <3>1. byte[n] = ByteOf(row, inputs, b, n, byte[n - 1])
      BY <1>6
    <3> QED
      BY <1>1, <2>1, <3>1
  <2> QED
    BY <2>1 DEF StaysIn
<1>8. ds \in 0..ds /\ byte[0] \in Elements
  BY <1>6
<1>9. byte[ds] \in Elements
  BY <1>7, <1>8, Stays
<1> QED
  BY <1>5, <1>9

(* A coded shard is as long as it was. *)
LEMMA CodeShardIn ==
  ASSUME FieldClosed, NEW ds \in Nat, NEW row, Row(row, ds), NEW inputs,
         Inputs(inputs, ds),
         NEW m, NEW output, HasBytes(output, m)
  PROVE  HasBytes(CodeShard(row, inputs, output, ds), m)
<1> DEFINE byte(b) == CHOOSE c : c = ByteStep(row, inputs, output[b], b, ds, c)
<1>1. CodeShard(row, inputs, output, ds) = [b \in DOMAIN output |-> byte(b)[ds]]
  BY DEF CodeShard, ByteStep, ByteOf
<1>2. m \in Nat /\ DOMAIN output = 1..m /\ \A b \in 1..m : output[b] \in Elements
  BY DEF HasBytes
<1>3. ASSUME NEW b \in 1..m PROVE byte(b)[ds] \in Elements
  <2>2. PICK first \in Elements : first = output[b]
    BY <1>2
  <2>3. b \in Nat \ {0}
    BY <1>2
  <2>4. (CHOOSE x : x = ByteStep(row, inputs, first, b, ds, x))[ds] \in Elements
    BY <2>3, ByteIn
  <2> QED
    BY <2>2, <2>4
<1> HIDE DEF byte
<1> QED
  BY <1>1, <1>2, <1>3 DEF HasBytes

-----------------------------------------------------------------------------
(* Matrices over the field.                                                *)

Matrix(m, n, k) == m \in [0..(n - 1) -> [0..(k - 1) -> Elements]]

LEMMA MatrixRow ==
  ASSUME NEW m, NEW n, NEW k, Matrix(m, n, k), NEW r \in 0..(n - 1)
  PROVE  Row(m[r], k)
BY DEF Matrix, Row

LEMMA VandermondeIn ==
  ASSUME FieldClosed, NEW n \in Nat, NEW k \in Nat, n <= GF_SIZE + 1, k <= n
  PROVE  Matrix(vandermonde(n, k), n, k)
<1>1. GF_SIZE \in Nat
  BY DEF FieldClosed
<1>2. ASSUME NEW r \in 0..(n - 1), NEW c \in 0..(k - 1)
      PROVE galExp(r, c) \in Elements
  <2>1. r \in Elements /\ c \in Elements
    BY <1>1 DEF Elements
  <2> QED
    BY <2>1 DEF FieldClosed
<1> QED
  BY <1>2 DEF vandermonde, Matrix

LEMMA MultiplyIn ==
  ASSUME FieldClosed, NEW n \in Nat, NEW k \in Nat, NEW a, NEW b, Matrix(a, n, k),
         Matrix(b, k, k)
  PROVE  Matrix(multiply1(a, b, n, k, k), n, k)
<1>1. ASSUME NEW r \in 0..(n - 1), NEW c \in 0..(k - 1)
      PROVE  Dot(a[r], [i \in 0..(k - 1) |-> b[i][c]], k) \in Elements
  <2>1. PICK x, y : x = a[r] /\ y = [i \in 0..(k - 1) |-> b[i][c]]
    OBVIOUS
  <2>2. Row(x, k)
    BY <2>1, MatrixRow
  <2>3. Row(y, k)
    BY <2>1 DEF Row, Matrix
  <2>4. Dot(x, y, k) \in Elements
    BY <2>2, <2>3, DotIn
  <2> QED
    BY <2>1, <2>4
<1> QED
  BY <1>1 DEF multiply1, Matrix

LEMMA SwapRowsIn ==
  ASSUME NEW k, NEW m, Matrix(m, k, k), NEW r \in 0..(k - 1),
         NEW s \in 0..(k - 1)
  PROVE  Matrix(SwapRows(m, r, s), k, k)
BY DEF SwapRows, Matrix

LEMMA SwapColumnsIn ==
  ASSUME NEW k, NEW m, Matrix(m, k, k), NEW r \in 0..(k - 1),
         NEW s \in 0..(k - 1)
  PROVE  Matrix(SwapColumns(m, r, s, k), k, k)
BY DEF SwapColumns, Matrix

LEMMA EliminateIn ==
  ASSUME FieldClosed, NEW k \in Nat, NEW m, Matrix(m, k, k),
         NEW p \in 0..(k - 1)
  PROVE  Matrix(Eliminate(m, p, k), k, k)
<1> DEFINE c == inverse[m[p][p]]
           row == [ix \in 0..(k - 1) |-> gf_mul(c, IF ix = p THEN 1 ELSE m[p][ix])]
           next(r, ix) == Plus(IF ix = p THEN 0 ELSE m[r][ix], gf_mul(m[r][p], row[ix]))
<1>1. \A r, ix \in 0..(k - 1) : m[r][ix] \in Elements
  BY DEF Matrix
<1>2. c \in Elements
  BY <1>1 DEF FieldClosed
<1>3. 0 \in Elements /\ 1 \in Elements
  BY ZeroOne
<1>4. ASSUME NEW ix \in 0..(k - 1)
      PROVE  gf_mul(c, IF ix = p THEN 1 ELSE m[p][ix]) \in Elements
  <2>1. PICK x \in Elements : x = IF ix = p THEN 1 ELSE m[p][ix]
    BY <1>1, <1>3
  <2>2. gf_mul(c, x) \in Elements
    <3> HIDE DEF c
    <3> QED
      BY <1>2 DEF FieldClosed
  <2> QED
    BY <2>1, <2>2
<1>5. row \in [0..(k - 1) -> Elements]
  <2> HIDE DEF c
  <2> QED
    BY <1>4
<1>6. ASSUME NEW r \in 0..(k - 1), NEW ix \in 0..(k - 1)
      PROVE next(r, ix) \in Elements
  <2> HIDE DEF c, row
  <2>1. PICK x \in Elements : x = IF ix = p THEN 0 ELSE m[r][ix]
    BY <1>1, <1>3
  <2>2. PICK y \in Elements : y = gf_mul(m[r][p], row[ix])
    BY <1>1, <1>5 DEF FieldClosed
  <2>3. Plus(x, y) \in Elements
    BY DEF FieldClosed
  <2> QED
    BY <2>1, <2>2, <2>3
<1>7. Eliminate(m, p, k)
        = [r \in 0..(k - 1) |-> IF r = p THEN row ELSE [ix \in 0..(k - 1) |-> next(r, ix)]]
  BY DEF Eliminate
<1> HIDE DEF c, row, next
<1> QED
  BY <1>5, <1>6, <1>7 DEF Matrix

(* Of the pivots there are, one is the first. *)
LEMMA FirstPivotIn ==
  ASSUME NEW k \in Nat, NEW P \in SUBSET ((0..(k - 1)) \X (0..(k - 1))), P # {}
  PROVE  FirstPivot(P) \in P
<1> DEFINE rows == {p[1] : p \in P}
<1>1. rows \in SUBSET Nat /\ rows # {}
  OBVIOUS
<1>2. PICK x \in rows : \A y \in rows : x <= y
  <2> HIDE DEF rows
  <2> QED
    BY <1>1, LeastMember
<1> DEFINE columns == {p[2] : p \in {q \in P : q[1] = x}}
<1>3. columns \in SUBSET Nat /\ columns # {}
  OBVIOUS
<1>4. PICK y \in columns : \A z \in columns : y <= z
  <2> HIDE DEF columns
  <2> QED
    BY <1>3, LeastMember
<1>5. PICK p \in P : p[1] = x /\ p[2] = y
  BY <1>4
<1>6. ASSUME NEW q \in P PROVE p[1] < q[1] \/ (p[1] = q[1] /\ p[2] <= q[2])
  <2>1. x <= q[1] /\ x \in Nat /\ q[1] \in Nat
    BY <1>2
  <2>2. CASE q[1] = x
    <3>1. q[2] \in columns
      BY <2>2
    <3> QED
      BY <1>4, <1>5, <2>2, <3>1
  <2>3. CASE q[1] # x
    BY <1>5, <2>1, <2>3
  <2> QED
    BY <2>2, <2>3
<1> QED
  BY <1>5, <1>6 DEF FirstPivot

LEMMA PivotsIn ==
  ASSUME NEW k, NEW m, NEW used, NEW col \in 0..(k - 1)
  PROVE  Pivots(m, used, col, k) \in SUBSET ((0..(k - 1)) \X (0..(k - 1)))
BY DEF Pivots

-----------------------------------------------------------------------------
(* Gauss-Jordan stays in the field.                                        *)

Reductions(k) ==
  [m : [0..(k - 1) -> [0..(k - 1) -> Elements]], used : SUBSET (0..(k - 1)),
   swaps : Seq((0..(k - 1)) \X (0..(k - 1))), error : {0, 1}]

Unreduced(src) == [m |-> src, used |-> {}, swaps |-> <<>>, error |-> 0]

(* One column of invert_mat. *)
WithPivot(s, p, k) ==
  [m |-> Eliminate(SwapRows(s.m, p[1], p[2]), p[2], k),
   used |-> s.used \union {p[2]},
   swaps |-> Append(s.swaps, p),
   error |-> 0]

OneColumn(s, col, k) ==
  IF s.error = 1 \/ Pivots(s.m, s.used, col, k) = {} THEN [s EXCEPT !.error = 1]
  ELSE WithPivot(s, FirstPivot(Pivots(s.m, s.used, col, k)), k)

ReduceStep(src, k, f) ==
  [n \in 0..k |-> IF n = 0 THEN Unreduced(src) ELSE OneColumn(f[n - 1], n - 1, k)]

(* As many swaps as columns, if all had a pivot. *)
SwapsOf(s, n) == s.error = 0 => Len(s.swaps) = n

LEMMA OneColumnIn ==
  ASSUME FieldClosed, NEW k \in Nat, NEW col \in 0..(k - 1), NEW s,
         s \in Reductions(k)
  PROVE  /\ OneColumn(s, col, k) \in Reductions(k)
         /\ SwapsOf(s, col) => SwapsOf(OneColumn(s, col, k), col + 1)
<1>1. PICK P : P = Pivots(s.m, s.used, col, k)
  OBVIOUS
<1>2. P \in SUBSET ((0..(k - 1)) \X (0..(k - 1)))
  BY <1>1, PivotsIn
<1>3. /\ Matrix(s.m, k, k) /\ s.used \in SUBSET (0..(k - 1))
      /\ s.swaps \in Seq((0..(k - 1)) \X (0..(k - 1))) /\ s.error \in {0, 1}
  BY DEF Reductions, Matrix
<1>4. CASE s.error = 1 \/ P = {}
  <2>1. OneColumn(s, col, k) = [s EXCEPT !.error = 1]
    BY <1>1, <1>4 DEF OneColumn
  <2>2. [s EXCEPT !.error = 1] \in Reductions(k) /\ [s EXCEPT !.error = 1].error = 1
    BY DEF Reductions
  <2> QED
    BY <2>1, <2>2 DEF SwapsOf
<1>5. CASE ~ (s.error = 1 \/ P = {})
  <2>1. PICK p : p = FirstPivot(P)
    OBVIOUS
  <2>2. p \in (0..(k - 1)) \X (0..(k - 1))
    <3>1. p \in P
      BY <1>2, <1>5, <2>1, FirstPivotIn
    <3> QED
      BY <1>2, <3>1
  <2>3. p[1] \in 0..(k - 1) /\ p[2] \in 0..(k - 1)
    BY <2>2
  <2>4. PICK e : e = Eliminate(SwapRows(s.m, p[1], p[2]), p[2], k)
    OBVIOUS
  <2>5. Matrix(e, k, k)
    BY <1>3, <2>3, <2>4, SwapRowsIn, EliminateIn
  <2>6. OneColumn(s, col, k)
          = [m |-> e, used |-> s.used \union {p[2]}, swaps |-> Append(s.swaps, p),
             error |-> 0]
    BY <1>1, <1>5, <2>1, <2>4 DEF OneColumn, WithPivot
  <2>7. /\ Append(s.swaps, p) \in Seq((0..(k - 1)) \X (0..(k - 1)))
        /\ Len(Append(s.swaps, p)) = Len(s.swaps) + 1
    BY <1>3, <2>2
  <2>8. s.used \union {p[2]} \in SUBSET (0..(k - 1))
    BY <1>3, <2>3
  <2>9. OneColumn(s, col, k) \in Reductions(k)
    BY <2>5, <2>6, <2>7, <2>8 DEF Reductions, Matrix
  <2>10. SwapsOf(s, col) => SwapsOf(OneColumn(s, col, k), col + 1)
    <3>1. s.error = 0
      BY <1>3, <1>5
    <3> QED
      BY <2>6, <2>7, <3>1 DEF SwapsOf
  <2> QED
    BY <2>9, <2>10
<1> QED
  BY <1>4, <1>5

LEMMA Reduced ==
  ASSUME FieldClosed, NEW k \in Nat, NEW src, Matrix(src, k, k)
  PROVE  /\ \E f : f = ReduceStep(src, k, f)
         /\ \A f : f = ReduceStep(src, k, f) => f[k] \in Reductions(k) /\ SwapsOf(f[k], k)
<1> DEFINE G == [p \in (1..k) \X Reductions(k) |-> OneColumn(p[2], p[1] - 1, k)]
<1>1. ASSUME NEW n \in 1..k, NEW s \in Reductions(k)
      PROVE  /\ OneColumn(s, n - 1, k) \in Reductions(k)
             /\ SwapsOf(s, n - 1) => SwapsOf(OneColumn(s, n - 1, k), n)
  <2>1. PICK col \in 0..(k - 1) : col = n - 1 /\ n = col + 1
    OBVIOUS
  <2> QED
    BY <2>1, OneColumnIn
<1>2. Unreduced(src) \in Reductions(k) /\ SwapsOf(Unreduced(src), 0)
  BY DEF Unreduced, Reductions, Matrix, SwapsOf
<1>3. \E f : f = ReduceStep(src, k, f)
  <2>1. StepsIn(G, Reductions(k), k)
    <3>1. \A p \in (1..k) \X Reductions(k) : OneColumn(p[2], p[1] - 1, k) \in Reductions(k)
      BY <1>1
    <3> QED
      BY <3>1 DEF StepsIn
  <2>2. PICK f \in [0..k -> Reductions(k)] : f = IterStep(Unreduced(src), G, k, f)
    <3> HIDE DEF G
    <3>1. PICK T, steps, base : T = Reductions(k) /\ steps = G /\ base = Unreduced(src)
      OBVIOUS
    <3>2. StepsIn(steps, T, k) /\ base \in T
      BY <1>2, <2>1, <3>1
    <3>3. \E f \in [0..k -> T] : f = IterStep(base, steps, k, f)
      BY <3>2, IterTyped
    <3> QED
      BY <3>1, <3>3
  <2>3. ASSUME NEW n \in 0..k
        PROVE  f[n] = IF n = 0 THEN Unreduced(src) ELSE OneColumn(f[n - 1], n - 1, k)
    <3>1. f[n] = IF n = 0 THEN Unreduced(src) ELSE G[<<n, f[n - 1]>>]
      <4> HIDE DEF G
      <4> QED
        BY <2>2 DEF IterStep
    <3>2. n # 0 => <<n, f[n - 1]>> \in (1..k) \X Reductions(k)
      OBVIOUS
    <3> QED
      BY <3>1, <3>2
  <2>4. f = ReduceStep(src, k, f)
    <3>1. DOMAIN f = 0..k
      OBVIOUS
    <3> HIDE DEF G
    <3> QED
      BY <2>3, <3>1 DEF ReduceStep
  <2> QED
    BY <2>4
<1>4. ASSUME NEW f, f = ReduceStep(src, k, f)
      PROVE  f[k] \in Reductions(k) /\ SwapsOf(f[k], k)
  <2>1. \A n \in 0..k :
          f[n] = IF n = 0 THEN Unreduced(src) ELSE OneColumn(f[n - 1], n - 1, k)
    BY <1>4 DEF ReduceStep
  <2> DEFINE S == {n \in Nat : n <= k => f[n] \in Reductions(k) /\ SwapsOf(f[n], n)}
  <2>2. 0 \in S
    <3>1. f[0] = Unreduced(src)
      BY <2>1
    <3> QED
      BY <1>2, <3>1
  <2>3. ASSUME NEW n \in S PROVE n + 1 \in S
    <3>1. SUFFICES ASSUME n + 1 <= k
                   PROVE  f[n + 1] \in Reductions(k) /\ SwapsOf(f[n + 1], n + 1)
      OBVIOUS
    <3>2. n + 1 \in 1..k /\ n + 1 \in 0..k /\ (n + 1) - 1 = n /\ n + 1 # 0
          /\ f[n] \in Reductions(k) /\ SwapsOf(f[n], n)
      BY <3>1
    <3>3. f[n + 1] = OneColumn(f[n], n, k)
      BY <2>1, <3>2
    <3>4. PICK s \in Reductions(k), i \in 1..k : s = f[n] /\ i = n + 1 /\ i - 1 = n
      BY <3>2
    <3>5. /\ OneColumn(s, i - 1, k) \in Reductions(k)
          /\ SwapsOf(s, i - 1) => SwapsOf(OneColumn(s, i - 1, k), i)
      BY <1>1
    <3> QED
      BY <3>2, <3>3, <3>4, <3>5
  <2>4. \A n \in Nat : n \in S
    <3>1. S \in SUBSET Nat
      OBVIOUS
    <3> HIDE DEF S
    <3> QED
      BY <2>2, <2>3, <3>1, NatSetInduction
  <2>5. k \in S
    <3> HIDE DEF S
    <3> QED
      BY <2>4
  <2> QED
    BY <2>5
<1> QED
  BY <1>3, <1>4

(* One column less to put back. *)
PutBack(swaps, n, k, m) ==
  IF swaps[k + 1 - n][1] = swaps[k + 1 - n][2] THEN m
  ELSE SwapColumns(m, swaps[k + 1 - n][1], swaps[k + 1 - n][2], k)

UnswapStep(src, swaps, k, f) ==
  [n \in 0..k |-> IF n = 0 THEN src ELSE PutBack(swaps, n, k, f[n - 1])]

SwapList(swaps, k) == \A n \in 1..k : swaps[n] \in (0..(k - 1)) \X (0..(k - 1))

LEMMA PutBackIn ==
  ASSUME NEW k \in Nat, NEW n \in 1..k, NEW swaps, SwapList(swaps, k), NEW m,
         Matrix(m, k, k)
  PROVE  Matrix(PutBack(swaps, n, k, m), k, k)
<1>1. k + 1 - n \in 1..k
  OBVIOUS
<1>2. PICK p : p = swaps[k + 1 - n] /\ p \in (0..(k - 1)) \X (0..(k - 1))
  BY <1>1 DEF SwapList
<1>3. p[1] \in 0..(k - 1) /\ p[2] \in 0..(k - 1)
  BY <1>2
<1>4. Matrix(SwapColumns(m, p[1], p[2], k), k, k)
  BY <1>3, SwapColumnsIn
<1> QED
  BY <1>2, <1>4 DEF PutBack

LEMMA Unswapped ==
  ASSUME NEW k \in Nat, NEW swaps, SwapList(swaps, k), NEW src, Matrix(src, k, k)
  PROVE  /\ \E f : f = UnswapStep(src, swaps, k, f)
         /\ \A f : f = UnswapStep(src, swaps, k, f) => Matrix(f[k], k, k)
<1> DEFINE M == [0..(k - 1) -> [0..(k - 1) -> Elements]]
           G == [p \in (1..k) \X M |-> PutBack(swaps, p[1], k, p[2])]
<1>1. ASSUME NEW n \in 1..k, NEW m \in M PROVE PutBack(swaps, n, k, m) \in M
  <2>1. Matrix(m, k, k)
    BY DEF Matrix
  <2>2. Matrix(PutBack(swaps, n, k, m), k, k)
    BY <2>1, PutBackIn
  <2> QED
    BY <2>2 DEF Matrix
<1>2. src \in M
  BY DEF Matrix
<1>3. \E f : f = UnswapStep(src, swaps, k, f)
  <2>1. StepsIn(G, M, k)
    <3>1. \A p \in (1..k) \X M : PutBack(swaps, p[1], k, p[2]) \in M
      <4> HIDE DEF M
      <4> QED
        BY <1>1
    <3> HIDE DEF M
    <3> QED
      BY <3>1 DEF StepsIn
  <2>2. PICK f \in [0..k -> M] : f = IterStep(src, G, k, f)
    <3> HIDE DEF G, M
    <3>1. PICK T, steps : T = M /\ steps = G
      OBVIOUS
    <3>2. StepsIn(steps, T, k) /\ src \in T
      BY <1>2, <2>1, <3>1
    <3>3. \E f \in [0..k -> T] : f = IterStep(src, steps, k, f)
      BY <3>2, IterTyped
    <3> QED
      BY <3>1, <3>3
  <2>3. ASSUME NEW n \in 0..k
        PROVE  f[n] = IF n = 0 THEN src ELSE PutBack(swaps, n, k, f[n - 1])
    <3> HIDE DEF M
    <3>1. f[n] = IF n = 0 THEN src ELSE G[<<n, f[n - 1]>>]
      <4> HIDE DEF G
      <4> QED
        BY <2>2 DEF IterStep
    <3>2. n # 0 => <<n, f[n - 1]>> \in (1..k) \X M
      OBVIOUS
    <3> QED
      BY <3>1, <3>2
  <2>4. f = UnswapStep(src, swaps, k, f)
    <3>1. DOMAIN f = 0..k
      OBVIOUS
    <3> HIDE DEF G, M
    <3> QED
      BY <2>3, <3>1 DEF UnswapStep
  <2> QED
    BY <2>4
<1>4. ASSUME NEW f, f = UnswapStep(src, swaps, k, f) PROVE Matrix(f[k], k, k)
  <2> HIDE DEF M
  <2>1. \A n \in 0..k : f[n] = IF n = 0 THEN src ELSE PutBack(swaps, n, k, f[n - 1])
    BY <1>4 DEF UnswapStep
  <2>2. f[0] \in M
    BY <1>2, <2>1
  <2>3. StaysIn(f, M, k)
    <3>1. ASSUME NEW n \in 1..k, f[n - 1] \in M PROVE f[n] \in M
      <4>1. f[n] = PutBack(swaps, n, k, f[n - 1])
        BY <2>1
      <4> QED
        BY <1>1, <3>1, <4>1
    <3> QED
      BY <3>1 DEF StaysIn
  <2>4. f[k] \in M
    <3>1. k \in 0..k
      OBVIOUS
    <3> QED
      BY <2>2, <2>3, <3>1, Stays
  <2> QED
    BY <2>4 DEF M, Matrix
<1> QED
  BY <1>3, <1>4

ReducedOf(src, k) == CHOOSE f : f = ReduceStep(src, k, f)

UnswappedOf(m, swaps, k) == CHOOSE f : f = UnswapStep(m, swaps, k, f)

LEMMA InvertIs ==
  ASSUME NEW src, NEW k
  PROVE  invert_mat(src, k)
           = [m |-> IF ReducedOf(src, k)[k].error = 1 THEN ReducedOf(src, k)[k].m
                    ELSE UnswappedOf(ReducedOf(src, k)[k].m,
                                     ReducedOf(src, k)[k].swaps, k)[k],
              error |-> ReducedOf(src, k)[k].error]
BY
  DEF invert_mat, ReducedOf, UnswappedOf, ReduceStep, OneColumn, WithPivot,
      Unreduced,
       UnswapStep, PutBack

LEMMA InvertIn ==
  ASSUME FieldClosed, NEW k \in Nat, NEW src, Matrix(src, k, k)
  PROVE  Matrix(invert_mat(src, k).m, k, k)
<1>1. PICK R : R = ReducedOf(src, k)
  OBVIOUS
<1>2. R = ReduceStep(src, k, R)
  <2>1. (CHOOSE f : f = ReduceStep(src, k, f))
          = ReduceStep(src, k, CHOOSE f : f = ReduceStep(src, k, f))
    BY Reduced
  <2> QED
    BY <1>1, <2>1 DEF ReducedOf
<1>3. PICK s : s = R[k]
  OBVIOUS
<1>4. s \in Reductions(k) /\ SwapsOf(s, k)
  BY <1>2, <1>3, Reduced
<1>5. /\ Matrix(s.m, k, k) /\ s.swaps \in Seq((0..(k - 1)) \X (0..(k - 1)))
      /\ s.error \in {0, 1}
  BY <1>4 DEF Reductions, Matrix
<1>6. PICK U : U = UnswappedOf(s.m, s.swaps, k)
  OBVIOUS
<1>7. invert_mat(src, k).m = IF s.error = 1 THEN s.m ELSE U[k]
  BY <1>1, <1>3, <1>6, InvertIs
<1>8. ASSUME s.error # 1 PROVE Matrix(U[k], k, k)
  <2>1. Len(s.swaps) = k
    BY <1>4, <1>5, <1>8 DEF SwapsOf
  <2>2. SwapList(s.swaps, k)
    BY <1>5, <2>1 DEF SwapList
  <2>3. PICK swaps, m : swaps = s.swaps /\ m = s.m
    OBVIOUS
  <2>4. SwapList(swaps, k) /\ Matrix(m, k, k)
    BY <1>5, <2>2, <2>3
  <2>5. (CHOOSE f : f = UnswapStep(m, swaps, k, f))
          = UnswapStep(m, swaps, k, CHOOSE f : f = UnswapStep(m, swaps, k, f))
    BY <2>4, Unswapped
  <2>6. U = UnswapStep(m, swaps, k, U)
    BY <1>6, <2>3, <2>5 DEF UnswappedOf
  <2> QED
    BY <2>4, <2>6, Unswapped
<1> QED
  BY <1>5, <1>7, <1>8

LEMMA CodingMatrixIn ==
  ASSUME FieldClosed, NEW data \in Nat, NEW parity \in Nat,
         data + parity <= GF_SIZE + 1
  PROVE  Matrix(CodingMatrix(data, parity), data + parity, data)
<1>1. PICK n \in Nat : n = data + parity /\ data <= n
  OBVIOUS
<1>2. PICK vm : vm = vandermonde(n, data)
  OBVIOUS
<1>3. Matrix(vm, n, data)
  BY <1>1, <1>2, VandermondeIn
<1>4. PICK top : top = sub_matrix(vm, 0, data)
  OBVIOUS
<1>5. Matrix(top, data, data)
  <2>1. top = [r \in 0..(data - 0 - 1) |-> vm[r + 0]]
    BY <1>4 DEF sub_matrix
  <2>2. ASSUME NEW r \in 0..(data - 1)
        PROVE vm[r] \in [0..(data - 1) -> Elements]
    <3>1. r \in 0..(n - 1)
      BY <1>1
    <3> QED
      BY <1>3, <3>1 DEF Matrix
  <2>3. top = [r \in 0..(data - 1) |-> vm[r]]
    BY <2>1
  <2> QED
    BY <2>2, <2>3 DEF Matrix
<1>6. PICK inv : inv = invert_mat(top, data).m
  OBVIOUS
<1>7. Matrix(inv, data, data)
  BY <1>5, <1>6, InvertIn
<1>8. CodingMatrix(data, parity) = multiply1(vm, inv, n, data, data)
  BY <1>1, <1>2, <1>4, <1>6 DEF CodingMatrix
<1> QED
  BY <1>1, <1>3, <1>7, <1>8, MultiplyIn

-----------------------------------------------------------------------------
(* Encoding and repairing stay in the field.                               *)

LEMMA MatricesIn ==
  ASSUME FieldClosed, NEW g \in Geometries, NEW data \in Nat,
         NEW parity \in Nat,
         g.data = data, g.parity = parity
  PROVE  Matrix(Matrices[g], data + parity, data)
<1>1. data + parity <= GF_SIZE + 1
  BY GeometriesAssumption
<1>2. Matrices[g] = CodingMatrix(data, parity)
  BY DEF Matrices
<1> QED
  BY <1>1, <1>2, CodingMatrixIn

LEMMA LengthIn ==
  ASSUME NEW g, CodeOf(g), NEW i \in 0..(g.data - 1)
  PROVE  DataLength(g, i) \in Nat
<1>1. PICK data \in Nat \ {0}, parity \in Nat, block \in Nat \ {0}, total \in Nat \ {0} :
        /\ g = [data |-> data, parity |-> parity, block |-> block, total |-> total]
        /\ (data - 1) * block < total
  BY DEF CodeOf
<1>2. PICK x \in Nat : x = (data - 1) * block /\ x < total
  <2>1. data - 1 \in Nat
    OBVIOUS
  <2> QED
    BY <1>1, <2>1, Product
<1>3. CASE i < data - 1
  BY <1>1, <1>3 DEF DataLength
<1>4. CASE ~ (i < data - 1)
  <2>1. i = data - 1
    BY <1>1, <1>4
  <2>2. DataLength(g, i) = total - x
    BY <1>1, <1>2, <1>4, <2>1 DEF DataLength
  <2> QED
    BY <1>2, <2>2
<1> QED
  BY <1>3, <1>4

LEMMA FileBytes ==
  ASSUME NEW g, CodeOf(g), NEW f \in FilesOf(g), NEW n \in 1..g.data
  PROVE  HasBytes(f[n], DataLength(g, n - 1))
<1>1. PICK data \in Nat : data = g.data
  BY DEF CodeOf
<1>2. PICK i \in 0..(g.data - 1) : f[n] \in [1..DataLength(g, i) -> Bytes]
  <2>1. f[n] \in UNION {[1..DataLength(g, i) -> Bytes] : i \in 0..(g.data - 1)}
    BY DEF FilesOf
  <2> QED
    BY <2>1
<1>3. PICK k \in Nat : k = DataLength(g, i)
  BY LengthIn
<1>4. Len(f[n]) = k
  BY <1>2, <1>3
<1>5. Len(f[n]) = DataLength(g, n - 1)
  BY DEF FilesOf
<1>6. f[n] \in [1..k -> Elements]
  BY <1>2, <1>3, BytesAssumption
<1> QED
  BY <1>4, <1>5, <1>6 DEF HasBytes

LEMMA ZerosAre ==
  ASSUME FieldClosed, NEW k \in Nat
  PROVE  HasBytes(Zeros(k), k)
BY ZeroOne DEF Zeros, HasBytes

LEMMA EncodeIn ==
  ASSUME FieldClosed, NEW g \in Geometries, CodeOf(g), NEW f \in FilesOf(g),
         NEW i \in 1..g.parity
  PROVE  HasBytes(reed_solomon_encode(g, f)[i], g.block)
<1>1. PICK data \in Nat \ {0}, parity \in Nat, block \in Nat :
        g.data = data /\ g.parity = parity /\ g.block = block
  BY DEF CodeOf
<1>2. Matrix(Matrices[g], data + parity, data)
  BY <1>1, MatricesIn
<1> DEFINE rows == sub_matrix(Matrices[g], g.data, g.data + g.parity)
           outputs == [n \in 1..g.parity |-> Zeros(g.block)]
<1>3. Row(rows[i - 1], data)
  <2>1. i - 1 \in 0..(data + parity - data - 1) /\ i - 1 + data \in 0..(data + parity - 1)
    BY <1>1
  <2>2. rows[i - 1] = Matrices[g][i - 1 + data]
    BY <1>1, <2>1 DEF sub_matrix
  <2>3. PICK m, r : /\ m = Matrices[g] /\ r = i - 1 + data
                    /\ r \in 0..(data + parity - 1)
    BY <2>1
  <2>4. Row(m[r], data)
    BY <1>2, <2>3, MatrixRow
  <2> QED
    BY <2>2, <2>3, <2>4
<1>4. Inputs(f, data)
  <2>1. ASSUME NEW n \in 1..data PROVE HasBytes(f[n], DataLength(g, n - 1))
    BY <1>1, FileBytes
  <2> QED
    BY <2>1 DEF Inputs
<1>5. HasBytes(outputs[i], block)
  BY <1>1, ZerosAre
<1>6. reed_solomon_encode(g, f)[i] = CodeShard(rows[i - 1], f, outputs[i], data)
  <2>1. reed_solomon_encode(g, f) = code_some_shards(rows, f, outputs, data)
    BY <1>1 DEF reed_solomon_encode
  <2>2. i \in DOMAIN outputs
    OBVIOUS
  <2> HIDE DEF rows, outputs
  <2> QED
    BY <2>1, <2>2 DEF code_some_shards
<1>7. HasBytes(CodeShard(rows[i - 1], f, outputs[i], data), block)
  <2> HIDE DEF rows, outputs
  <2>1. PICK row, output : row = rows[i - 1] /\ output = outputs[i]
    OBVIOUS
  <2>2. HasBytes(CodeShard(row, f, output, data), block)
    BY <1>3, <1>4, <1>5, <2>1, CodeShardIn
  <2> QED
    BY <2>1, <2>2
<1> QED
  BY <1>1, <1>6, <1>7

(* The rows that repair: the data shards left, and as many parity shards   *)
(* as there are others.                                                    *)
Survivors(data, erased, fec) ==
  Sorted((0..(data - 1)) \ {erased[e] : e \in DOMAIN erased}, data) \o fec

ListIn(list, S, n) == list \in Seq(S) /\ Len(list) = n

LEMMA SurvivorsAre ==
  ASSUME NEW data \in Nat, NEW n \in Nat, data <= n,
         NEW S \in SUBSET (0..(data - 1)),
         NEW erased, erased = Sorted(S, data),
         NEW fec, ListIn(fec, 0..(n - 1), Len(erased))
  PROVE  ListIn(Survivors(data, erased, fec), 0..(n - 1), data)
<1>1. erased \in Seq(S) /\ IsFiniteSet(S) /\ Len(erased) = Cardinality(S)
      /\ HoldsAll(erased, S)
  BY SortedLists
<1>2. {erased[e] : e \in DOMAIN erased} = S
  <2>1. DOMAIN erased = 1..Len(erased) /\ \A e \in 1..Len(erased) : erased[e] \in S
    BY <1>1
  <2> QED
    BY <1>1, <2>1 DEF HoldsAll
<1>3. PICK left : left = (0..(data - 1)) \ S
  OBVIOUS
<1>4. PICK list : list = Sorted(left, data)
  OBVIOUS
<1>5. list \in Seq(left) /\ Len(list) = Cardinality(left)
  <2>1. left \in SUBSET (0..(data - 1))
    BY <1>3
  <2> QED
    BY <1>4, <2>1, SortedLists
<1>6. Cardinality(left) = data - Cardinality(S)
  <2>1. PICK D : D = 0..(data - 1)
    OBVIOUS
  <2>2. IsFiniteSet(D) /\ Cardinality(D) = data
    <3>1. 0 \in Int /\ data - 1 \in Int
      OBVIOUS
    <3>2. /\ IsFiniteSet(0..(data - 1))
          /\ Cardinality(0..(data - 1)) = IF 0 > data - 1 THEN 0 ELSE data - 1 - 0 + 1
      BY <3>1, FS_Interval
    <3> QED
      BY <2>1, <3>2
  <2>3. Cardinality(D \ S) = Cardinality(D) - Cardinality(D \intersect S)
    BY <2>2, FS_Difference
  <2>4. D \intersect S = S
    BY <2>1
  <2> QED
    BY <1>3, <2>1, <2>2, <2>3, <2>4
<1>7. Cardinality(S) \in Nat
  BY <1>1, FS_CardinalityType
<1>8. list \in Seq(0..(n - 1)) /\ fec \in Seq(0..(n - 1)) /\ Len(fec) = Len(erased)
  <2>1. \A x \in left : x \in 0..(n - 1)
    BY <1>3
  <2>2. list \in Seq(0..(n - 1))
    BY <1>5, <2>1
  <2> QED
    BY <2>2 DEF ListIn
<1>9. list \o fec \in Seq(0..(n - 1)) /\ Len(list \o fec) = Len(list) + Len(fec)
  BY <1>8
<1>10. Len(list) + Len(fec) = data
  BY <1>1, <1>5, <1>6, <1>7, <1>8
<1>11. Survivors(data, erased, fec) = list \o fec
  BY <1>2, <1>3, <1>4 DEF Survivors
<1> QED
  BY <1>9, <1>10, <1>11 DEF ListIn

(* The lengths of shards, by their index. *)
AllHaveBytes(blocks, n, length) ==
  /\ DOMAIN blocks = 0..(n - 1)
  /\ \A s \in 0..(n - 1) : HasBytes(blocks[s], length[s])

LEMMA DecodeIn ==
  ASSUME FieldClosed, NEW g \in Geometries, NEW data \in Nat,
         NEW parity \in Nat,
         g.data = data, g.parity = parity,
         NEW n, n = data + parity,
         NEW blocks, NEW length, AllHaveBytes(blocks, n, length),
         NEW S \in SUBSET (0..(data - 1)), NEW erased, erased = Sorted(S, data),
         NEW fec, ListIn(fec, 0..(n - 1), Len(erased))
  PROVE  AllHaveBytes(reed_solomon_decode(g, blocks, erased, fec), n, length)
<1>1. PICK survivors : survivors = Survivors(data, erased, fec)
  OBVIOUS
<1>2. survivors \in Seq(0..(n - 1)) /\ Len(survivors) = data
  <2>1. n \in Nat /\ data <= n
    OBVIOUS
  <2>2. ListIn(Survivors(data, erased, fec), 0..(n - 1), data)
    BY <2>1, SurvivorsAre
  <2> QED
    BY <1>1, <2>2 DEF ListIn
<1>3. \A r \in 1..data : survivors[r] \in 0..(n - 1)
  BY <1>2
<1> DEFINE rows == [r \in 0..(data - 1) |-> Matrices[g][survivors[r + 1]]]
           decode == invert_mat(rows, data).m
           taken == [i \in 0..(Len(erased) - 1) |-> decode[erased[i + 1]]]
           inputs == [r \in 1..data |-> blocks[survivors[r]]]
           outputs == [i \in DOMAIN erased |-> blocks[erased[i]]]
<1>4. Matrix(decode, data, data)
  <2>1. Matrix(Matrices[g], n, data)
    BY MatricesIn
  <2>2. ASSUME NEW r \in 0..(data - 1)
        PROVE  Matrices[g][survivors[r + 1]] \in [0..(data - 1) -> Elements]
    <3>1. survivors[r + 1] \in 0..(n - 1)
      <4>1. r + 1 \in 1..data
        OBVIOUS
      <4> QED
        BY <1>3, <4>1
    <3> QED
      BY <2>1, <3>1 DEF Matrix
  <2>3. Matrix(rows, data, data)
    BY <2>2 DEF Matrix
  <2>4. PICK src : src = rows
    OBVIOUS
  <2>5. Matrix(invert_mat(src, data).m, data, data)
    BY <2>3, <2>4, InvertIn
  <2> QED
    BY <2>4, <2>5
<1>5. /\ DOMAIN erased = 1..Len(erased) /\ Len(erased) \in Nat
      /\ \A i \in 1..Len(erased) : erased[i] \in S
  <2>1. erased \in Seq(S)
    BY SortedLists
  <2> QED
    BY <2>1
<1>6. Inputs(inputs, data)
  <2>1. ASSUME NEW r \in 1..data PROVE \E k : HasBytes(inputs[r], k)
    <3>1. HasBytes(blocks[survivors[r]], length[survivors[r]])
      BY <1>3 DEF AllHaveBytes
    <3>2. inputs[r] = blocks[survivors[r]]
      OBVIOUS
    <3> HIDE DEF inputs
    <3> QED
      BY <3>1, <3>2
  <2> HIDE DEF inputs
  <2> QED
    BY <2>1 DEF Inputs
<1>7. ASSUME NEW i \in 1..Len(erased)
      PROVE  HasBytes(CodeShard(taken[i - 1], inputs, outputs[i], data), length[erased[i]])
  <2>1. erased[i] \in 0..(data - 1) /\ erased[i] \in 0..(n - 1)
    <3>1. PICK x \in 0..(data - 1) : x = erased[i]
      BY <1>5
    <3>2. x \in 0..(n - 1)
      OBVIOUS
    <3> QED
      BY <3>1, <3>2
  <2>2. taken[i - 1] = decode[erased[i]]
    <3>1. i - 1 \in 0..(Len(erased) - 1) /\ (i - 1) + 1 = i
      BY <1>5
    <3> HIDE DEF decode
    <3> QED
      BY <3>1
  <2>3. outputs[i] = blocks[erased[i]]
    BY <1>5
  <2> HIDE DEF taken, outputs, inputs, decode
  <2>4. Row(taken[i - 1], data)
    <3>1. PICK m, r : m = decode /\ r = erased[i] /\ r \in 0..(data - 1)
      BY <2>1
    <3>2. Row(m[r], data)
      BY <1>4, <3>1, MatrixRow
    <3> QED
      BY <2>2, <3>1, <3>2
  <2>5. HasBytes(outputs[i], length[erased[i]])
    BY <2>1, <2>3 DEF AllHaveBytes
  <2>6. PICK row, output, in, m :
          row = taken[i - 1] /\ output = outputs[i] /\ in = inputs /\ m = length[erased[i]]
    OBVIOUS
  <2>7. HasBytes(CodeShard(row, in, output, data), m)
    BY <1>6, <2>4, <2>5, <2>6, CodeShardIn
  <2> QED
    BY <2>6, <2>7
<1>8. PICK coded : coded = code_some_shards(taken, inputs, outputs, data)
  OBVIOUS
<1>9. \A i \in 1..Len(erased) : HasBytes(coded[i], length[erased[i]])
  <2>1. DOMAIN outputs = 1..Len(erased)
    BY <1>5
  <2> HIDE DEF taken, outputs, inputs
  <2>2. \A i \in 1..Len(erased) : coded[i] = CodeShard(taken[i - 1], inputs, outputs[i], data)
    BY <1>8, <2>1 DEF code_some_shards
  <2> QED
    BY <1>7, <2>2
<1>10. reed_solomon_decode(g, blocks, erased, fec)
         = [s \in DOMAIN blocks |->
              IF \E i \in DOMAIN erased : erased[i] = s
              THEN coded[CHOOSE i \in DOMAIN erased : erased[i] = s]
              ELSE blocks[s]]
  BY <1>1, <1>8 DEF reed_solomon_decode, Survivors
<1> HIDE DEF taken, outputs, inputs, decode, rows
<1>11. ASSUME NEW s \in 0..(n - 1)
       PROVE  HasBytes(reed_solomon_decode(g, blocks, erased, fec)[s], length[s])
  <2>1. s \in DOMAIN blocks /\ HasBytes(blocks[s], length[s])
    BY DEF AllHaveBytes
  <2>2. CASE \E i \in DOMAIN erased : erased[i] = s
    <3>1. PICK i : i = CHOOSE j \in DOMAIN erased : erased[j] = s
      OBVIOUS
    <3>2. i \in DOMAIN erased /\ erased[i] = s
      BY <2>2, <3>1
    <3>3. reed_solomon_decode(g, blocks, erased, fec)[s] = coded[i]
      BY <1>10, <2>1, <2>2, <3>1
    <3> QED
      BY <1>5, <1>9, <3>2, <3>3
  <2>3. CASE ~ \E i \in DOMAIN erased : erased[i] = s
    <3>1. reed_solomon_decode(g, blocks, erased, fec)[s] = blocks[s]
      BY <1>10, <2>1, <2>3
    <3> QED
      BY <2>1, <3>1
  <2> QED
    BY <2>2, <2>3
<1>12. DOMAIN reed_solomon_decode(g, blocks, erased, fec) = 0..(n - 1)
  BY <1>10 DEF AllHaveBytes
<1> QED
  BY <1>11, <1>12 DEF AllHaveBytes

LEMMA ReconstructIn ==
  ASSUME FieldClosed, NEW g \in Geometries, NEW data \in Nat,
         NEW parity \in Nat,
         g.data = data, g.parity = parity,
         NEW n, n = data + parity,
         NEW blocks, NEW length, AllHaveBytes(blocks, n, length),
         NEW marks \in SUBSET (0..(n - 1))
  PROVE  AllHaveBytes(reed_solomon_reconstruct(g, blocks, marks).blocks, n, length)
<1>1. PICK S \in SUBSET (0..(data - 1)) : S = marks \intersect (0..(data - 1))
  OBVIOUS
<1>2. PICK V : V = (data..(data + parity - 1)) \ marks
  OBVIOUS
<1>3. PICK erased : erased = Sorted(S, data)
  OBVIOUS
<1>4. PICK valid : valid = Sorted(V, n)
  OBVIOUS
<1>5. erased \in Seq(S)
  BY <1>3, SortedLists
<1>6. valid \in Seq(0..(n - 1))
  <2>1. n \in Nat /\ V \in SUBSET (0..(n - 1))
    BY <1>2
  <2>2. valid \in Seq(V)
    BY <1>4, <2>1, SortedLists
  <2>3. PICK I : I = 0..(n - 1)
    OBVIOUS
  <2>4. \A x \in V : x \in I
    BY <2>1, <2>3
  <2>5. valid \in Seq(I)
    BY <2>2, <2>4
  <2> QED
    BY <2>3, <2>5
<1>7. PICK fec : fec = SubSeq(valid, 1, Len(erased))
  OBVIOUS
<1>8. reed_solomon_reconstruct(g, blocks, marks)
        = CASE Len(erased) = 0 -> [blocks |-> blocks, error |-> 0]
            [] Len(erased) > 0 /\ Len(valid) >= Len(erased) ->
                 [blocks |-> reed_solomon_decode(g, blocks, erased, fec), error |-> 0]
            [] OTHER -> [blocks |-> blocks, error |-> 1]
  BY <1>1, <1>2, <1>3, <1>4, <1>7 DEF reed_solomon_reconstruct
<1>9. CASE Len(erased) > 0 /\ Len(valid) >= Len(erased)
  <2>1. ListIn(fec, 0..(n - 1), Len(erased))
    BY <1>5, <1>6, <1>7, <1>9 DEF ListIn
  <2>2. AllHaveBytes(reed_solomon_decode(g, blocks, erased, fec), n, length)
    BY <1>3, <2>1, DecodeIn
  <2>3. ~ (Len(erased) = 0)
    BY <1>5, <1>9
  <2>4. reed_solomon_reconstruct(g, blocks, marks).blocks
          = reed_solomon_decode(g, blocks, erased, fec)
    BY <1>8, <1>9, <2>3
  <2> QED
    BY <2>2, <2>4
<1>10. CASE ~ (Len(erased) > 0 /\ Len(valid) >= Len(erased))
  <2>1. reed_solomon_reconstruct(g, blocks, marks).blocks = blocks
    BY <1>8, <1>10
  <2> QED
    BY <2>1
<1> QED
  BY <1>9, <1>10

-----------------------------------------------------------------------------
(* The bytes of a coded file.                                              *)

(* The lengths the shards of a code have. *)
ShardLengths(g) == [s \in 0..(g.data + g.parity - 1) |-> ShardLength(g, s)]

BytesInv ==
  /\ file_size \in FileSizes
  /\ geometry # NoGeometry =>
       /\ geometry \in Geometries
       /\ \A s \in Shards : HasBytes(destination[s], ShardLength(geometry, s))
  /\ stored # <<>> =>
       \A s \in Shards : HasBytes(stored[s + 1], ShardLength(geometry, s))

LEMMA BytesStay == BytesInv /\ UNCHANGED <<vars, cut_vars>> => BytesInv'
BY
  DEF BytesInv, vars, cut_vars, Shards, HasBytes, ShardLength, DataLength,
      NoGeometry

LEMMA ShardLengthIn ==
  ASSUME NEW g, CodeOf(g), NEW s \in 0..(g.data + g.parity - 1)
  PROVE  ShardLength(g, s) \in Nat
<1>1. PICK data \in Nat, parity \in Nat, block \in Nat :
        g.data = data /\ g.parity = parity /\ g.block = block
  BY DEF CodeOf
<1>2. CASE s < g.data
  <2>1. s \in 0..(g.data - 1)
    BY <1>1, <1>2
  <2>2. DataLength(g, s) \in Nat
    BY <2>1, LengthIn
  <2> QED
    BY <1>2, <2>2 DEF ShardLength
<1>3. CASE ~ (s < g.data)
  BY <1>1, <1>3 DEF ShardLength
<1> QED
  BY <1>2, <1>3

LEMMA PrepareBytes ==
  ASSUME FieldClosed, CutInv, CodeInv, BytesInv, prepare_upload_state
  PROVE  BytesInv'
<1>1. /\ Cut!prepare_upload_state /\ stage = "new" /\ stored' = stored
      /\ file_size' = file_size /\ file_size \in FileSizes
      /\ shard_size' = Cut!determine_shard_size(file_size)
  BY DEF prepare_upload_state, Cut!prepare_upload_state, BytesInv
<1>2. geometry = NoGeometry /\ stored = <<>>
  BY <1>1 DEF CodeInv
<1>3. CASE rs' /\ shard_size' # 0 /\ file_size <= MaxCoded
  <2>1. PICK size, block, data, parity :
          /\ size = file_size /\ block = shard_size'
          /\ data = total_data_shards' /\ parity = total_parity_shards'
    OBVIOUS
  <2>2. /\ data = Cut!DivideUp(size, block) /\ parity = Cut!DivideUp(2 * data, 3)
        /\ size >= MIN_SHARD_SIZE
    BY <1>1, <1>3, <2>1 DEF Cut!prepare_upload_state
  <2>3. PICK g : g = [data |-> data, parity |-> parity, block |-> block, total |-> size]
    OBVIOUS
  <2>4. g \in Geometries
    <3>1. /\ size \in FileSizes /\ size <= MaxCoded /\ block # 0
          /\ block = Cut!determine_shard_size(size)
      BY <1>1, <1>3, <2>1
    <3> QED
      BY <2>2, <2>3, <3>1, CodesGiven
  <2>5. geometry' = g /\ destination' = Untouched(g)
    BY <1>3, <2>1, <2>3 DEF prepare_upload_state
  <2>6. CodeOf(g)
    <3>1. CodeInv'
      BY PrepareCode
    <3>2. geometry' # NoGeometry
      <4>1. g.block # 0
        BY <1>3, <2>1, <2>3
      <4> QED
        BY <2>5, <4>1 DEF NoGeometry
    <3>3. CodeOf(geometry)'
      BY <3>1, <3>2 DEF CodeInv
    <3> QED
      BY <2>5, <3>3 DEF CodeOf
  <2>7. ASSUME NEW s \in 0..(g.data + g.parity - 1)
        PROVE  HasBytes(Untouched(g)[s], ShardLength(g, s))
    <3>1. PICK k \in Nat : k = ShardLength(g, s)
      BY <2>6, ShardLengthIn
    <3>2. Untouched(g)[s] = Zeros(k)
      BY <3>1 DEF Untouched
    <3> QED
      BY <3>1, <3>2, ZerosAre
  <2>8. \A s \in Shards' : HasBytes(destination'[s], ShardLength(geometry', s))
    BY <2>5, <2>7 DEF Shards
  <2>9. \A s : HasBytes(destination[s], ShardLength(geometry, s))'
                 <=> HasBytes(destination'[s], ShardLength(geometry', s))
    BY DEF HasBytes, ShardLength, DataLength
  <2> QED
    BY <1>1, <1>2, <2>4, <2>5, <2>8, <2>9 DEF BytesInv
<1>4. CASE ~ (rs' /\ shard_size' # 0 /\ file_size <= MaxCoded)
  <2>1. geometry' = geometry
    BY <1>4 DEF prepare_upload_state
  <2> QED
    BY <1>1, <1>2, <2>1 DEF BytesInv, NoGeometry
<1> QED
  BY <1>3, <1>4

LEMMA CreateBytes ==
  ASSUME FieldClosed, CodeInv, BytesInv, create_parity_shards
  PROVE  BytesInv'
<1>1. UNCHANGED <<geometry, destination, file_size>>
  BY
    DEF create_parity_shards, Cut!create_parity_shards, CreateParityShards,
        vars
<1>2. \A s : \A k : HasBytes(destination[s], k)' <=> HasBytes(destination'[s], k')
  BY DEF HasBytes
<1>3. Shards' = Shards /\ \A s : ShardLength(geometry, s)' = ShardLength(geometry, s)
  BY <1>1 DEF Shards, ShardLength, DataLength
<1>4. /\ file_size' \in FileSizes
      /\ geometry' # NoGeometry =>
           /\ geometry' \in Geometries
           /\ \A s \in Shards : HasBytes(destination'[s], ShardLength(geometry', s))
  BY <1>1 DEF BytesInv
<1>5. CASE geometry # NoGeometry /\ stage' = "coded"
  <2>1. stored' = file \o reed_solomon_encode(geometry, file)
    BY <1>5 DEF create_parity_shards, CreateParityShards
  <2>2. /\ CodeOf(geometry) /\ file \in FilesOf(geometry) /\ geometry \in Geometries
    BY <1>5 DEF CodeInv, BytesInv
  <2>3. PICK data \in Nat, parity \in Nat, block \in Nat :
          geometry.data = data /\ geometry.parity = parity /\ geometry.block = block
    BY <2>2 DEF CodeOf
  <2>4. PICK e : e = reed_solomon_encode(geometry, file)
    OBVIOUS
  <2>5. Len(file) = data /\ Len(e) = parity
    BY <2>2, <2>3, <2>4, DataLengths, ParityShards
  <2>6. PICK S1 : file \in Seq(S1)
    BY <2>2, DataLengths
  <2>7. PICK S2 : e \in Seq(S2)
    BY <2>2, <2>4, ParityShards
  <2>8. \A k \in 1..(data + parity) :
          (file \o e)[k] = IF k <= data THEN file[k] ELSE e[k - data]
    <3>1. PICK S : S = S1 \union S2
      OBVIOUS
    <3>2. file \in Seq(S) /\ e \in Seq(S)
      BY <2>6, <2>7, <3>1
    <3> QED
      BY <2>5, <3>2, ConcatProperties
  <2>9. PICK cat : cat = file \o e
    OBVIOUS
  <2>10. PICK parts : parts = file
    OBVIOUS
  <2>11. \A k \in 1..(data + parity) : cat[k] = IF k <= data THEN parts[k] ELSE e[k - data]
    BY <2>8, <2>9, <2>10
  <2>12. stored' = cat
    BY <2>1, <2>4, <2>9
  <2>13. ASSUME NEW s \in Shards
         PROVE HasBytes(stored'[s + 1], ShardLength(geometry, s))
    <3>1. s \in 0..(data + parity - 1)
      BY <2>3 DEF Shards
    <3>2. CASE s < data
      <4>1. PICK k \in 1..data : k = s + 1 /\ k - 1 = s
        BY <3>1, <3>2
      <4>2. stored'[k] = file[k]
        <5>1. k \in 1..(data + parity) /\ k <= data
          BY <4>1
        <5>2. cat[k] = parts[k]
          BY <2>11, <5>1
        <5> QED
          BY <2>10, <2>12, <5>2
      <4>3. HasBytes(file[k], DataLength(geometry, k - 1))
        <5>1. PICK g, f : g = geometry /\ f = file
          OBVIOUS
        <5>2. HasBytes(f[k], DataLength(g, k - 1))
          BY <2>2, <2>3, <5>1, FileBytes
        <5> QED
          BY <5>1, <5>2
      <4>4. ShardLength(geometry, s) = DataLength(geometry, s)
        BY <2>3, <3>2 DEF ShardLength
      <4> QED
        BY <4>1, <4>2, <4>3, <4>4
    <3>3. CASE ~ (s < data)
      <4>1. PICK i \in 1..parity : i = s + 1 - data /\ ~ (s + 1 <= data)
        BY <3>1, <3>3
      <4>2. stored'[s + 1] = e[i]
        <5>1. s + 1 \in 1..(data + parity)
          BY <3>1
        <5>2. PICK k \in 1..(data + parity) : k = s + 1 /\ k - data = i /\ ~ (k <= data)
          BY <2>3, <3>1, <4>1, <5>1
        <5>3. cat[k] = e[k - data]
          BY <2>11, <5>2
        <5> QED
          BY <2>12, <5>2, <5>3
      <4>3. HasBytes(e[i], block)
        <5>1. PICK g, f : g = geometry /\ f = file
          OBVIOUS
        <5>2. HasBytes(reed_solomon_encode(g, f)[i], g.block)
          BY <2>2, <2>3, <5>1, EncodeIn
        <5> QED
          BY <2>3, <2>4, <5>1, <5>2
      <4>4. ShardLength(geometry, s) = block
        BY <2>3, <3>3 DEF ShardLength
      <4> QED
        BY <4>2, <4>3, <4>4
    <3> QED
      BY <3>2, <3>3
  <2> QED
    BY <1>1, <1>3, <1>4, <2>13
      DEF BytesInv, HasBytes, ShardLength, DataLength, NoGeometry
<1>6. CASE ~ (geometry # NoGeometry /\ stage' = "coded")
  <2>1. stored' = stored
    BY <1>6 DEF create_parity_shards, vars
  <2> QED
    BY <1>1, <2>1
      DEF BytesInv, HasBytes, Shards, ShardLength, DataLength, NoGeometry
<1> QED
  BY <1>5, <1>6

(* What a step of the download does to the shards. *)
LEMMA ResolveBytes ==
  ASSUME CodeInv, BytesInv, stored # <<>>,
         UNCHANGED <<geometry, stored, file_size>>,
         \A s \in Shards : HasBytes(destination'[s], ShardLength(geometry, s))
  PROVE  BytesInv'
<1>1. geometry # NoGeometry
  BY DEF CodeInv
<1> QED
  BY <1>1 DEF BytesInv, HasBytes, Shards, ShardLength, DataLength, NoGeometry

LEMMA FetchBytes ==
  ASSUME CodeInv, FetchInv, BytesInv, NEW s \in Shards, FetchShard(s),
         UNCHANGED cut_vars
  PROVE  BytesInv'
<1>1. /\ stored # <<>> /\ destination' = [destination EXCEPT ![s] = stored[s + 1]]
      /\ UNCHANGED <<geometry, stored, file_size>>
  BY DEF FetchShard, cut_vars
<1>2. geometry # NoGeometry
  BY <1>1 DEF CodeInv
<1>3. DOMAIN destination = Shards
  BY <1>2 DEF FetchInv
<1>4. ASSUME NEW t \in Shards
      PROVE HasBytes(destination'[t], ShardLength(geometry, t))
  <2>1. destination'[t] = IF t = s THEN stored[s + 1] ELSE destination[t]
    BY <1>1, <1>3
  <2>2. /\ HasBytes(destination[t], ShardLength(geometry, t))
        /\ HasBytes(stored[s + 1], ShardLength(geometry, s))
    BY <1>1, <1>2 DEF BytesInv
  <2> QED
    BY <2>1, <2>2
<1> QED
  BY <1>1, <1>4, ResolveBytes

LEMMA GiveUpBytes ==
  ASSUME CodeInv, FetchInv, BytesInv, NEW s \in Shards, GiveUpShard(s),
         UNCHANGED cut_vars
  PROVE  BytesInv'
<1>1. stored # <<>> /\ UNCHANGED <<geometry, stored, file_size>>
  BY DEF GiveUpShard, cut_vars
<1>2. PICK left \in [1..ShardLength(geometry, s) -> Stale] :
        destination' = [destination EXCEPT ![s] = left]
  BY DEF GiveUpShard
<1>3. geometry # NoGeometry
  BY <1>1 DEF CodeInv
<1>4. DOMAIN destination = Shards
  BY <1>3 DEF FetchInv
<1>5. HasBytes(left, ShardLength(geometry, s))
  <2>1. ShardLength(geometry, s) \in Nat
    BY <1>3 DEF BytesInv, HasBytes
  <2> QED
    BY <2>1, BytesAssumption DEF HasBytes
<1>6. ASSUME NEW t \in Shards
      PROVE HasBytes(destination'[t], ShardLength(geometry, t))
  <2>1. destination'[t] = IF t = s THEN left ELSE destination[t]
    BY <1>2, <1>4
  <2>2. HasBytes(destination[t], ShardLength(geometry, t))
    BY <1>3 DEF BytesInv
  <2> QED
    BY <1>5, <2>1, <2>2
<1> QED
  BY <1>1, <1>6, ResolveBytes

LEMMA RecoverBytes ==
  ASSUME FieldClosed, CodeInv, FetchInv, BytesInv, recover_shards,
         UNCHANGED cut_vars
  PROVE  BytesInv'
<1>1. stored # <<>> /\ UNCHANGED <<geometry, stored, file_size>>
  BY DEF recover_shards, Recoverable, cut_vars
<1>2. CodeOf(geometry) /\ Received = geometry /\ geometry # NoGeometry
  BY <1>1, GeometriesAgreeHolds DEF CodeInv, GeometriesAgree
<1>3. PICK data \in Nat, parity \in Nat : geometry.data = data /\ geometry.parity = parity
  BY <1>2 DEF CodeOf
<1>4. PICK g, blocks, marks, n, length :
        /\ g = geometry /\ blocks = destination /\ marks = missing
        /\ n = data + parity /\ length = ShardLengths(geometry)
  OBVIOUS
<1>5. Shards = 0..(n - 1)
  BY <1>3, <1>4 DEF Shards
<1>6. AllHaveBytes(blocks, n, length)
  <2>1. \A s \in 0..(n - 1) : length[s] = ShardLength(geometry, s)
    BY <1>3, <1>4 DEF ShardLengths
  <2>2. DOMAIN destination = Shards
    BY <1>2 DEF FetchInv
  <2>3. \A s \in Shards : HasBytes(destination[s], ShardLength(geometry, s))
    BY <1>2 DEF BytesInv
  <2> QED
    BY <1>4, <1>5, <2>1, <2>2, <2>3 DEF AllHaveBytes
<1>7. destination' = IF missing = {} THEN destination
                     ELSE reed_solomon_reconstruct(g, blocks, marks).blocks
  BY <1>2, <1>4 DEF recover_shards
<1>8. AllHaveBytes(reed_solomon_reconstruct(g, blocks, marks).blocks, n, length)
  <2>1. marks \in SUBSET (0..(n - 1))
    BY <1>4, <1>5 DEF FetchInv
  <2>2. g \in Geometries /\ g.data = data /\ g.parity = parity
    BY <1>2, <1>3, <1>4 DEF BytesInv
  <2> QED
    BY <1>4, <1>6, <2>1, <2>2, ReconstructIn
<1>9. AllHaveBytes(destination', n, length)
  BY <1>4, <1>6, <1>7, <1>8
<1>10. \A s \in Shards : HasBytes(destination'[s], ShardLength(geometry, s))
  <2>1. \A s \in 0..(n - 1) : length[s] = ShardLength(geometry, s)
    BY <1>3, <1>4 DEF ShardLengths
  <2> QED
    BY <1>5, <1>9, <2>1 DEF AllHaveBytes
<1> QED
  BY <1>1, <1>10, ResolveBytes

LEMMA NextBytes ==
  FieldClosed /\ CutInv /\ CodeInv /\ FetchInv /\ BytesInv /\ [FileNext]_<<vars, cut_vars>>
    => BytesInv'
<1> SUFFICES ASSUME FieldClosed, CutInv, CodeInv, FetchInv, BytesInv,
                    [FileNext]_<<vars, cut_vars>>
             PROVE  BytesInv'
  OBVIOUS
<1>1. CASE prepare_upload_state
  BY <1>1, PrepareBytes
<1>2. CASE create_parity_shards
  BY <1>2, CreateBytes
<1>3. CASE resolve_file
  <2>1. ASSUME NEW s \in Shards, FetchShard(s), UNCHANGED cut_vars
        PROVE BytesInv'
    BY <2>1, FetchBytes
  <2>2. ASSUME NEW s \in Shards, GiveUpShard(s), UNCHANGED cut_vars
        PROVE BytesInv'
    BY <2>2, GiveUpBytes
  <2>3. CASE recover_shards /\ UNCHANGED cut_vars
    BY <2>3, RecoverBytes
  <2> QED
    BY <1>3, <2>1, <2>2, <2>3 DEF resolve_file
<1>4. CASE UNCHANGED <<vars, cut_vars>>
  BY <1>4, BytesStay
<1> QED
  BY <1>1, <1>2, <1>3, <1>4 DEF FileNext

LEMMA InitBytes == FileInit => BytesInv
BY DEF FileInit, Cut!Init, BytesInv

LEMMA TypesOKHolds == CodeInv /\ FetchInv /\ BytesInv /\ Cut!TypeOK => TypesOK
<1> SUFFICES ASSUME FetchInv, BytesInv, geometry # NoGeometry PROVE TypeOK
  BY DEF TypesOK
<1>1. ASSUME NEW s \in Shards
      PROVE  /\ Len(destination[s]) = ShardLength(geometry, s)
             /\ \A b \in DOMAIN destination[s] : destination[s][b] \in Elements
  <2>1. PICK k, x : k = ShardLength(geometry, s) /\ x = destination[s]
    OBVIOUS
  <2>2. k \in Nat /\ x \in [1..k -> Elements]
    BY <2>1 DEF BytesInv, HasBytes
  <2>3. Len(x) = k /\ \A b \in DOMAIN x : x[b] \in Elements
    BY <2>2
  <2> QED
    BY <2>1, <2>3
<1> QED
  BY <1>1 DEF TypeOK, FetchInv, BytesInv

(* With a field whose operations stay in it, what TLC finds of the 8 bits  *)
(* the code is built with: every shard of the destination has the length   *)
(* of its part of the file and bytes of the field, whatever was left by    *)
(* failed attempts and after any recovery, and the counts are those of a   *)
(* code (code_some_shards, invert_mat, reed_solomon_decode).               *)
THEOREM TypesHold == ASSUME FieldClosed PROVE FileSpec => []TypesOK
<1>1. FileInit => BytesInv
  BY InitBytes
<1>2. CutInv /\ CodeInv /\ FetchInv /\ BytesInv /\ [FileNext]_<<vars, cut_vars>>
        => BytesInv'
  BY NextBytes
<1> QED
  BY <1>1, <1>2, AllOfIt, CutTypes, TypesOKHolds, PTL DEF FileSpec

=============================================================================
