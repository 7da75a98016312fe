----------------------------- MODULE GaloisField -----------------------------
(***************************************************************************)
(* The arithmetic of rs.c over GF(2^GF_BITS), as the tables fec_init       *)
(* leaves behind when nothing disturbs it (FecTables.tla writes the same   *)
(* tables one entry at a time).  The code is compiled with GF_BITS = 8 and *)
(* has 255 and << 8 written out in galExp and gf_mul; they are GF_SIZE and *)
(* the width of a row here, so that small fields can be used as well.      *)
(***************************************************************************)
EXTENDS Integers, Sequences

CONSTANT GF_BITS     \* bits of a field element

ASSUME GFBitsAssumption == GF_BITS \in 2..8

GF_SIZE == 2^GF_BITS - 1

Elements == 0..GF_SIZE

(* The exponents whose coefficient is 1 in the primitive polynomial.       *)
allPp == << {}, {0, 1, 2}, {0, 1, 3}, {0, 1, 4}, {0, 2, 5}, {0, 1, 6},
            {0, 3, 7}, {0, 2, 3, 4, 8} >>

-----------------------------------------------------------------------------
(* The ^ of C, from the last bit up.                                       *)
Xor[x \in Nat, y \in Nat] ==
  IF x = 0 THEN y ELSE ((x + y) % 2) + 2 * Xor[x \div 2, y \div 2]

Sums == [x \in Elements |-> [y \in Elements |-> Xor[x, y]]]

(* Addition in the field.                                                  *)
Plus(x, y) == Sums[x][y]

(* \alpha ** GF_BITS in polynomial form: the polynomial without its        *)
(* leading term.                                                           *)
Reduction ==
  LET bits[i \in 0..GF_BITS] ==
        IF i = 0 THEN 0
        ELSE bits[i - 1] + (IF i - 1 \in allPp[GF_BITS] THEN 2^(i - 1) ELSE 0)
  IN bits[GF_BITS]

(* \alpha ** (i + 1) from \alpha ** i.                                     *)
NextPower(p) ==
  LET mask == 2^(GF_BITS - 1)
  IN IF p >= mask THEN Plus(Reduction, 2 * (p - mask)) ELSE 2 * p

(* From \alpha ** i to \alpha ** (i + 2^steps).                            *)
Advance[steps \in 0..(GF_BITS - 1)] ==
  [p \in Elements |->
     IF steps = 0 THEN NextPower(p) ELSE Advance[steps - 1][Advance[steps - 1][p]]]

(* \alpha ** i, by the bits of i.                                          *)
Power(i) ==
  LET upTo[bit \in 0..GF_BITS] ==
        IF bit = 0 THEN 1
        ELSE IF (i \div 2^(bit - 1)) % 2 = 1 THEN Advance[bit - 1][upTo[bit - 1]]
        ELSE upTo[bit - 1]
  IN upTo[GF_BITS]

(* The table is extended so that the sum of two logarithms is an index.    *)
gf_exp == [i \in 0..(2 * GF_SIZE - 1) |-> Power(i % GF_SIZE)]

(* log(0) is not defined: GF_SIZE stands for it.                           *)
gf_log ==
  [x \in Elements |->
     IF x = 0 THEN GF_SIZE ELSE CHOOSE i \in 0..(GF_SIZE - 1) : gf_exp[i] = x]

inverse ==
  [x \in Elements |-> IF x \in {0, 1} THEN x ELSE gf_exp[GF_SIZE - gf_log[x]]]

(* x % GF_SIZE without a division.                                         *)
modnn[x \in Nat] ==
  IF x < GF_SIZE THEN x
  ELSE LET y == x - GF_SIZE
       IN modnn[(y \div 2^GF_BITS) + (y % 2^GF_BITS)]

gf_mul_table ==
  [x \in Elements |-> [y \in Elements |->
     IF x = 0 \/ y = 0 THEN 0 ELSE gf_exp[modnn[gf_log[x] + gf_log[y]]]]]

gf_mul(x, y) == gf_mul_table[x][y]

(* a ** n                                                                  *)
galExp(a, n) ==
  IF n = 0 THEN 1
  ELSE IF a = 0 THEN 0
  ELSE gf_exp[(gf_log[a] * n) % GF_SIZE]

-----------------------------------------------------------------------------
(* The operations stay in the field: a computation, which is over once     *)
(* GF_BITS is known.                                                       *)
FieldClosed ==
  /\ GF_SIZE \in Nat \ {0}
  /\ \A x \in Elements : inverse[x] \in Elements
  /\ \A x, y \in Elements :
       Plus(x, y) \in Elements /\ gf_mul(x, y) \in Elements /\ galExp(x, y) \in Elements

=============================================================================
