------------------------------ MODULE FecTables ------------------------------
(***************************************************************************)
(* fec_init of rs.c, loop body by loop body, on the tables all threads     *)
(* share.  create_parity_shards (uploader.c) and recover_shards            *)
(* (downloader.c) each call it in a pool thread, whatever runs in the      *)
(* others, and then code with the tables.                                  *)
(***************************************************************************)
EXTENDS GaloisField

CONSTANT Workers     \* pool threads that encode or recover a file

VARIABLES
  exp, log, inv, mul,   \* gf_exp, gf_log, inverse and gf_mul_table
  fec_initialized,
  pc,                   \* where each worker is
  i, j                  \* its loop variables

tables == <<exp, log, inv, mul>>
vars == <<exp, log, inv, mul, fec_initialized, pc, i, j>>

Init ==
  /\ exp = [n \in 0..(2 * GF_SIZE - 1) |-> 0]
  /\ log = [x \in Elements |-> 0]
  /\ inv = [x \in Elements |-> 0]
  /\ mul = [x \in Elements |-> [y \in Elements |-> 0]]
  /\ fec_initialized = FALSE
  /\ pc = [w \in Workers |-> "idle"]
  /\ i = [w \in Workers |-> 0]
  /\ j = [w \in Workers |-> 0]

(* The loop at label here goes round until its variable reaches last, and  *)
(* then on to label next, whose loop starts at first.                      *)
Loop(w, here, last, next, first) ==
  /\ pc[w] = here
  /\ IF i[w] < last
     THEN i' = [i EXCEPT ![w] = @ + 1] /\ pc' = pc
     ELSE i' = [i EXCEPT ![w] = first] /\ pc' = [pc EXCEPT ![w] = next]

fec_init(w) ==
  /\ pc[w] = "idle"
  /\ exp' = [exp EXCEPT ![GF_BITS] = 0]
  /\ pc' = [pc EXCEPT ![w] = "first powers"]
  /\ i' = [i EXCEPT ![w] = 0]
  /\ UNCHANGED <<log, inv, mul, fec_initialized, j>>

FirstPower(w) ==
  LET mask == 2^i[w]
      inPp == i[w] \in allPp[GF_BITS]
  IN /\ Loop(w, "first powers", GF_BITS - 1, "alpha", 0)
     /\ exp' = [exp EXCEPT ![i[w]] = mask,
                           ![GF_BITS] = IF inPp THEN Plus(@, mask) ELSE @]
     /\ log' = [log EXCEPT ![mask] = i[w]]
     /\ UNCHANGED <<inv, mul, fec_initialized, j>>

LogOfAlpha(w) ==
  /\ pc[w] = "alpha"
  /\ log' = [log EXCEPT ![exp[GF_BITS]] = GF_BITS]
  /\ i' = [i EXCEPT ![w] = GF_BITS + 1]
  /\ pc' = [pc EXCEPT ![w] = IF GF_BITS + 1 < GF_SIZE THEN "powers" ELSE "zero"]
  /\ UNCHANGED <<exp, inv, mul, fec_initialized, j>>

HigherPower(w) ==
  LET mask == 2^(GF_BITS - 1)
      previous == exp[i[w] - 1]
      power == IF previous >= mask
               THEN Plus(exp[GF_BITS], 2 * (previous - mask))
               ELSE 2 * previous
  IN /\ Loop(w, "powers", GF_SIZE - 1, "zero", 0)
     /\ exp' = [exp EXCEPT ![i[w]] = power]
     /\ log' = [log EXCEPT ![power] = i[w]]
     /\ UNCHANGED <<inv, mul, fec_initialized, j>>

LogOfZero(w) ==
  /\ pc[w] = "zero"
  /\ log' = [log EXCEPT ![0] = GF_SIZE]
  /\ i' = [i EXCEPT ![w] = 0]
  /\ pc' = [pc EXCEPT ![w] = "extend"]
  /\ UNCHANGED <<exp, inv, mul, fec_initialized, j>>

ExtendPowers(w) ==
  /\ Loop(w, "extend", GF_SIZE - 1, "inverses", 2)
  /\ exp' = [exp EXCEPT ![i[w] + GF_SIZE] = exp[i[w]]]
  /\ inv' = IF i[w] = GF_SIZE - 1 THEN [inv EXCEPT ![0] = 0, ![1] = 1] ELSE inv
  /\ UNCHANGED <<log, mul, fec_initialized, j>>

Inverse(w) ==
  /\ Loop(w, "inverses", GF_SIZE, "products", 0)
  /\ inv' = [inv EXCEPT ![i[w]] = exp[GF_SIZE - log[i[w]]]]
  /\ j' = [j EXCEPT ![w] = 0]
  /\ UNCHANGED <<exp, log, mul, fec_initialized>>

(* Two nested loops: the inner one over j.                                 *)
Product(w) ==
  /\ pc[w] = "products"
  /\ mul' = [mul EXCEPT ![i[w]][j[w]] = exp[modnn[log[i[w]] + log[j[w]]]]]
  /\ j' = [j EXCEPT ![w] = IF @ < GF_SIZE THEN @ + 1 ELSE 0]
  /\ IF j[w] < GF_SIZE THEN UNCHANGED <<i, pc>>
     ELSE Loop(w, "products", GF_SIZE, "zero products", 0)
  /\ UNCHANGED <<exp, log, inv, fec_initialized>>

ZeroProduct(w) ==
  /\ Loop(w, "zero products", GF_SIZE, "coding", 0)
  /\ mul' = [mul EXCEPT ![i[w]][0] = 0, ![0][i[w]] = 0]
  /\ fec_initialized' = (fec_initialized \/ i[w] = GF_SIZE)
  /\ UNCHANGED <<exp, log, inv, j>>

(* reed_solomon_new and the coding that follows, which only read.          *)
FinishCoding(w) ==
  /\ pc[w] = "coding"
  /\ fec_initialized
  /\ pc' = [pc EXCEPT ![w] = "idle"]
  /\ UNCHANGED <<exp, log, inv, mul, fec_initialized, i, j>>

Step(w) ==
  \/ fec_init(w) \/ FirstPower(w) \/ LogOfAlpha(w) \/ HigherPower(w)
  \/ LogOfZero(w) \/ ExtendPowers(w) \/ Inverse(w)
  \/ Product(w) \/ ZeroProduct(w) \/ FinishCoding(w)

Next == \E w \in Workers : Step(w)

Spec == Init /\ [][Next]_vars

-----------------------------------------------------------------------------
TypeOK ==
  /\ exp \in [0..(2 * GF_SIZE - 1) -> Elements]
  /\ log \in [Elements -> 0..GF_SIZE]
  /\ inv \in [Elements -> Elements]
  /\ mul \in [Elements -> [Elements -> Elements]]

(* x times \alpha: the polynomial shifted and reduced.                     *)
TimesAlpha(x) ==
  IF 2 * x <= GF_SIZE THEN 2 * x ELSE Xor[2 * x, 2^GF_BITS + Reduction]

(* Multiplication of polynomials, a shift and an addition for each bit.    *)
PolynomialProduct[x \in Elements, y \in Elements] ==
  IF y = 0 THEN 0
  ELSE Xor[IF y % 2 = 1 THEN x ELSE 0, PolynomialProduct[TimesAlpha(x), y \div 2]]

Products == [x \in Elements |-> [y \in Elements |-> PolynomialProduct[x, y]]]

(* "MUST use fec_init once time first" (reed_solomon_new): whoever has     *)
(* called it and codes finds the products and inverses of the field, and   *)
(* logarithms that undo the powers.                                        *)
CodesWithRightTables ==
  (\E w \in Workers : pc[w] = "coding") =>
    /\ mul = Products
    /\ \A x \in Elements \ {0} : mul[x][inv[x]] = 1 /\ exp[log[x]] = x

=============================================================================
