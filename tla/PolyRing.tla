------------------------------ MODULE PolyRing ------------------------------
(***************************************************************************)
(* The arithmetic the protocol computes with: Zq, the polynomials          *)
(* Rq = Zq[X]/(X^d + 1) and their negacyclic NTT image Tq.  As in the      *)
(* code, an element of Rq and an element of Tq are the same array of d     *)
(* residues (PolyRing); only the operation applied tells them apart:       *)
(* vector_mul, matmul and friends multiply slot by slot, so they are ring  *)
(* products on Tq only, while coefficients are what decompositions, norms  *)
(* and constant terms are read from.                                       *)
(***************************************************************************)
EXTENDS Norms

CONSTANTS
  Deg,   \* d, the number of coefficients
  Psi    \* a primitive 2d-th root of unity modulo Q: psi in negacyclic ntt

ASSUME DegAssumption == Deg \in Nat \ {0}

Zq   == 0 .. Q - 1
Idx  == 0 .. Deg - 1
Poly == [Idx -> Zq]

\* The sum of f over 0 .. n - 1, modulo Q.
SumZ(n, f(_)) ==
  LET s[k \in 0 .. n] == IF k = 0 THEN 0 ELSE s[k - 1] + f(k - 1)
  IN  s[n] % Q

PowZ(x, n) ==
  LET p[k \in 0 .. n] ==
        IF k = 0 THEN 1
        ELSE LET h == p[k \div 2]
             IN  (((h * h) % Q) * IF k % 2 = 1 THEN x ELSE 1) % Q
  IN  p[n]

Neg(x) == (Q - x) % Q
InvZ(x) == CHOOSE y \in Zq : (x * y) % Q = 1 % Q

ASSUME PsiAssumption ==
  /\ Psi \in Zq
  /\ PowZ(Psi, Deg) = Q - 1        \* psi^d = -1
  /\ \E y \in Zq : (Deg * y) % Q = 1

ZeroPoly == [c \in Idx |-> 0]
\* const_poly: a scalar as an element of Tq has the same value in every slot.
ConstT(x) == [c \in Idx |-> x]

AddP(a, b)   == [c \in Idx |-> (a[c] + b[c]) % Q]
NegP(a)      == [c \in Idx |-> Neg(a[c])]
ScaleP(x, a) == [c \in Idx |-> (x * a[c]) % Q]
\* The slot-wise product: the product of Tq.
MulT(a, b)   == [c \in Idx |-> (a[c] * b[c]) % Q]

\* Sum of the polynomials f(0), ..., f(n - 1), slot by slot.
SumP(n, f(_)) == [c \in Idx |-> SumZ(n, LAMBDA k : f(k)[c])]

\* matmul of a 1 x n row with an n x 1 column of Tq elements.
DotT(n, x, y) == [c \in Idx |-> SumZ(n, LAMBDA k : x[k][c] * y[k][c])]

\* The product of Rq, by its definition: X^d = -1.  The code never computes it
\* this way; it is the reference the NTT is judged against.
MulR(a, b) ==
  [c \in Idx |->
    SumZ(Deg, LAMBDA i : IF i <= c THEN a[i] * b[c - i]
                                   ELSE a[i] * Neg(b[Deg + c - i]))]

\* The powers of psi, which has order 2d.
PsiPow == [k \in 0 .. 2 * Deg - 1 |-> PowZ(Psi, k)]
PsiTo(k) == PsiPow[k % (2 * Deg)]

\* Mutant: no coset, the powers are those of psi^2.
NttCyclic(a) ==
  [j \in Idx |-> SumZ(Deg, LAMBDA i : a[i] * PsiTo(2 * j * i))]

\* Forward transform: evaluation at the odd powers of psi, that is a cyclic NTT
\* on the coset psi.
Ntt(a) ==
  [j \in Idx |-> SumZ(Deg, LAMBDA i : a[i] * PsiTo((2 * j + 1) * i))]

\* Inverse transform.
Intt(a) ==
  LET invDeg == InvZ(Deg % Q)
  IN  [i \in Idx |->
        (invDeg * SumZ(Deg, LAMBDA j : a[j] * PsiTo(-(2 * j + 1) * i))) % Q]

\* Mutant: flipped without negation, as for X^d = 1.
ConjugateCyclic(a) == [c \in Idx |-> IF c = 0 THEN a[0] ELSE a[Deg - c]]

\* The row of get_jl_matrix_rows with negacyclic_conjugate: the polynomial
\* a(1/X), whose coefficients are flipped and negated except the constant one.
Conjugate(a) ==
  [c \in Idx |-> IF c = 0 THEN a[0] ELSE Neg(a[Deg - c])]
=============================================================================
