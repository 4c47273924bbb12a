-------------------------------- MODULE Norms --------------------------------
(***************************************************************************)
(* What check_norm_bound answers for a vector over Zq, as a function of    *)
(* the vector.  Module NormCheck has the threads that compute it.          *)
(***************************************************************************)
EXTENDS Digits

\* The signed and the absolute value of a residue, balanced around zero.
Centered(x)     == IF x > Q \div 2 THEN x - Q ELSE x
abs_centered(x) == IF x > Q \div 2 THEN Q - x ELSE x

\* A loop that adds up f[i] for i = lo, ..., hi - 1.
SumBetween(f, lo, hi) ==
  LET sum[k \in lo .. hi] == IF k = lo THEN 0 ELSE sum[k - 1] + f[k - 1]
  IN  sum[hi]

\* With L2 an entry of sqrt(q) or more is an error, which ICICLE_CHECK turns
\* into an exception.
SqrtQ == CHOOSE s \in 0 .. Q : s * s <= Q /\ (s + 1) * (s + 1) > Q
norm_L2(len, v, bound) ==
  LET Abs(k)  == abs_centered(v[k])
      squares == [k \in 0 .. len - 1 |-> Abs(k) * Abs(k)]
  IN  IF \E k \in 0 .. len - 1 : Abs(k) >= SqrtQ THEN "error"
      ELSE IF SumBetween(squares, 0, len) < bound * bound THEN "small" ELSE "large"
=============================================================================
