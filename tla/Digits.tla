------------------------------- MODULE Digits -------------------------------
(***************************************************************************)
(* The per-element arithmetic of balanced base-b decomposition over Zq:    *)
(* floor division, one digit step, the number of digits that always        *)
(* suffices, and Horner recomposition.                                     *)
(***************************************************************************)
EXTENDS Integers

CONSTANT Q   \* the modulus

ASSUME QAssumption == Q \in Nat /\ Q > 2 /\ Q % 2 = 1

\* C++ division rounds towards zero; divmod corrects it to a floor.
TruncDiv(a, b) == IF a >= 0 THEN a \div b ELSE -((-a) \div b)
divmod(a, b) ==
  LET q == TruncDiv(a, b)
      r == a - q * b
  IN  IF r # 0 /\ a < 0 THEN <<q - 1, r + b>> ELSE <<q, r>>

Power(b, k) ==
  LET p[i \in 0 .. k] == IF i = 0 THEN 1 ELSE b * p[i - 1] IN p[k]

\* Mutant: no digit for the carry.
compute_nof_digits_exact(b) ==
  CHOOSE k \in 1 .. Q : Power(b, k) >= Q /\ Power(b, k - 1) < Q

\* Digits that represent any element: ceil(log_b q), one more for the carry.
compute_nof_digits(b) ==
  LET exact == CHOOSE k \in 1 .. Q : Power(b, k) >= Q /\ Power(b, k - 1) < Q
  IN  IF b > 2 THEN exact + 1 ELSE exact

\* The step below with the digit made negative where over says so, the carry
\* added or not, and the digit made a residue or not: its mutants.
DigitStepWith(rem, b, over, carry, wrap) ==
  LET val == IF b > 2 /\ rem > Q \div 2 THEN rem - Q ELSE rem
      qr  == divmod(val, b)
      dig == IF over[qr[2]] THEN qr[2] - b ELSE qr[2]
  IN  [rest  |-> IF over[qr[2]] THEN qr[1] + carry ELSE qr[1],
       digit |-> IF dig < 0 THEN dig + wrap ELSE dig]
Above(b, cut) == [r \in 0 .. b - 1 |-> r > cut]
\* Mutant: the quotient is not increased when the digit becomes negative.
DigitStepNoCarry(rem, b) == DigitStepWith(rem, b, Above(b, b \div 2), 0, Q)
\* Mutant: the threshold is off by one.
DigitStepLate(rem, b) == DigitStepWith(rem, b, Above(b, b \div 2 + 1), 1, Q)
\* Mutant: a digit of b / 2 goes to the other side, -b / 2.
DigitStepTies(rem, b) == DigitStepWith(rem, b, Above(b, (b - 1) \div 2), 1, Q)

\* One digit of one element: the new remainder and the digit as a residue.
DigitStep(rem, b) ==
  LET val  == IF b > 2 /\ rem > Q \div 2 THEN rem - Q ELSE rem
      qr   == divmod(val, b)
      over == qr[2] > b \div 2
      dig  == IF over THEN qr[2] - b ELSE qr[2]
  IN  [rest  |-> IF over THEN qr[1] + 1 ELSE qr[1],
       digit |-> IF dig < 0 THEN dig + Q ELSE dig]

\* Recomposition of one element: Horner from the most significant digit.
Horner(cells, e, b, n) ==
  LET acc[k \in 0 .. n] ==
        IF k = n THEN 0 ELSE (acc[k + 1] * b + cells[k][e]) % Q
  IN  acc[0]
=============================================================================
