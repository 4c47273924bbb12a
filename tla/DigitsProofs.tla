---------------------------- MODULE DigitsProofs ----------------------------
(***************************************************************************)
(* What the digits of one element are worth, for every odd modulus, every  *)
(* base and every number of digits.                                        *)
(***************************************************************************)
EXTENDS Digits, WellFoundedInduction, TLAPS

-----------------------------------------------------------------------------
(* Induction over the naturals, for a set of numbers.                       *)
Less == {p \in Nat \X Nat : p[1] < p[2]}

(* A non-empty set of numbers has a least one.                              *)
LEMMA Least ==
  ASSUME NEW S \in SUBSET Nat, S # {}
  PROVE  \E m \in S : \A k \in S : m <= k
<1>1. IsWellFoundedOn(Less, Nat)
  <2>1. Less = OpToRel(<, Nat)
    BY DEF Less, OpToRel
  <2> QED BY <2>1, NatLessThanWellFounded
<1>2. PICK x \in S : \A y \in S : ~(<<y, x>> \in Less)
  BY <1>1, WFMin
<1>3. \A y \in S : y \in Nat /\ x \in Nat /\ ~(y < x)
  BY <1>2 DEF Less
<1>4. \A y \in S : x <= y
  BY <1>3
<1> QED BY <1>4

(* A set that holds 0 and with every number the next holds them all.        *)
LEMMA Induction ==
  ASSUME NEW S \in SUBSET Nat, 0 \in S, \A n \in S : n + 1 \in S
  PROVE  S = Nat
<1> SUFFICES ASSUME Nat \ S # {} PROVE FALSE
  OBVIOUS
<1>1. PICK m \in Nat \ S : \A k \in Nat \ S : m <= k
  BY Least
<1>2. m - 1 \in Nat
  BY <1>1
<1>3. m - 1 \in S
  BY <1>1, <1>2
<1>4. (m - 1) + 1 \in S
  BY <1>3
<1> QED BY <1>1, <1>2, <1>4

-----------------------------------------------------------------------------
(* Power is the power: the function with these values exists, and those of  *)
(* two lengths agree.                                                       *)
PowersOf(p, b, k) == p = [i \in 0 .. k |-> IF i = 0 THEN 1 ELSE b * p[i - 1]]

(* The recursive table of powers is what its equations say,                 *)
LEMMA PowersExist ==
  ASSUME NEW b, NEW k \in Nat
  PROVE  \E p : PowersOf(p, b, k)
<1> DEFINE S == {m \in Nat : \E p : PowersOf(p, b, m)}
<1>1. 0 \in S
  <2>1. PowersOf([i \in 0 .. 0 |-> 1], b, 0)
    BY DEF PowersOf
  <2> QED BY <2>1
<1>2. ASSUME NEW m \in S PROVE m + 1 \in S
  <2>1. PICK p : PowersOf(p, b, m)
    OBVIOUS
  <2> DEFINE h == [i \in 0 .. m + 1 |-> IF i = m + 1 THEN b * p[m] ELSE p[i]]
  <2>2. \A i \in 0 .. m : h[i] = p[i] /\ p[i] = IF i = 0 THEN 1 ELSE b * p[i - 1]
    BY <2>1 DEF PowersOf
  <2>3. ASSUME NEW i \in 0 .. m + 1 PROVE h[i] = IF i = 0 THEN 1 ELSE b * h[i - 1]
    <3>1. CASE i = m + 1
      <4>1. i # 0 /\ i - 1 = m /\ m \in 0 .. m
        BY <3>1
      <4>2. h[i] = b * p[m] /\ h[m] = p[m]
        BY <2>2, <3>1, <4>1
      <4> QED BY <4>1, <4>2
    <3>2. CASE i # m + 1
      <4>1. i \in 0 .. m /\ (i # 0 => i - 1 \in 0 .. m)
        BY <3>2
      <4> QED BY <2>2, <4>1
    <3> QED BY <3>1, <3>2
  <2>4. PowersOf(h, b, m + 1)
    BY <2>3 DEF PowersOf
  <2> QED BY <2>4
<1> HIDE DEF S
<1>3. S = Nat
  BY <1>1, <1>2, Induction DEF S
<1> QED BY <1>3 DEF S

(* two tables agree where both are defined,                                 *)
LEMMA PowersAgree ==
  ASSUME NEW b, NEW k \in Nat, NEW l \in Nat, k <= l,
         NEW p, PowersOf(p, b, k), NEW q, PowersOf(q, b, l)
  PROVE  p[k] = q[k]
<1> DEFINE S == {m \in Nat : m <= k => p[m] = q[m]}
<1>1. /\ \A i \in 0 .. k : p[i] = IF i = 0 THEN 1 ELSE b * p[i - 1]
      /\ \A i \in 0 .. l : q[i] = IF i = 0 THEN 1 ELSE b * q[i - 1]
  BY DEF PowersOf
<1>2. 0 \in S
  BY <1>1
<1>3. ASSUME NEW m \in S PROVE m + 1 \in S
  <2> SUFFICES ASSUME m + 1 <= k PROVE p[m + 1] = q[m + 1]
    OBVIOUS
  <2>1. m + 1 \in 0 .. k /\ m + 1 \in 0 .. l /\ m + 1 # 0 /\ (m + 1) - 1 = m /\ p[m] = q[m]
    OBVIOUS
  <2> QED BY <1>1, <2>1
<1> HIDE DEF S
<1>4. S = Nat
  BY <1>2, <1>3, Induction DEF S
<1> QED BY <1>4 DEF S

(* so Power obeys the equations of a power.                                 *)
LEMMA PowerUnrolls ==
  ASSUME NEW b
  PROVE  Power(b, 0) = 1 /\ \A k \in Nat : Power(b, k + 1) = b * Power(b, k)
<1> DEFINE p(k) == CHOOSE g : PowersOf(g, b, k)
<1>1. \A k \in Nat : Power(b, k) = p(k)[k]
  BY DEF Power, PowersOf
<1>2. \A k \in Nat : PowersOf(p(k), b, k)
  BY PowersExist
<1> HIDE DEF p
<1>3. Power(b, 0) = 1
  BY <1>1, <1>2 DEF PowersOf
<1>4. ASSUME NEW k \in Nat PROVE Power(b, k + 1) = b * Power(b, k)
  <2>1. k + 1 \in Nat /\ k <= k + 1 /\ k + 1 \in 0 .. k + 1 /\ k + 1 # 0 /\ (k + 1) - 1 = k
    OBVIOUS
  <2>2. p(k + 1)[k + 1] = b * p(k + 1)[k]
    <3>1. p(k + 1) = [i \in 0 .. k + 1 |-> IF i = 0 THEN 1 ELSE b * p(k + 1)[i - 1]]
      BY <1>2, <2>1 DEF PowersOf
    <3> QED BY <2>1, <3>1
  <2>3. p(k)[k] = p(k + 1)[k]
    BY <1>2, <2>1, PowersAgree
  <2> QED BY <1>1, <2>1, <2>2, <2>3
<1> QED BY <1>3, <1>4

(* Powers of a base of two or more are positive and grow.                   *)
LEMMA PowerGrows ==
  ASSUME NEW b \in Nat, b >= 2, NEW k \in Nat
  PROVE  /\ Power(b, k) \in Nat \ {0} /\ k < Power(b, k)
         /\ Power(b, k + 1) >= 2 * Power(b, k)
<1> DEFINE S == {m \in Nat : Power(b, m) \in Nat \ {0} /\ m < Power(b, m)}
<1>1. \A x \in Nat \ {0} : b * x \in Nat \ {0} /\ b * x >= 2 * x
  <2> TAKE x \in Nat \ {0}
  <2>1. b - 2 \in Nat /\ (b - 2) * x \in Nat /\ b * x = (b - 2) * x + 2 * x
    OBVIOUS
  <2> QED BY <2>1
<1>2. 0 \in S
  BY PowerUnrolls
<1>3. ASSUME NEW m \in S PROVE m + 1 \in S
  <2>1. Power(b, m) \in Nat \ {0} /\ m < Power(b, m) /\ m + 1 \in Nat
    OBVIOUS
  <2>2. Power(b, m + 1) = b * Power(b, m)
    BY PowerUnrolls
  <2>3. b * Power(b, m) \in Nat \ {0} /\ b * Power(b, m) >= 2 * Power(b, m)
    BY <1>1, <2>1
  <2> QED BY <2>1, <2>2, <2>3
<1> HIDE DEF S
<1>4. S = Nat
  BY <1>2, <1>3, Induction DEF S
<1>5. Power(b, k) \in Nat \ {0} /\ k < Power(b, k)
  BY <1>4 DEF S
<1> QED BY <1>1, <1>5, PowerUnrolls

(* A power of a base above one is no less than an earlier one.              *)
LEMMA PowerMonotone ==
  ASSUME NEW b \in Nat, b >= 2, NEW k \in Nat, NEW l \in Nat, k <= l
  PROVE  Power(b, k) <= Power(b, l)
<1> DEFINE S == {m \in Nat : Power(b, k) <= Power(b, k + m)}
<1>1. 0 \in S
  BY PowerGrows
<1>2. ASSUME NEW m \in S PROVE m + 1 \in S
  <2>1. k + m \in Nat /\ k + (m + 1) = (k + m) + 1 /\ Power(b, k) <= Power(b, k + m)
    OBVIOUS
  <2>2. /\ Power(b, k + m) \in Nat /\ Power(b, k) \in Nat /\ Power(b, k + m + 1) \in Nat
        /\ Power(b, k + m + 1) >= 2 * Power(b, k + m)
    <3>1. k + m + 1 \in Nat
      OBVIOUS
    <3> QED BY <2>1, <3>1, PowerGrows
  <2>3. Power(b, k) <= Power(b, k + m + 1)
    BY <2>1, <2>2
  <2> QED BY <2>1, <2>3
<1> HIDE DEF S
<1>3. S = Nat
  BY <1>1, <1>2, Induction DEF S
<1>4. l - k \in S /\ k + (l - k) = l
  BY <1>3
<1> QED BY <1>4 DEF S
-----------------------------------------------------------------------------
(* Equality modulo Q.                                                       *)
Cong(x, y) == \E m \in Int : x = y + m * Q

(* Congruence modulo Q may be added, multiplied by a number and chained.    *)
LEMMA CongRules ==
  /\ \A x \in Int : Cong(x, x)
  /\ \A x, y \in Int : Cong(x, y) => Cong(y, x)
  /\ \A x, y, w \in Int : Cong(x, y) /\ Cong(y, w) => Cong(x, w)
  /\ \A x, y, c \in Int : Cong(x, y) => Cong(x + c, y + c) /\ Cong(x * c, y * c)
<1>0. Q \in Int
  BY QAssumption
<1>1. ASSUME NEW x \in Int PROVE Cong(x, x)
  <2>1. x = x + 0 * Q
    BY <1>0
  <2> QED BY <2>1 DEF Cong
<1>2. ASSUME NEW x \in Int, NEW y \in Int, Cong(x, y) PROVE Cong(y, x)
  <2>1. PICK m \in Int : x = y + m * Q
    BY <1>2 DEF Cong
  <2>2. -m \in Int /\ y = x + (-m) * Q
    BY <1>0, <2>1
  <2> QED BY <2>2 DEF Cong
<1>3. ASSUME NEW x \in Int, NEW y \in Int, NEW w \in Int, Cong(x, y), Cong(y, w)
      PROVE  Cong(x, w)
  <2>1. PICK m \in Int : x = y + m * Q
    BY <1>3 DEF Cong
  <2>2. PICK l \in Int : y = w + l * Q
    BY <1>3 DEF Cong
  <2>3. m + l \in Int /\ x = w + (m + l) * Q
    BY <1>0, <2>1, <2>2
  <2> QED BY <2>3 DEF Cong
<1>4. ASSUME NEW x \in Int, NEW y \in Int, NEW c \in Int, Cong(x, y)
      PROVE  Cong(x + c, y + c) /\ Cong(x * c, y * c)
  <2>1. PICK m \in Int : x = y + m * Q
    BY <1>4 DEF Cong
  <2>2. x + c = (y + c) + m * Q
    BY <1>0, <2>1
  <2>3. m * c \in Int /\ x * c = y * c + (m * c) * Q
    BY <1>0, <2>1
  <2> QED BY <2>2, <2>3 DEF Cong
<1> QED BY <1>1, <1>2, <1>3, <1>4

(* Residues stand for the numbers they are the residues of.                 *)
LEMMA Residues ==
  /\ \A x \in Int : x % Q \in 0 .. Q - 1 /\ Cong(x % Q, x)
  /\ \A x, y \in 0 .. Q - 1 : Cong(x, y) => x = y
  /\ \A x \in Int : Cong(x, 0) <=> x % Q = 0
<1>0. Q \in Nat /\ Q > 2
  BY QAssumption
<1>1. ASSUME NEW x \in Int PROVE x % Q \in 0 .. Q - 1 /\ Cong(x % Q, x)
  <2>1. x % Q \in 0 .. Q - 1 /\ x \div Q \in Int
    BY <1>0
  <2>2. x % Q = x - Q * (x \div Q)
    BY <1>0
  <2>3. x - Q * (x \div Q) = x + (-(x \div Q)) * Q /\ -(x \div Q) \in Int
    BY <1>0, <2>1
  <2> QED BY <2>1, <2>2, <2>3 DEF Cong
<1>2. ASSUME NEW x \in 0 .. Q - 1, NEW y \in 0 .. Q - 1, Cong(x, y) PROVE x = y
  <2>1. PICK m \in Int : x = y + m * Q
    BY <1>2 DEF Cong
  <2>2. CASE m = 0
    BY <1>0, <2>1, <2>2
  <2>3. CASE m >= 1
    <3>1. m - 1 \in Nat /\ (m - 1) * Q \in Nat /\ m * Q = (m - 1) * Q + Q
      BY <1>0, <2>3
    <3> QED BY <1>0, <2>1, <3>1
  <2>4. CASE m <= -1
    <3>1. -m - 1 \in Nat /\ (-m - 1) * Q \in Nat /\ m * Q = -((-m - 1) * Q) - Q
      BY <1>0, <2>4
    <3> QED BY <1>0, <2>1, <3>1
  <2> QED BY <2>1, <2>2, <2>3, <2>4
<1>3. ASSUME NEW x \in Int PROVE Cong(x, 0) <=> x % Q = 0
  <2>1. x % Q \in 0 .. Q - 1 /\ 0 \in 0 .. Q - 1 /\ x % Q \in Int
    BY <1>0
  <2>2. Cong(x, 0) => Cong(x % Q, 0)
    BY <1>1, <2>1, CongRules
  <2>3. x % Q = 0 => Cong(x, 0)
    BY <1>1, <2>1, CongRules
  <2> QED BY <1>2, <2>1, <2>2, <2>3
<1> QED BY <1>1, <1>2, <1>3

-----------------------------------------------------------------------------
(* divmod is the floor division, also of negative numbers.                  *)
LEMMA DivmodFloors ==
  ASSUME NEW a \in Int, NEW b \in Nat, b >= 2
  PROVE  /\ divmod(a, b)[1] \in Int /\ divmod(a, b)[2] \in 0 .. b - 1
         /\ a = divmod(a, b)[1] * b + divmod(a, b)[2]
<1>1. \A x \in Int : x \div b \in Int /\ x - b * (x \div b) \in 0 .. b - 1
  <2>1. \A x \in Int : x \div b \in Int /\ x % b \in 0 .. b - 1
    OBVIOUS
  <2>2. \A x \in Int : x % b = x - b * (x \div b)
    OBVIOUS
  <2> QED BY <2>1, <2>2
<1> DEFINE q == TruncDiv(a, b)
           r == a - q * b
<1>2. q \in Int /\ r \in Int /\ a = q * b + r
  BY <1>1 DEF TruncDiv
<1>3. a >= 0 => r \in 0 .. b - 1
  <2>1. a >= 0 => q = a \div b
    BY DEF TruncDiv
  <2>2. b * (a \div b) = (a \div b) * b
    BY <1>1
  <2> HIDE DEF q
  <2> QED BY <1>1, <1>2, <2>1, <2>2
<1>4. a < 0 => -r \in 0 .. b - 1
  <2>1. a < 0 => q = -((-a) \div b)
    BY DEF TruncDiv
  <2>2. -a \in Int /\ b * ((-a) \div b) = -((-((-a) \div b)) * b)
    BY <1>1
  <2> HIDE DEF q
  <2>3. a < 0 => -r = -a - b * ((-a) \div b)
    BY <1>2, <2>1, <2>2
  <2> HIDE DEF r
  <2> QED BY <1>1, <1>2, <2>2, <2>3
<1>5. divmod(a, b) = IF r # 0 /\ a < 0 THEN <<q - 1, r + b>> ELSE <<q, r>>
  BY DEF divmod
<1>6. (q - 1) * b = q * b - b
  BY <1>2
<1> HIDE DEF q, r
<1>7. q * b \in Int
  BY <1>2
<1>8. CASE r # 0 /\ a < 0
  BY <1>2, <1>4, <1>5, <1>6, <1>7, <1>8
<1>9. CASE ~(r # 0 /\ a < 0)
  BY <1>2, <1>3, <1>4, <1>5, <1>7, <1>9
<1> QED BY <1>8, <1>9

-----------------------------------------------------------------------------
(* The number a step takes its digit from, and the digit as a number.       *)
Lifted(x, b) == IF b > 2 /\ x > Q \div 2 THEN x - Q ELSE x
Signed(x, b) ==
  LET r == divmod(Lifted(x, b), b)[2] IN IF r > b \div 2 THEN r - b ELSE r

(* One step splits its number into the digit and base times the rest.       *)
LEMMA StepSplits ==
  ASSUME NEW x \in Int, NEW b \in Nat, b >= 2
  PROVE  /\ Lifted(x, b) \in Int /\ Cong(Lifted(x, b), x)
         /\ Signed(x, b) \in -((b - 1) \div 2) .. b \div 2
         /\ DigitStep(x, b).rest \in Int /\ DigitStep(x, b).digit \in Int
         /\ Lifted(x, b) = DigitStep(x, b).rest * b + Signed(x, b)
         /\ DigitStep(x, b).digit = IF Signed(x, b) < 0 THEN Signed(x, b) + Q ELSE Signed(x, b)
<1>0. Q \in Nat /\ Q > 2
  BY QAssumption
<1> DEFINE v == Lifted(x, b)
           q == divmod(v, b)[1]
           r == divmod(v, b)[2]
           dig == IF r > b \div 2 THEN r - b ELSE r
<1>1. v \in Int
  BY <1>0 DEF Lifted
<1>2. Cong(v, x)
  <2>1. v = x + (IF b > 2 /\ x > Q \div 2 THEN -1 ELSE 0) * Q
    BY <1>0 DEF Lifted
  <2>2. (IF b > 2 /\ x > Q \div 2 THEN -1 ELSE 0) \in Int
    OBVIOUS
  <2> QED BY <2>1, <2>2 DEF Cong
<1> HIDE DEF v
<1>3. q \in Int /\ r \in 0 .. b - 1 /\ v = q * b + r
  BY <1>1, DivmodFloors
<1> HIDE DEF q, r
<1>4. b \div 2 \in Nat /\ (b - 1) \div 2 \in Nat /\ (b \div 2) + ((b - 1) \div 2) = b - 1
  OBVIOUS
<1>5. dig \in -((b - 1) \div 2) .. b \div 2
  BY <1>3, <1>4
<1>6. Signed(x, b) = dig
  BY DEF Signed, v, r
<1>7. DigitStep(x, b) = [rest  |-> IF r > b \div 2 THEN q + 1 ELSE q,
                         digit |-> IF dig < 0 THEN dig + Q ELSE dig]
  BY DEF DigitStep, v, q, r, Lifted
<1>8. q * b \in Int /\ (q + 1) * b = q * b + b
  BY <1>3
<1>9. v = (IF r > b \div 2 THEN q + 1 ELSE q) * b + dig
  BY <1>3, <1>8
<1> QED BY <1>0, <1>1, <1>2, <1>3, <1>5, <1>6, <1>7, <1>9 DEF v

(* Up to multiples of Q the digit is what the rest leaves of the number.    *)
LEMMA StepKeepsResidue ==
  ASSUME NEW x \in Int, NEW b \in Nat, b >= 2
  PROVE  Cong(DigitStep(x, b).rest * b + DigitStep(x, b).digit, x)
<1> DEFINE rest == DigitStep(x, b).rest
           digit == DigitStep(x, b).digit
           s == Signed(x, b)
<1>0. Q \in Int
  BY QAssumption
<1>1. /\ rest \in Int /\ digit \in Int /\ s \in Int /\ Lifted(x, b) \in Int
      /\ Lifted(x, b) = rest * b + s /\ digit = (IF s < 0 THEN s + Q ELSE s)
      /\ Cong(Lifted(x, b), x)
  BY StepSplits
<1> HIDE DEF rest, digit, s
<1>2. rest * b \in Int
  BY <1>1
<1>3. rest * b + digit = Lifted(x, b) + (IF s < 0 THEN 1 ELSE 0) * Q
  BY <1>0, <1>1, <1>2
<1>4. (IF s < 0 THEN 1 ELSE 0) \in Int /\ rest * b + digit \in Int
  BY <1>1, <1>2
<1>5. Cong(rest * b + digit, Lifted(x, b))
  BY <1>3, <1>4 DEF Cong
<1>6. Cong(rest * b + digit, x)
  BY <1>1, <1>4, <1>5, CongRules
<1> QED BY <1>6 DEF rest, digit

(* A digit is small on the side of zero it is nearer to.                    *)
LEMMA DigitSmall ==
  ASSUME NEW x \in Int, NEW b \in Nat, b >= 2
  PROVE  LET d == DigitStep(x, b).digit
         IN  (IF d > Q \div 2 THEN Q - d ELSE d) < (b + 1) \div 2 + 1
<1> DEFINE d == DigitStep(x, b).digit
           s == Signed(x, b)
<1>1. s \in -((b - 1) \div 2) .. b \div 2 /\ d = (IF s < 0 THEN s + Q ELSE s)
  BY StepSplits
<1> HIDE DEF d, s
<1>2. /\ b \div 2 \in Nat /\ (b - 1) \div 2 \in Nat /\ (b + 1) \div 2 \in Nat
      /\ b \div 2 <= (b + 1) \div 2 /\ (b - 1) \div 2 <= (b + 1) \div 2
  OBVIOUS
<1>3. Q \in Nat /\ Q \div 2 \in Nat /\ 2 * (Q \div 2) <= Q /\ Q < 2 * (Q \div 2) + 2
  BY QAssumption
<1>4. (IF d > Q \div 2 THEN Q - d ELSE d) < (b + 1) \div 2 + 1
  BY <1>1, <1>2, <1>3
<1> QED BY <1>4 DEF d

-----------------------------------------------------------------------------
(* r is what is left of an element before each of its first n steps and     *)
(* after the last of them, d are the digits these steps give.               *)
Trace(r, d, b, n) ==
  /\ r \in [0 .. n -> Int]
  /\ \A j \in 0 .. n - 1 : r[j + 1] = DigitStep(r[j], b).rest /\ d[j] = DigitStep(r[j], b).digit

\* The steps of the digits of x, one from the rest of the other.
ChainOf(c, x, b, n) ==
  c = [k \in 0 .. n - 1 |-> DigitStep(IF k = 0 THEN x ELSE c[k - 1].rest, b)]

(* The remainders of the passes over one residue, as a function.            *)
LEMMA ChainExists ==
  ASSUME NEW x, NEW b, NEW n \in Nat
  PROVE  \E c : ChainOf(c, x, b, n)
<1> DEFINE S == {m \in Nat : \E c : ChainOf(c, x, b, m)}
<1>1. 0 \in S
  <2>1. ChainOf([k \in 0 .. 0 - 1 |-> 0], x, b, 0)
    BY DEF ChainOf
  <2> QED BY <2>1
<1>2. ASSUME NEW m \in S PROVE m + 1 \in S
  <2>1. PICK c : ChainOf(c, x, b, m)
    OBVIOUS
  <2> DEFINE Step(f, k) == DigitStep(IF k = 0 THEN x ELSE f[k - 1].rest, b)
             f1 == [k \in 0 .. (m + 1) - 1 |-> IF k = m THEN Step(c, m) ELSE c[k]]
  <2>2. \A k \in 0 .. m - 1 : f1[k] = c[k] /\ c[k] = Step(c, k)
    BY <2>1 DEF ChainOf
  <2>3. f1[m] = Step(c, m) /\ m \in Nat
    OBVIOUS
  <2>4. ASSUME NEW k \in 0 .. (m + 1) - 1 PROVE f1[k] = Step(f1, k)
    <3>1. k = 0 \/ f1[k - 1] = c[k - 1]
      <4>1. k # 0 => k - 1 \in 0 .. m - 1
        OBVIOUS
      <4> HIDE DEF f1, Step
      <4> QED BY <2>2, <4>1
    <3>2. Step(f1, k) = Step(c, k)
      <4> HIDE DEF f1
      <4> QED BY <3>1
    <3>3. k = m \/ k \in 0 .. m - 1
      BY <2>3
    <3> HIDE DEF f1, Step
    <3> QED BY <2>2, <2>3, <3>2, <3>3
  <2>5. f1 = [k \in 0 .. (m + 1) - 1 |-> f1[k]]
    OBVIOUS
  <2>6. ChainOf(f1, x, b, m + 1)
    <3>1. f1 = [k \in 0 .. (m + 1) - 1 |-> Step(f1, k)]
      <4> HIDE DEF f1, Step
      <4> QED BY <2>4, <2>5
    <3> HIDE DEF f1
    <3> QED BY <3>1 DEF ChainOf
  <2> QED BY <2>6
<1> HIDE DEF S
<1>3. S = Nat
  BY <1>1, <1>2, Induction DEF S
<1> QED BY <1>3 DEF S

(* The rests and the digits of such a chain are a trace.                    *)
LEMMA ChainTrace ==
  ASSUME NEW x \in Int, NEW b \in Nat, b >= 2, NEW n \in Nat, NEW c, ChainOf(c, x, b, n),
         NEW d, \A k \in 0 .. n - 1 : d[k] = c[k].digit
  PROVE  \E r : Trace(r, d, b, n) /\ r[0] = x
<1> DEFINE r == [j \in 0 .. n |-> IF j = 0 THEN x ELSE c[j - 1].rest]
           S == {m \in Nat : m <= n => r[m] \in Int}
<1>1. r[0] = x
  OBVIOUS
<1>2. \A k \in 0 .. n - 1 : /\ c[k] = DigitStep(r[k], b)
                            /\ r[k + 1] = c[k].rest /\ d[k] = c[k].digit
  <2> TAKE k \in 0 .. n - 1
  <2>1. k \in 0 .. n /\ k + 1 \in 0 .. n /\ k + 1 # 0 /\ (k + 1) - 1 = k
    OBVIOUS
  <2>2. r[k] = IF k = 0 THEN x ELSE c[k - 1].rest
    BY <2>1
  <2>3. c[k] = DigitStep(IF k = 0 THEN x ELSE c[k - 1].rest, b)
    BY DEF ChainOf
  <2>4. r[k + 1] = c[k].rest /\ d[k] = c[k].digit
    BY <2>1
  <2> HIDE DEF r
  <2> QED BY <2>2, <2>3, <2>4
<1>3. 0 \in S
  BY <1>1
<1>4. ASSUME NEW m \in S PROVE m + 1 \in S
  <2> SUFFICES ASSUME m + 1 <= n PROVE r[m + 1] \in Int
    OBVIOUS
  <2>1. m \in 0 .. n - 1 /\ r[m] \in Int
    OBVIOUS
  <2> HIDE DEF r
  <2>2. r[m + 1] = DigitStep(r[m], b).rest
    BY <1>2, <2>1
  <2> QED BY <2>1, <2>2, StepSplits
<1> HIDE DEF S
<1>5. S = Nat
  BY <1>3, <1>4, Induction DEF S
<1>6. \A j \in 0 .. n : r[j] \in Int
  <2> TAKE j \in 0 .. n
  <2>1. j \in Nat /\ j <= n
    OBVIOUS
  <2> HIDE DEF r
  <2> QED BY <1>5, <2>1 DEF S
<1>7. r \in [0 .. n -> Int]
  BY <1>6
<1>8. Trace(r, d, b, n)
  <2> HIDE DEF r
  <2> QED BY <1>2, <1>7 DEF Trace
<1> HIDE DEF r
<1> QED BY <1>1, <1>8

\* The function Horner's loop computes, from digits d.
HornerOf(g, d, b, n) ==
  g = [k \in 0 .. n |-> IF k = n THEN 0 ELSE (g[k + 1] * b + d[k]) % Q]

(* The sums of Horner's rule, as a function.                                *)
LEMMA HornerExists ==
  ASSUME NEW d, NEW b, NEW n \in Nat
  PROVE  \E g : HornerOf(g, d, b, n)
<1> DEFINE Val(g, k) == IF k = n THEN 0 ELSE (g[k + 1] * b + d[k]) % Q
           S == {m \in Nat : m <= n =>
                   \E g : g = [k \in 0 .. n |-> g[k]] /\ \A k \in n - m .. n : g[k] = Val(g, k)}
<1>1. 0 \in S
  <2> DEFINE g == [k \in 0 .. n |-> 0]
  <2>1. g = [k \in 0 .. n |-> g[k]] /\ \A k \in n - 0 .. n : g[k] = Val(g, k)
    OBVIOUS
  <2> HIDE DEF g, Val
  <2> QED BY <2>1
<1>2. ASSUME NEW m \in S PROVE m + 1 \in S
  <2> SUFFICES ASSUME m + 1 <= n
               PROVE  \E g : /\ g = [k \in 0 .. n |-> g[k]]
                             /\ \A k \in n - (m + 1) .. n : g[k] = Val(g, k)
    OBVIOUS
  <2>1. PICK g : g = [k \in 0 .. n |-> g[k]] /\ \A k \in n - m .. n : g[k] = Val(g, k)
    <3> HIDE DEF Val
    <3> QED OBVIOUS
  <2> DEFINE i == n - (m + 1)
             h == [k \in 0 .. n |-> IF k = i THEN Val(g, i) ELSE g[k]]
  <2>2. i \in 0 .. n /\ i # n /\ i + 1 \in 0 .. n /\ i + 1 # i /\ m \in Nat
    OBVIOUS
  <2>3. \A k \in 0 .. n : k # i => h[k] = g[k]
    OBVIOUS
  <2>4. h[i] = Val(g, i)
    BY <2>2
  <2>5. ASSUME NEW k \in n - (m + 1) .. n PROVE h[k] = Val(h, k)
    <3>1. CASE k = i
      <4>1. h[i + 1] = g[i + 1]
        BY <2>2, <2>3
      <4> HIDE DEF h
      <4> QED BY <2>4, <3>1, <4>1
    <3>2. CASE k # i
      <4>1. k \in n - m .. n /\ k \in 0 .. n /\ (k # n => k + 1 \in 0 .. n /\ k + 1 # i)
        BY <2>2, <3>2
      <4>2. h[k] = g[k] /\ (k # n => h[k + 1] = g[k + 1])
        BY <2>3, <3>2, <4>1
      <4>3. g[k] = Val(g, k)
        <5> HIDE DEF Val
        <5> QED BY <2>1, <4>1
      <4> HIDE DEF h
      <4> QED BY <4>2, <4>3
    <3> QED BY <3>1, <3>2
  <2>6. h = [k \in 0 .. n |-> h[k]]
    OBVIOUS
  <2> HIDE DEF h, Val
  <2> QED BY <2>5, <2>6
<1> HIDE DEF S
<1>3. S = Nat
  BY <1>1, <1>2, Induction DEF S
<1>4. PICK g : g = [k \in 0 .. n |-> g[k]] /\ \A k \in n - n .. n : g[k] = Val(g, k)
  <2>1. n \in S /\ n <= n
    BY <1>3
  <2> HIDE DEF Val
  <2> QED BY <2>1 DEF S
<1>5. \A k \in 0 .. n : g[k] = Val(g, k)
  <2> HIDE DEF Val
  <2> QED BY <1>4
<1>6. HornerOf(g, d, b, n)
  BY <1>4, <1>5 DEF HornerOf
<1> QED BY <1>6

(* Horner is that function of the digits of one element.                    *)
LEMMA HornerIs ==
  ASSUME NEW cells, NEW e, NEW b, NEW n \in Nat, NEW d,
         \A k \in 0 .. n - 1 : d[k] = cells[k][e]
  PROVE  \E g : HornerOf(g, d, b, n) /\ Horner(cells, e, b, n) = g[0]
<1> DEFINE Is(g) == g = [k \in 0 .. n |->
                           IF k = n THEN 0 ELSE (g[k + 1] * b + cells[k][e]) % Q]
           acc == CHOOSE g : Is(g)
<1>1. Horner(cells, e, b, n) = acc[0]
  BY DEF Horner
<1>2. ASSUME NEW g PROVE Is(g) <=> HornerOf(g, d, b, n)
  <2>1. \A k \in 0 .. n : k # n => k \in 0 .. n - 1
    OBVIOUS
  <2>2. [k \in 0 .. n |-> IF k = n THEN 0 ELSE (g[k + 1] * b + cells[k][e]) % Q]
          = [k \in 0 .. n |-> IF k = n THEN 0 ELSE (g[k + 1] * b + d[k]) % Q]
    BY <2>1
  <2> QED BY <2>2 DEF HornerOf
<1> HIDE DEF Is
<1>3. \E g : Is(g)
  BY <1>2, HornerExists
<1>4. Is(acc)
  BY <1>3
<1> HIDE DEF acc
<1> QED BY <1>1, <1>2, <1>4

(* Horner's loop gives the element back, up to what is left after the last  *)
(* digit, at its weight.                                                    *)
LEMMA HornerGivesBack ==
  ASSUME NEW b \in Nat, b >= 2, NEW n \in Nat, NEW r, NEW d, Trace(r, d, b, n),
         NEW g, HornerOf(g, d, b, n)
  PROVE  g[0] \in 0 .. Q - 1 /\ Cong(g[0] + r[n] * Power(b, n), r[0])
<1> DEFINE S == {m \in Nat : m <= n => /\ g[n - m] \in 0 .. Q - 1
                                       /\ Cong(g[n - m] + r[n] * Power(b, m), r[n - m])}
<1>0. Q \in Nat /\ Q > 2
  BY QAssumption
<1>1. \A k \in 0 .. n : g[k] = IF k = n THEN 0 ELSE (g[k + 1] * b + d[k]) % Q
  BY DEF HornerOf
<1>2. \A k \in 0 .. n : r[k] \in Int
  BY DEF Trace
<1>3. 0 \in S
  <2>1. n \in 0 .. n /\ n - 0 = n /\ g[n] = 0 /\ Power(b, 0) = 1 /\ r[n] \in Int
    BY <1>1, <1>2, PowerUnrolls
  <2>2. 0 + r[n] * 1 = r[n]
    BY <2>1
  <2>3. Cong(r[n], r[n])
    BY <2>1, CongRules
  <2> QED BY <1>0, <2>1, <2>2, <2>3
<1>4. ASSUME NEW m \in S PROVE m + 1 \in S
  <2> SUFFICES ASSUME m + 1 <= n
               PROVE  /\ g[n - (m + 1)] \in 0 .. Q - 1
                      /\ Cong(g[n - (m + 1)] + r[n] * Power(b, m + 1), r[n - (m + 1)])
    OBVIOUS
  <2> DEFINE k == n - (m + 1)
  <2>1. /\ k \in 0 .. n - 1 /\ k \in 0 .. n /\ k # n /\ k + 1 = n - m /\ k + 1 \in 0 .. n
        /\ m \in Nat /\ n \in 0 .. n
    OBVIOUS
  <2>2. g[k + 1] \in 0 .. Q - 1 /\ Cong(g[k + 1] + r[n] * Power(b, m), r[k + 1])
    BY <2>1
  <2> HIDE DEF k
  <2>3. /\ r[k] \in Int /\ r[k + 1] = DigitStep(r[k], b).rest
        /\ d[k] = DigitStep(r[k], b).digit
    BY <1>2, <2>1 DEF Trace
  <2>4. r[k + 1] \in Int /\ d[k] \in Int /\ Cong(r[k + 1] * b + d[k], r[k])
    BY <2>3, StepSplits, StepKeepsResidue
  <2> DEFINE P == Power(b, m)
             R == r[n]
             G == g[k + 1]
             y == r[k + 1]
             c == d[k]
  <2>5. P \in Int /\ R \in Int /\ G \in Int /\ y \in Int /\ c \in Int
    <3>1. P \in Int
      BY <2>1, PowerGrows
    <3>2. G \in Int
      BY <1>0, <2>2
    <3> QED BY <1>2, <2>1, <2>4, <3>1, <3>2
  <2>6. g[k] = (G * b + c) % Q
    BY <1>1, <2>1
  <2>7. Power(b, m + 1) = b * P
    BY <2>1, PowerUnrolls
  <2>8. Cong(G + R * P, y) /\ Cong(y * b + c, r[k])
    BY <2>2, <2>4
  <2> HIDE DEF P, R, G, y, c
  <2>9. /\ G * b \in Int /\ R * P \in Int /\ y * b \in Int /\ R * (b * P) \in Int
        /\ (G + R * P) * b = G * b + R * (b * P) /\ b \in Int /\ G + R * P \in Int
        /\ G * b + R * (b * P) \in Int
    BY <2>5
  <2>10. Cong(G * b + R * (b * P), y * b)
    <3>1. Cong((G + R * P) * b, y * b)
      BY <2>5, <2>8, <2>9, CongRules
    <3> QED BY <2>9, <3>1
  <2>11. Cong(G * b + R * (b * P) + c, y * b + c)
    BY <2>5, <2>9, <2>10, CongRules
  <2>12. Cong(G * b + R * (b * P) + c, r[k])
    BY <2>3, <2>5, <2>8, <2>9, <2>11, CongRules
  <2>13. G * b + c \in Int /\ (G * b + c) + R * (b * P) = G * b + R * (b * P) + c
    BY <2>5, <2>9
  <2>14. g[k] \in 0 .. Q - 1 /\ Cong(g[k], G * b + c)
    BY <2>6, <2>13, Residues
  <2>15. g[k] \in Int
    BY <1>0, <2>14
  <2>16. Cong(g[k] + R * (b * P), (G * b + c) + R * (b * P))
    BY <2>9, <2>13, <2>14, <2>15, CongRules
  <2>17. Cong(g[k] + R * (b * P), r[k])
    BY <2>3, <2>9, <2>12, <2>13, <2>15, <2>16, CongRules
  <2> QED BY <2>7, <2>14, <2>17 DEF k, R
<1> HIDE DEF S
<1>5. S = Nat
  BY <1>3, <1>4, Induction DEF S
<1>6. n \in S /\ n <= n /\ n - n = 0
  BY <1>5
<1> QED BY <1>6 DEF S

-----------------------------------------------------------------------------
(* Balanced division keeps a balanced number balanced.                      *)
LEMMA RestBalanced ==
  ASSUME NEW h \in Nat, NEW b \in Nat, b >= 3, NEW v \in -h .. h,
         NEW s \in -((b - 1) \div 2) .. b \div 2, NEW q \in Int, v = q * b + s
  PROVE  q \in -h .. h
<1>1. b \div 2 \in Nat /\ (b - 1) \div 2 \in Nat /\ b \div 2 < b /\ (b - 1) \div 2 < b
  OBVIOUS
<1>2. \A x \in Nat : x * b \in Nat /\ x * b >= x
  <2> TAKE x \in Nat
  <2>1. x * (b - 1) \in Nat /\ x * b = x * (b - 1) + x
    OBVIOUS
  <2> QED BY <2>1
<1>3. ASSUME q >= h + 1 PROVE FALSE
  <2>1. q - h - 1 \in Nat /\ (q - h - 1) * b \in Nat
    BY <1>3
  <2>2. q * b = (q - h - 1) * b + h * b + b /\ h * b \in Nat /\ h * b >= h
    BY <1>2
  <2> QED BY <1>1, <2>1, <2>2
<1>4. ASSUME q <= -h - 1 PROVE FALSE
  <2>1. -q - h - 1 \in Nat /\ (-q - h - 1) * b \in Nat
    BY <1>4
  <2>2. q * b = -((-q - h - 1) * b) - h * b - b /\ h * b \in Nat /\ h * b >= h
    BY <1>2
  <2> QED BY <1>1, <2>1, <2>2
<1> QED BY <1>3, <1>4

(* What the first n digits are worth together, D, lies in the interval the  *)
(* largest and the smallest digit span, u being 1 + b + ... + b^(n - 1).    *)
Splits(v, w, b, P, u, D) ==
  /\ u \in Nat /\ D \in Int
  /\ (b - 1) * u = P - 1
  /\ v = w * P + D
  /\ -(((b - 1) \div 2) * u) <= D /\ D <= (b \div 2) * u

(* The first digits of an element and what remains add up to the element.   *)
LEMMA TraceSplits ==
  ASSUME NEW b \in Nat, b >= 2, NEW n \in Nat, NEW r, NEW d, Trace(r, d, b, n),
         r[0] \in 0 .. Q - 1
  PROVE  /\ \E u, D : Splits(Lifted(r[0], b), Lifted(r[n], b), b, Power(b, n), u, D)
         /\ n > 0 => Lifted(r[n], b) = r[n]
<1> DEFINE h == Q \div 2
           w(j) == Lifted(r[j], b)
           Good(j) == /\ \E u, D : Splits(w(0), w(j), b, Power(b, j), u, D)
                      /\ j > 0 => w(j) = r[j]
                      /\ b > 2 => w(j) \in -h .. h
           S == {j \in Nat : j <= n => Good(j)}
<1>0. Q \in Nat /\ h \in Nat /\ Q = 2 * h + 1
  BY QAssumption
<1>1. \A j \in 0 .. n : r[j] \in Int
  BY DEF Trace
<1>2. 0 \in S
  <2>1. w(0) \in Int /\ (b > 2 => w(0) \in -h .. h)
    BY <1>0 DEF Lifted
  <2>2. Power(b, 0) = 1
    BY PowerUnrolls
  <2> HIDE DEF w
  <2>3. /\ ((b - 1) \div 2) * 0 = 0 /\ (b \div 2) * 0 = 0 /\ (b - 1) * 0 = 1 - 1
        /\ w(0) = w(0) * 1 + 0
    BY <2>1
  <2>4. Splits(w(0), w(0), b, 1, 0, 0)
    BY <2>3 DEF Splits
  <2> QED BY <2>1, <2>2, <2>4
<1>3. ASSUME NEW j \in S PROVE j + 1 \in S
  <2> SUFFICES ASSUME j + 1 <= n PROVE Good(j + 1)
    OBVIOUS
  <2>1. j \in Nat /\ j \in 0 .. n - 1 /\ j \in 0 .. n /\ j + 1 \in 0 .. n /\ j <= n
    OBVIOUS
  <2>2. Good(j)
    BY <2>1
  <2>3. PICK u, D : Splits(w(0), w(j), b, Power(b, j), u, D)
    BY <2>2
  <2> DEFINE P == Power(b, j)
             q == r[j + 1]
             s == Signed(r[j], b)
             A == (b - 1) \div 2
             B == b \div 2
             v == w(j)
  <2>4. b > 2 => v \in -h .. h
    BY <2>2
  <2>5. q = DigitStep(r[j], b).rest
    BY <2>1 DEF Trace
  <2>6. v \in Int /\ q \in Int /\ s \in -A .. B /\ v = q * b + s
    BY <1>1, <2>1, <2>5, StepSplits
  <2>7. P \in Nat \ {0} /\ Power(b, j + 1) = b * P /\ A \in Nat /\ B \in Nat
    <3>1. P \in Nat \ {0} /\ Power(b, j + 1) = b * P
      BY <2>1, PowerGrows, PowerUnrolls
    <3>2. A \in Nat /\ B \in Nat
      OBVIOUS
    <3> QED BY <3>1, <3>2
  <2>8. /\ u \in Nat /\ D \in Int /\ (b - 1) * u = P - 1
        /\ w(0) = v * P + D /\ -(A * u) <= D /\ D <= B * u
    BY <2>3 DEF Splits
  <2>9. b > 2 => q \in -h .. h
    <3> SUFFICES ASSUME b > 2 PROVE q \in -h .. h
      OBVIOUS
    <3>1. b >= 3 /\ v \in -h .. h
      BY <2>4
    <3> HIDE DEF h, v, q, s
    <3> QED BY <1>0, <2>6, <3>1, RestBalanced
  <2>10. w(j + 1) = q
    <3>1. w(j + 1) = Lifted(q, b)
      OBVIOUS
    <3> HIDE DEF w, q
    <3>2. b > 2 => ~(q > h)
      BY <1>0, <2>6, <2>9
    <3> QED BY <3>1, <3>2 DEF Lifted
  <2>11. Splits(w(0), q, b, b * P, u + P, D + s * P)
    <3> HIDE DEF P, q, s, A, B, v, w
    <3>1. s * P \in Int /\ u + P \in Nat /\ D + s * P \in Int
      BY <2>6, <2>7, <2>8
    <3>2. (b - 1) * (u + P) = b * P - 1
      <4>1. (b - 1) * (u + P) = (b - 1) * u + (b - 1) * P /\ (b - 1) * P = b * P - P
        BY <2>7, <2>8
      <4>2. b * P \in Int
        BY <2>7
      <4> QED BY <2>7, <2>8, <4>1, <4>2
    <3>3. w(0) = q * (b * P) + (D + s * P)
      <4>1. v * P = q * (b * P) + s * P /\ q * (b * P) \in Int
        BY <2>6, <2>7
      <4> QED BY <2>8, <3>1, <4>1
    <3>4. A * (u + P) = A * u + A * P /\ B * (u + P) = B * u + B * P
      BY <2>7, <2>8
    <3>5. /\ A * u \in Nat /\ B * u \in Nat /\ A * P \in Nat /\ B * P \in Nat
      BY <2>7, <2>8
    <3>6. -(A * P) <= s * P /\ s * P <= B * P
      <4>1. (s + A) \in Nat /\ (B - s) \in Nat
        BY <2>6, <2>7
      <4>2. (s + A) * P \in Nat /\ (B - s) * P \in Nat
        BY <2>7, <4>1
      <4>3. (s + A) * P = s * P + A * P /\ (B - s) * P = B * P - s * P
        BY <2>6, <2>7
      <4> QED BY <3>1, <3>5, <4>2, <4>3
    <3>7. -(A * (u + P)) <= D + s * P /\ D + s * P <= B * (u + P)
      BY <2>8, <3>1, <3>4, <3>5, <3>6
    <3> QED BY <3>1, <3>2, <3>3, <3>7 DEF Splits, A, B
  <2> HIDE DEF w
  <2> QED BY <2>7, <2>9, <2>10, <2>11
<1> HIDE DEF S
<1>4. S = Nat
  BY <1>2, <1>3, Induction DEF S
<1>5. n \in S /\ n <= n
  BY <1>4
<1> QED BY <1>5 DEF S

(* Nothing is left exactly of what lies in the interval of the digits.      *)
LEMMA NothingLeftWhenFits ==
  ASSUME NEW b \in Nat, b >= 2, NEW P \in Nat \ {0}, NEW w \in Int, NEW v \in Int,
         NEW u, NEW D, Splits(v, w, b, P, u, D)
  PROVE  w = 0 <=> -(((b - 1) \div 2) * u) <= v /\ v <= (b \div 2) * u
<1> DEFINE A == (b - 1) \div 2
           B == b \div 2
<1>1. A \in Nat /\ B \in Nat /\ A + B = b - 1
  OBVIOUS
<1>2. /\ u \in Nat /\ D \in Int /\ (b - 1) * u = P - 1
      /\ v = w * P + D /\ -(A * u) <= D /\ D <= B * u
  BY DEF Splits
<1> HIDE DEF A, B
<1>3. A * u \in Nat /\ B * u \in Nat /\ A * u + B * u = P - 1
  <2>1. A * u + B * u = (A + B) * u
    BY <1>1, <1>2
  <2> QED BY <1>1, <1>2, <2>1
<1>4. w = 0 => v = D
  BY <1>2
<1>5. ASSUME w >= 1 PROVE v > B * u
  <2>1. w - 1 \in Nat /\ (w - 1) * P \in Nat /\ w * P = (w - 1) * P + P
    BY <1>5
  <2> QED BY <1>2, <1>3, <2>1
<1>6. ASSUME w <= -1 PROVE v < -(A * u)
  <2>1. -w - 1 \in Nat /\ (-w - 1) * P \in Nat /\ w * P = -((-w - 1) * P) - P
    BY <1>6
  <2> QED BY <1>2, <1>3, <2>1
<1>7. w = 0 <=> -(A * u) <= v /\ v <= B * u
  BY <1>2, <1>3, <1>4, <1>5, <1>6
<1> QED BY <1>7 DEF A, B

(* What is left of a balanced element weighs less than 2 Q, and less than Q *)
(* in an odd base.                                                          *)
LEMMA LeftoverLight ==
  ASSUME NEW b \in Nat, b > 2, NEW P \in Nat \ {0}, NEW w \in Int, w # 0,
         NEW v \in -(Q \div 2) .. Q \div 2, NEW u, NEW D, Splits(v, w, b, P, u, D)
  PROVE  /\ -(2 * Q) < w * P /\ w * P < 2 * Q
         /\ b % 2 = 1 => -Q < w * P /\ w * P < Q
<1> DEFINE A == (b - 1) \div 2
           B == b \div 2
           h == Q \div 2
           a == IF w > 0 THEN w ELSE -w
<1>0. Q \in Nat /\ h \in Nat /\ Q = 2 * h + 1
  BY QAssumption
<1>1. A \in Nat /\ B \in Nat /\ A <= B /\ 2 * B = (IF b % 2 = 1 THEN b - 1 ELSE b)
      /\ (b % 2 = 1 \/ b >= 4)
  OBVIOUS
<1>2. /\ u \in Nat /\ D \in Int /\ (b - 1) * u = P - 1 /\ v \in Int /\ -h <= v /\ v <= h
      /\ v = w * P + D /\ -(A * u) <= D /\ D <= B * u
  BY <1>0 DEF Splits
<1>3. a \in Nat \ {0} /\ a * P = IF w > 0 THEN w * P ELSE -(w * P)
  <2>1. (-w) * P = -(w * P)
    OBVIOUS
  <2> QED BY <2>1
<1> HIDE DEF A, B, h, a
<1>4. /\ A * u \in Nat /\ B * u \in Nat /\ A * u <= B * u /\ w * P \in Int
      /\ a * P \in Nat
  <2>1. (B - A) * u \in Nat /\ B * u = (B - A) * u + A * u
    BY <1>1, <1>2
  <2> QED BY <1>1, <1>2, <1>3, <2>1
<1>5. a * P <= h + B * u
  <2>1. CASE w > 0
    BY <1>0, <1>2, <1>3, <1>4, <2>1
  <2>2. CASE w < 0
    BY <1>0, <1>2, <1>3, <1>4, <2>2
  <2> QED BY <2>1, <2>2
<1>6. a * P >= P /\ (a # 1 => a * P >= 2 * P)
  <2>1. a - 1 \in Nat /\ (a - 1) * P \in Nat /\ a * P = (a - 1) * P + P
    BY <1>3
  <2>2. a # 1 => a - 2 \in Nat /\ (a - 2) * P \in Nat /\ a * P = (a - 2) * P + 2 * P
    BY <1>3
  <2> QED BY <2>1, <2>2
<1>7. CASE b % 2 = 1
  <2>1. 2 * (B * u) = P - 1
    <3>1. 2 * (B * u) = (2 * B) * u
      BY <1>1, <1>2
    <3> QED BY <1>1, <1>2, <1>7, <3>1
  <2>2. a * P < Q
    BY <1>0, <1>4, <1>5, <1>6, <2>1
  <2> QED BY <1>0, <1>3, <1>4, <2>2
<1>8. CASE b % 2 # 1
  <2>1. 2 * (B * u) = P - 1 + u
    <3>1. 2 * (B * u) = (2 * B) * u
      BY <1>1, <1>2
    <3>2. b * u = (b - 1) * u + u
      BY <1>2
    <3> QED BY <1>1, <1>2, <1>8, <3>1, <3>2
  <2>2. 3 * u <= P - 1
    <3>1. b - 4 \in Nat /\ (b - 4) * u \in Nat /\ (b - 1) * u = (b - 4) * u + 3 * u
      BY <1>1, <1>2, <1>8
    <3> QED BY <1>2, <3>1
  <2>3. a * P < 2 * Q
    <3>1. CASE a = 1
      <4>1. a * P = P
        BY <3>1
      <4> QED BY <1>0, <1>2, <1>4, <1>5, <2>1, <2>2, <4>1
    <3>2. CASE a # 1
      BY <1>0, <1>2, <1>4, <1>5, <1>6, <2>1, <2>2, <3>2
    <3> QED BY <3>1, <3>2
  <2> QED BY <1>0, <1>3, <1>4, <1>8, <2>3
<1> QED BY <1>7, <1>8

(* So it is never a multiple of Q: a lost carry is always noticed.          *)
LEMMA LeftoverVisible ==
  ASSUME NEW b \in Nat, b > 2, NEW n \in Nat \ {0}, NEW w \in Int, w # 0,
         NEW v \in -(Q \div 2) .. Q \div 2,
         NEW u, NEW D, Splits(v, w, b, Power(b, n), u, D)
  PROVE  ~Cong(w * Power(b, n), 0)
<1> DEFINE P == Power(b, n)
<1>0. Q \in Nat /\ Q > 2 /\ Q % 2 = 1
  BY QAssumption
<1>1. P \in Nat \ {0}
  BY PowerGrows
<1> SUFFICES ASSUME NEW m \in Int, w * P = 0 + m * Q PROVE FALSE
  BY DEF Cong
<1>2. /\ -(2 * Q) < w * P /\ w * P < 2 * Q
      /\ b % 2 = 1 => -Q < w * P /\ w * P < Q
  BY <1>1, LeftoverLight
<1> HIDE DEF P
<1>3. w * P # 0 /\ w * P \in Int
  <2>1. \A x \in Nat \ {0}, y \in Nat \ {0} : x * y \in Nat \ {0}
    OBVIOUS
  <2>2. CASE w > 0
    BY <1>1, <2>1, <2>2
  <2>3. CASE w < 0
    <3>1. -w \in Nat \ {0} /\ (-w) * P = -(w * P)
      BY <1>1, <2>3
    <3> QED BY <1>1, <2>1, <3>1
  <2> QED BY <2>2, <2>3
<1>4. /\ m >= 2 => m * Q >= 2 * Q
      /\ m <= -2 => m * Q <= -(2 * Q)
  <2>1. ASSUME m >= 2 PROVE m * Q >= 2 * Q
    <3>1. m - 2 \in Nat /\ (m - 2) * Q \in Nat /\ m * Q = (m - 2) * Q + 2 * Q
      BY <1>0, <2>1
    <3> QED BY <1>0, <3>1
  <2>2. ASSUME m <= -2 PROVE m * Q <= -(2 * Q)
    <3>1. -m - 2 \in Nat /\ (-m - 2) * Q \in Nat /\ m * Q = -((-m - 2) * Q) - 2 * Q
      BY <1>0, <2>2
    <3> QED BY <1>0, <3>1
  <2> QED BY <2>1, <2>2
<1>5. m \in {-1, 0, 1}
  BY <1>0, <1>2, <1>3, <1>4
<1>6. w * P \in {-Q, 0, Q}
  <2>1. (-1) * Q = -Q /\ 0 * Q = 0 /\ 1 * Q = Q
    BY <1>0
  <2> QED BY <1>0, <1>5, <2>1
<1>7. b \in Nat /\ b >= 2
  OBVIOUS
<1>8. b % 2 = 1
  <2> SUFFICES ASSUME b % 2 # 1 PROVE FALSE
    OBVIOUS
  <2>1. b = 2 * (b \div 2) /\ b \div 2 \in Nat
    OBVIOUS
  <2>2. PICK k \in Nat : n = k + 1
    <3>1. n - 1 \in Nat /\ n = (n - 1) + 1
      OBVIOUS
    <3> QED BY <3>1
  <2>3. P = b * Power(b, k) /\ Power(b, k) \in Nat
    <3>1. Power(b, k + 1) = b * Power(b, k)
      BY PowerUnrolls
    <3>2. Power(b, k) \in Nat
      BY <1>7, PowerGrows
    <3> QED BY <2>2, <3>1, <3>2 DEF P
  <2> DEFINE c == w * ((b \div 2) * Power(b, k))
  <2>4. c \in Int /\ w * P = 2 * c
    <3>1. \A x, y \in Int : w * ((2 * x) * y) = 2 * (w * (x * y)) /\ w * (x * y) \in Int
      OBVIOUS
    <3> QED BY <2>1, <2>3, <3>1
  <2> HIDE DEF c
  <2>5. 2 * c \in {-Q, Q}
    BY <1>3, <1>6, <2>4
  <2>6. \A x \in Int : 2 * x # Q /\ 2 * x # -Q
    BY <1>0
  <2> QED BY <2>4, <2>5, <2>6
<1> QED BY <1>0, <1>2, <1>3, <1>6, <1>8

-----------------------------------------------------------------------------
(* The number of digits the protocol allocates exists, and leaves room for  *)
(* the carry.                                                               *)
LEMMA EnoughDigits ==
  ASSUME NEW b \in Nat, b >= 2
  PROVE  /\ compute_nof_digits(b) \in Nat \ {0}
         /\ \A n \in Nat : n >= compute_nof_digits(b) =>
              Power(b, n) >= (IF b > 2 THEN 2 * Q ELSE Q)
<1>0. Q \in Nat /\ Q > 2
  BY QAssumption
<1> DEFINE S == {k \in Nat : Power(b, k) >= Q}
           P(k) == k \in 1 .. Q /\ Power(b, k) >= Q /\ Power(b, k - 1) < Q
           exact == CHOOSE k \in 1 .. Q : Power(b, k) >= Q /\ Power(b, k - 1) < Q
<1>1. Q \in S
  <2>1. Power(b, Q) \in Nat /\ Q < Power(b, Q)
    BY <1>0, PowerGrows
  <2> QED BY <1>0, <2>1
<1>2. PICK m \in S : \A k \in S : m <= k
  BY <1>1, Least
<1>3. m \in Nat /\ Power(b, m) >= Q /\ m <= Q
  BY <1>1, <1>2
<1>4. m # 0
  <2>1. Power(b, 0) = 1
    BY PowerUnrolls
  <2> QED BY <1>0, <1>3, <2>1
<1>5. Power(b, m - 1) < Q
  <2>1. m - 1 \in Nat /\ m - 1 \notin S
    BY <1>2, <1>3, <1>4
  <2>2. Power(b, m - 1) \in Nat
    BY <2>1, PowerGrows
  <2> QED BY <1>0, <2>1, <2>2
<1>6. P(m)
  BY <1>0, <1>3, <1>4, <1>5
<1>7. exact \in 1 .. Q /\ Power(b, exact) >= Q
  BY <1>6
<1>8. compute_nof_digits(b) = IF b > 2 THEN exact + 1 ELSE exact
  BY DEF compute_nof_digits
<1> HIDE DEF exact, S, P
<1>9. exact \in Nat \ {0} /\ compute_nof_digits(b) \in Nat \ {0}
  BY <1>0, <1>7, <1>8
<1>10. Power(b, compute_nof_digits(b)) >= (IF b > 2 THEN 2 * Q ELSE Q)
  <2>1. /\ Power(b, exact) \in Nat /\ Power(b, exact + 1) \in Nat
        /\ Power(b, exact + 1) >= 2 * Power(b, exact)
    <3>1. exact + 1 \in Nat
      BY <1>9
    <3> QED BY <1>9, <3>1, PowerGrows
  <2>2. CASE b > 2
    BY <1>0, <1>7, <1>8, <2>1, <2>2
  <2>3. CASE ~(b > 2)
    BY <1>0, <1>7, <1>8, <2>1, <2>3
  <2> QED BY <2>2, <2>3
<1>11. ASSUME NEW n \in Nat, n >= compute_nof_digits(b)
       PROVE  Power(b, n) >= (IF b > 2 THEN 2 * Q ELSE Q)
  <2>1. Power(b, compute_nof_digits(b)) <= Power(b, n)
    BY <1>9, <1>11, PowerMonotone
  <2>2. Power(b, compute_nof_digits(b)) \in Nat /\ Power(b, n) \in Nat
    BY <1>9, PowerGrows
  <2> HIDE DEF P
  <2> QED BY <1>0, <1>10, <2>1, <2>2
<1> QED BY <1>9, <1>11

(* Recomposing n digits of x gives x back exactly when x fits into them,    *)
(* which it does when they are as many as compute_nof_digits says.          *)
LEMMA ElementGivenBack ==
  ASSUME NEW b \in Nat, b >= 2, NEW n \in Nat \ {0}, NEW r, NEW d, Trace(r, d, b, n),
         r[0] \in 0 .. Q - 1, NEW g, HornerOf(g, d, b, n)
  PROVE  LET unit == (Power(b, n) - 1) \div (b - 1)
             x    == IF r[0] > Q \div 2 THEN r[0] - Q ELSE r[0]
             fits == -((b - 1) \div 2) * unit <= x /\ x <= (b \div 2) * unit
         IN  /\ b > 2 => (g[0] = r[0] <=> fits)
             /\ n >= compute_nof_digits(b) => g[0] = r[0]
<1> DEFINE P == Power(b, n)
           unit == (P - 1) \div (b - 1)
           x == IF r[0] > Q \div 2 THEN r[0] - Q ELSE r[0]
           v == Lifted(r[0], b)
           w == r[n]
<1>0. Q \in Nat /\ Q \div 2 \in Nat /\ Q = 2 * (Q \div 2) + 1
  BY QAssumption
<1>1. /\ w \in Int /\ \E u, D : Splits(v, w, b, P, u, D)
  <2>1. n > 0 /\ n \in 0 .. n
    OBVIOUS
  <2>2. Lifted(r[n], b) = r[n] /\ \E u, D : Splits(v, Lifted(r[n], b), b, P, u, D)
    BY <2>1, TraceSplits
  <2> QED BY <2>1, <2>2 DEF Trace
<1>2. PICK u, D : Splits(v, w, b, P, u, D)
  BY <1>1
<1>3. P \in Nat \ {0} /\ r[0] \in Int
  <2>1. P \in Nat \ {0}
    BY PowerGrows
  <2>2. r[0] \in Int
    OBVIOUS
  <2> QED BY <2>1, <2>2
<1>4. v \in Int /\ (b > 2 => v = x /\ v \in -(Q \div 2) .. Q \div 2)
  BY <1>0 DEF Lifted
<1>5. u \in Nat /\ unit = u
  <2>1. u \in Nat /\ (b - 1) * u = P - 1 /\ b - 1 \in Nat \ {0}
    BY <1>2 DEF Splits
  <2>2. \A c \in Nat \ {0}, y \in Nat : (c * y) \div c = y
    OBVIOUS
  <2>3. ((b - 1) * u) \div (b - 1) = u
    BY <2>1, <2>2
  <2> QED BY <2>1, <2>3
<1>6. w = 0 <=> -(((b - 1) \div 2) * u) <= v /\ v <= (b \div 2) * u
  BY <1>1, <1>2, <1>3, <1>4, NothingLeftWhenFits
<1>7. g[0] \in 0 .. Q - 1 /\ Cong(g[0] + w * P, r[0])
  BY HornerGivesBack
<1>8. w = 0 => g[0] = r[0]
  <2> SUFFICES ASSUME w = 0 PROVE g[0] = r[0]
    OBVIOUS
  <2>1. w * P = 0
    BY <1>3
  <2>2. g[0] \in Int /\ g[0] + 0 = g[0]
    BY <1>7
  <2>3. Cong(g[0], r[0])
    <3> HIDE DEF P, w
    <3> QED BY <1>7, <2>1, <2>2
  <2> QED BY <1>7, <2>3, Residues
<1>9. ASSUME b > 2, w # 0 PROVE g[0] # r[0]
  <2> SUFFICES ASSUME g[0] = r[0] PROVE FALSE
    OBVIOUS
  <2>1. ~Cong(w * P, 0)
    BY <1>1, <1>2, <1>4, <1>9, LeftoverVisible
  <2>2. w * P \in Int /\ r[0] + w * P \in Int /\ -r[0] \in Int
    BY <1>1, <1>3
  <2>3. Cong(r[0] + w * P, r[0])
    BY <1>7
  <2> HIDE DEF P, w
  <2>4. Cong((r[0] + w * P) + (-r[0]), r[0] + (-r[0]))
    BY <1>3, <2>2, <2>3, CongRules
  <2>5. (r[0] + w * P) + (-r[0]) = w * P /\ r[0] + (-r[0]) = 0
    BY <1>3, <2>2
  <2> QED BY <2>1, <2>4, <2>5
<1>10. -((b - 1) \div 2) * u = -(((b - 1) \div 2) * u)
  <2>1. (b - 1) \div 2 \in Nat
    OBVIOUS
  <2> QED BY <1>5, <2>1
<1>11. b > 2 => (g[0] = r[0] <=> -((b - 1) \div 2) * unit <= x /\ x <= (b \div 2) * unit)
  <2> SUFFICES ASSUME b > 2
               PROVE  g[0] = r[0] <=> -((b - 1) \div 2) * unit <= x /\ x <= (b \div 2) * unit
    OBVIOUS
  <2>1. g[0] = r[0] <=> w = 0
    BY <1>8, <1>9
  <2>2. v = x
    BY <1>4
  <2> HIDE DEF v, x, unit, w
  <2> QED BY <1>5, <1>6, <1>10, <2>1, <2>2
<1>12. ASSUME n >= compute_nof_digits(b) PROVE w = 0
  <2>1. P >= (IF b > 2 THEN 2 * Q ELSE Q)
    BY <1>12, EnoughDigits
  <2> SUFFICES ASSUME w # 0 PROVE FALSE
    OBVIOUS
  <2>2. CASE b > 2
    <3>1. -(2 * Q) < w * P /\ w * P < 2 * Q
      BY <1>1, <1>2, <1>3, <1>4, <2>2, LeftoverLight
    <3> HIDE DEF P, w, v
    <3>2. w * P >= P \/ w * P <= -P
      <4>1. CASE w > 0
        <5>1. w - 1 \in Nat /\ (w - 1) * P \in Nat /\ w * P = (w - 1) * P + P
          BY <1>1, <1>3, <4>1
        <5> QED BY <1>3, <5>1
      <4>2. CASE w < 0
        <5>1. -w - 1 \in Nat /\ (-w - 1) * P \in Nat /\ w * P = -((-w - 1) * P) - P
          BY <1>1, <1>3, <4>2
        <5> QED BY <1>3, <5>1
      <4> QED BY <1>1, <4>1, <4>2
    <3>3. w * P \in Int
      BY <1>1, <1>3
    <3> QED BY <1>0, <1>3, <2>1, <2>2, <3>1, <3>2, <3>3
  <2>3. CASE b = 2
    <3>1. v = r[0]
      BY <2>3 DEF Lifted
    <3>2. (b - 1) \div 2 = 0 /\ b \div 2 = 1 /\ b - 1 = 1
      BY <2>3
    <3>3. 1 * u = P - 1 /\ 0 * u = 0 /\ u \in Nat
      BY <1>2, <3>2 DEF Splits
    <3>4. P >= Q
      BY <2>1, <2>3
    <3>5. 0 <= v /\ v <= 1 * u
      <4> HIDE DEF P, v
      <4> QED BY <1>0, <1>3, <3>1, <3>3, <3>4
    <3>6. -(0 * u) = 0
      BY <3>3
    <3> HIDE DEF P, v, w
    <3> QED BY <1>6, <3>2, <3>3, <3>5, <3>6
  <2> QED BY <2>2, <2>3
<1>13. n >= compute_nof_digits(b) => g[0] = r[0]
  BY <1>8, <1>12
<1> QED BY <1>11, <1>13
=============================================================================
