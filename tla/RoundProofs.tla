---------------------------- MODULE RoundProofs ----------------------------
(***************************************************************************)
(* For every instance and all challenges, both sides of a base round       *)
(* aggregate its constraints to the same one.  For all sizes and every     *)
(* choice of mu and nu, the pieces of a base proof fit into the next       *)
(* witness and no two of them share a row; and for every modulus, ring and *)
(* base, folding throws exactly when z is too large for two digits.        *)
(***************************************************************************)
EXTENDS BaseRound, Recursion, DigitsProofs

-----------------------------------------------------------------------------
(* The layout.                                                              *)
(* Euclid.                                                                  *)
LEMMA DivFacts ==
  ASSUME NEW a \in Nat, NEW b \in Nat \ {0}
  PROVE  /\ a \div b \in Nat
         /\ (a \div b) * b <= a
         /\ a < (a \div b) * b + b
OBVIOUS

(* As many rows as the ceiling of a division hold all elements.             *)
LEMMA CeilDivCovers ==
  ASSUME NEW a \in Nat \ {0}, NEW b \in Nat \ {0}
  PROVE  /\ CeilDiv(a, b) \in Nat \ {0}
         /\ a <= CeilDiv(a, b) * b
<1> DEFINE q == (a + b - 1) \div b
<1>1. a + b - 1 \in Nat
  OBVIOUS
<1>2. /\ q \in Nat /\ q * b <= a + b - 1 /\ a + b - 1 < q * b + b
  BY <1>1, DivFacts
<1>3. q * b \in Nat
  BY <1>2
<1>4. a <= q * b
  BY <1>2, <1>3
<1>5. q # 0
  BY <1>2, <1>4
<1> QED BY <1>2, <1>4, <1>5 DEF CeilDiv

(* Multiplying by a number keeps the order.                                 *)
LEMMA MulMonotone ==
  ASSUME NEW a \in Nat, NEW b \in Nat, NEW c \in Nat, a <= b
  PROVE  a * c <= b * c
<1>1. PICK k \in Nat : b = a + k
  <2>1. b - a \in Nat /\ b = a + (b - a)
    OBVIOUS
  <2> QED BY <2>1
<1>2. b * c = a * c + k * c
  BY <1>1
<1>3. k * c \in Nat /\ a * c \in Nat
  BY <1>1
<1> QED BY <1>2, <1>3

(* The rows set aside for a region.                                         *)
Rows(lay, reg) ==
  CASE reg \in {"z0", "z1"} -> lay.nu
    [] reg = "t" -> L_t(lay)
    [] reg = "g" -> L_g(lay)
    [] reg = "h" -> L_h(lay)

(* The sizes of a layout are positive, and its rows hold every region.      *)
LEMMA Sizes ==
  ASSUME NEW lay \in Problem
  PROVE  /\ n_prime(lay) \in Nat \ {0}
         /\ L_t(lay) \in Nat \ {0} /\ L_g(lay) \in Nat \ {0} /\ L_h(lay) \in Nat \ {0}
         /\ \A reg \in Regions : RegionLen(lay, reg) <= Rows(lay, reg) * n_prime(lay)
<1> DEFINE rows_z == CeilDiv(lay.prev_n, lay.nu)
<1> DEFINE m == lay.t_len + lay.g_len + lay.h_len
<1> DEFINE rows_m == CeilDiv(m, lay.mu)
<1>1. /\ lay.prev_n \in Nat \ {0} /\ lay.nu \in Nat \ {0} /\ lay.mu \in Nat \ {0}
      /\ lay.t_len \in Nat \ {0} /\ lay.g_len \in Nat \ {0} /\ lay.h_len \in Nat \ {0}
  BY DEF Problem
<1>2. m \in Nat \ {0}
  BY <1>1
<1>3. /\ rows_z \in Nat \ {0} /\ lay.prev_n <= rows_z * lay.nu
      /\ rows_m \in Nat \ {0}
  BY <1>1, <1>2, CeilDivCovers
<1>4. n_prime(lay) \in Nat \ {0} /\ rows_z <= n_prime(lay)
  <2> HIDE DEF rows_z, rows_m
  <2>1. n_prime(lay) = IF rows_z >= rows_m THEN rows_z ELSE rows_m
    BY DEF n_prime, rows_z, rows_m
  <2> QED BY <1>3, <2>1
<1>5. /\ L_t(lay) \in Nat \ {0} /\ lay.t_len <= L_t(lay) * n_prime(lay)
      /\ L_g(lay) \in Nat \ {0} /\ lay.g_len <= L_g(lay) * n_prime(lay)
      /\ L_h(lay) \in Nat \ {0} /\ lay.h_len <= L_h(lay) * n_prime(lay)
  BY <1>1, <1>4, CeilDivCovers DEF L_t, L_g, L_h
<1>6. lay.prev_n <= lay.nu * n_prime(lay)
  <2> HIDE DEF rows_z, rows_m
  <2>1. rows_z * lay.nu <= n_prime(lay) * lay.nu
    BY <1>1, <1>3, <1>4, MulMonotone
  <2>2. n_prime(lay) * lay.nu = lay.nu * n_prime(lay) /\ n_prime(lay) * lay.nu \in Nat
        /\ rows_z * lay.nu \in Nat
    BY <1>1, <1>3, <1>4
  <2> QED BY <1>1, <1>3, <2>1, <2>2
<1> HIDE DEF m, rows_z, rows_m
<1> QED BY <1>4, <1>5, <1>6 DEF Regions, Rows, RegionLen

(* A region's cells lie in its own rows.                                    *)
LEMMA CellsInRows ==
  ASSUME NEW lay \in Problem, NEW reg \in Regions, NEW x \in Cells(lay, reg)
  PROVE  /\ RowOfCell(lay, x) \in FirstRow(lay, reg) .. FirstRow(lay, reg) + Rows(lay, reg) - 1
         /\ x \in 0 .. (FirstRow(lay, reg) + Rows(lay, reg)) * n_prime(lay) - 1
<1> DEFINE w == n_prime(lay)
<1> DEFINE f == FirstRow(lay, reg)
<1> DEFINE k == Rows(lay, reg)
<1>1. w \in Nat \ {0} /\ RegionLen(lay, reg) <= k * w
  BY Sizes
<1>2. f \in Nat /\ k \in Nat /\ RegionLen(lay, reg) \in Nat
  BY Sizes DEF Problem, Regions, FirstRow, Rows, RegionLen
<1>3. x \in Int /\ f * w <= x /\ x <= f * w + RegionLen(lay, reg) - 1
  BY <1>1, <1>2 DEF Cells, begin_idx
<1> HIDE DEF w, f, k
<1>4. f * w \in Nat /\ k * w \in Nat /\ (f + k) * w = f * w + k * w
  BY <1>1, <1>2
<1>5. x \in Nat /\ x < (f + k) * w
  BY <1>1, <1>2, <1>3, <1>4
<1> DEFINE row == x \div w
<1>6. row \in Nat /\ row * w <= x /\ x < row * w + w
  BY <1>1, <1>5, DivFacts
<1> HIDE DEF row
<1>7. row * w \in Nat /\ (row + 1) * w = row * w + w
  BY <1>1, <1>6
<1>8. f <= row
  <2>1. ASSUME row + 1 <= f PROVE FALSE
    <3>1. (row + 1) * w <= f * w
      BY <1>1, <1>2, <1>6, <2>1, MulMonotone
    <3> QED BY <1>1, <1>3, <1>4, <1>6, <1>7, <3>1
  <2> QED BY <1>2, <1>6, <2>1
<1>9. row < f + k
  <2>1. ASSUME f + k <= row PROVE FALSE
    <3>1. (f + k) * w <= row * w
      BY <1>1, <1>2, <1>6, <2>1, MulMonotone
    <3> QED BY <1>4, <1>5, <1>6, <1>7, <3>1
  <2> QED BY <1>2, <1>6, <2>1
<1>10. (f + k) * w \in Nat
  BY <1>4
<1> QED BY <1>2, <1>5, <1>6, <1>8, <1>9, <1>10 DEF RowOfCell, row, w, f, k

(* The copies never write outside s_prime or outside the phi of a           *)
(* constraint: icicle_copy would not notice.                                *)
THEOREM CopiesInBounds == \A lay \in Problem : InBounds(lay)
<1> SUFFICES ASSUME NEW lay \in Problem, NEW reg \in Regions, NEW x \in Cells(lay, reg)
             PROVE  x \in 0 .. r_prime(lay) * n_prime(lay) - 1
  BY DEF InBounds
<1> DEFINE last == FirstRow(lay, reg) + Rows(lay, reg)
<1>1. x \in 0 .. last * n_prime(lay) - 1
  BY CellsInRows
<1>2. last \in Nat /\ r_prime(lay) \in Nat /\ last <= r_prime(lay)
  BY Sizes DEF Problem, Regions, FirstRow, Rows, r_prime
<1>3. n_prime(lay) \in Nat
  BY Sizes
<1> HIDE DEF last
<1>4. last * n_prime(lay) <= r_prime(lay) * n_prime(lay)
  BY <1>2, <1>3, MulMonotone
<1>5. last * n_prime(lay) \in Nat /\ r_prime(lay) * n_prime(lay) \in Nat
  BY <1>2, <1>3
<1> QED BY <1>1, <1>4, <1>5

(* No two pieces of a base proof share a row of the next witness.           *)
THEOREM PiecesApart == \A lay \in Problem : RowsApart(lay)
<1> SUFFICES ASSUME NEW lay \in Problem, NEW reg \in Regions, NEW other \in Regions,
                    reg # other, NEW x \in Cells(lay, reg), NEW y \in Cells(lay, other)
             PROVE  RowOfCell(lay, x) # RowOfCell(lay, y)
  BY DEF RowsApart
<1>1. /\ RowOfCell(lay, x) \in FirstRow(lay, reg) .. FirstRow(lay, reg) + Rows(lay, reg) - 1
      /\ RowOfCell(lay, y) \in FirstRow(lay, other) .. FirstRow(lay, other) + Rows(lay, other) - 1
  BY CellsInRows
<1>2. \/ FirstRow(lay, reg) + Rows(lay, reg) <= FirstRow(lay, other)
      \/ FirstRow(lay, other) + Rows(lay, other) <= FirstRow(lay, reg)
  BY Sizes DEF Problem, Regions, FirstRow, Rows
<1>3. /\ FirstRow(lay, reg) \in Nat /\ Rows(lay, reg) \in Nat
      /\ FirstRow(lay, other) \in Nat /\ Rows(lay, other) \in Nat
  BY Sizes DEF Problem, Regions, FirstRow, Rows
<1> QED BY <1>1, <1>2, <1>3

(* The layout is fixed before the first step, and is one of a problem.      *)
LEMMA LayoutFixed == FoldSpec => [](prm \in Problem)
<1>1. FoldInit => prm \in Problem
  <2>1. ASSUME NEW mu \in Mus, NEW nu \in Nus
        PROVE  [prev_n |-> N, t_len |-> t_len, g_len |-> g_len, h_len |-> h_len,
                mu |-> mu, nu |-> nu] \in Problem
    BY <2>1, SizeAssumption DEF Problem
  <2> QED BY <2>1 DEF FoldInit
<1>2. prm \in Problem /\ [FoldNext]_fold_vars => (prm \in Problem)'
  BY DEF FoldNext, PrepareWitness, ConstrainU1, ConstrainU2, ConstrainAz, ConstrainLinear,
         ConstrainFinal, ConstrainSquare, Add, fold_vars
<1> QED BY <1>1, <1>2, PTL DEF FoldSpec

(* No copy of a fold leaves the next witness or overwrites another piece,   *)
(* whatever the sizes and the choice of mu and nu.                          *)
THEOREM FoldLaidOut == FoldSpec => []LaidOut
<1>1. prm \in Problem => LaidOut
  BY CopiesInBounds, PiecesApart DEF LaidOut
<1> QED BY <1>1, LayoutFixed, PTL

-----------------------------------------------------------------------------
(* The entries of z are residues: the sums and the powers of psi of the     *)
(* inverse transform exist and are numbers.                                 *)
SumsOf(s, f, n) == s = [k \in 0 .. n |-> IF k = 0 THEN 0 ELSE s[k - 1] + f[k - 1]]

(* The partial sums of SumTo are what their equations say,                  *)
LEMMA SumsOfExist ==
  ASSUME NEW n \in Nat, NEW f
  PROVE  \E s : SumsOf(s, f, n)
<1> DEFINE Val(s, k) == IF k = 0 THEN 0 ELSE s[k - 1] + f[k - 1]
           Good == {m \in Nat : m <= n =>
                   \E s : s = [k \in 0 .. m |-> Val(s, k)]}
<1>1. 0 \in Good
  <2> DEFINE s == [k \in 0 .. 0 |-> 0]
  <2>1. s = [k \in 0 .. 0 |-> Val(s, k)]
    OBVIOUS
  <2> HIDE DEF s, Val
  <2> QED BY <2>1
<1>2. ASSUME NEW m \in Good PROVE m + 1 \in Good
  <2> SUFFICES ASSUME m + 1 <= n
               PROVE  \E s : s = [k \in 0 .. m + 1 |-> Val(s, k)]
    OBVIOUS
  <2>1. PICK s : s = [k \in 0 .. m |-> Val(s, k)]
    <3> HIDE DEF Val
    <3> QED OBVIOUS
  <2> DEFINE q == [k \in 0 .. m + 1 |-> IF k = m + 1 THEN Val(s, m + 1) ELSE s[k]]
  <2>2. \A k \in 0 .. m : q[k] = s[k] /\ s[k] = Val(s, k)
    BY <2>1
  <2>3. q[m + 1] = Val(s, m + 1) /\ Val(s, m + 1) = s[m] + f[m]
    OBVIOUS
  <2>4. ASSUME NEW k \in 0 .. m + 1 PROVE q[k] = Val(q, k)
    <3>1. k = 0 \/ q[k - 1] = s[k - 1]
      <4>1. k # 0 => k - 1 \in 0 .. m
        OBVIOUS
      <4> HIDE DEF q, Val
      <4> QED BY <2>2, <4>1
    <3>2. Val(q, k) = Val(s, k)
      <4> HIDE DEF q
      <4> QED BY <3>1
    <3>3. k = m + 1 \/ k \in 0 .. m
      OBVIOUS
    <3> HIDE DEF q, Val
    <3> QED BY <2>2, <2>3, <3>2, <3>3
  <2>5. q = [k \in 0 .. m + 1 |-> q[k]]
    OBVIOUS
  <2> HIDE DEF q, Val
  <2> QED BY <2>4, <2>5
<1> HIDE DEF Good
<1>3. Good = Nat
  BY <1>1, <1>2, Induction DEF Good
<1>4. n \in Good /\ n <= n
  BY <1>3
<1> QED BY <1>4 DEF Good, SumsOf

(* so a sum of integers is an integer.                                      *)
LEMMA SumsOfTyped ==
  ASSUME NEW n \in Nat, NEW f \in [0 .. n - 1 -> Int], NEW s, SumsOf(s, f, n)
  PROVE  s[n] \in Int
<1> DEFINE Good == {m \in Nat : m <= n => s[m] \in Int}
<1>1. \A k \in 0 .. n : s[k] = IF k = 0 THEN 0 ELSE s[k - 1] + f[k - 1]
  BY DEF SumsOf
<1>2. 0 \in Good
  BY <1>1
<1>3. ASSUME NEW m \in Good PROVE m + 1 \in Good
  <2> SUFFICES ASSUME m + 1 <= n PROVE s[m + 1] \in Int
    OBVIOUS
  <2>1. m + 1 \in 0 .. n /\ m + 1 # 0 /\ (m + 1) - 1 = m /\ m \in 0 .. n - 1 /\ s[m] \in Int
    OBVIOUS
  <2>2. s[m + 1] = s[m] + f[m]
    BY <1>1, <2>1
  <2> QED BY <2>1, <2>2
<1> HIDE DEF Good
<1>4. Good = Nat
  BY <1>2, <1>3, Induction DEF Good
<1>5. n \in Good /\ n <= n
  BY <1>4
<1> QED BY <1>5 DEF Good

(* A power is an integer.                                                   *)
LEMMA PowTyped ==
  ASSUME NEW x \in Int, NEW n \in Nat
  PROVE  PowZ(x, n) \in Int
<1>0. Q \in Nat \ {0}
  BY QAssumption
<1> DEFINE Val(p, k) == IF k = 0 THEN 1
                        ELSE LET h == p[k \div 2]
                             IN  (((h * h) % Q) * IF k % 2 = 1 THEN x ELSE 1) % Q
           Good == {m \in Nat : \E p : p = [k \in 0 .. m |-> Val(p, k)]}
<1>1. \A k \in Nat : k # 0 => k \div 2 \in 0 .. k - 1
  OBVIOUS
<1>2. 0 \in Good
  <2> DEFINE p == [k \in 0 .. 0 |-> 1]
  <2>1. p = [k \in 0 .. 0 |-> Val(p, k)]
    OBVIOUS
  <2> HIDE DEF p, Val
  <2> QED BY <2>1
<1>3. ASSUME NEW m \in Good PROVE m + 1 \in Good
  <2>1. PICK p : p = [k \in 0 .. m |-> Val(p, k)]
    <3> HIDE DEF Val
    <3> QED OBVIOUS
  <2> DEFINE q == [k \in 0 .. m + 1 |-> IF k = m + 1 THEN Val(p, m + 1) ELSE p[k]]
  <2>2. \A k \in 0 .. m : q[k] = p[k] /\ p[k] = Val(p, k)
    <3> HIDE DEF Val
    <3>1. \A k \in 0 .. m : p[k] = Val(p, k)
      BY <2>1
    <3>2. \A k \in 0 .. m : k \in 0 .. m + 1 /\ k # m + 1
      OBVIOUS
    <3>3. \A k \in 0 .. m : q[k] = p[k]
      BY <3>2
    <3> QED BY <3>1, <3>3
  <2>3. q[m + 1] = Val(p, m + 1)
    <3> HIDE DEF Val
    <3> QED OBVIOUS
  <2>4. ASSUME NEW k \in 0 .. m + 1 PROVE q[k] = Val(q, k)
    <3>1. k = 0 \/ q[k \div 2] = p[k \div 2]
      <4>1. k # 0 => k \div 2 \in 0 .. m
        BY <1>1
      <4> HIDE DEF q, Val
      <4> QED BY <2>2, <4>1
    <3>2. Val(q, k) = Val(p, k)
      <4> HIDE DEF q
      <4> QED BY <3>1
    <3>3. k = m + 1 \/ k \in 0 .. m
      OBVIOUS
    <3> HIDE DEF q, Val
    <3> QED BY <2>2, <2>3, <3>2, <3>3
  <2>5. q = [k \in 0 .. m + 1 |-> q[k]]
    <3> HIDE DEF Val
    <3> QED OBVIOUS
  <2> HIDE DEF q, Val
  <2> QED BY <2>4, <2>5
<1> HIDE DEF Good
<1>4. Good = Nat
  BY <1>2, <1>3, Induction DEF Good
<1>5. n \in Good
  BY <1>4
<1> DEFINE Is(p) == p = [k \in 0 .. n |-> Val(p, k)]
           pw == CHOOSE p : Is(p)
<1>6. PowZ(x, n) = pw[n]
  BY DEF PowZ
<1>7. Is(pw)
  <2>1. \E p : Is(p)
    <3> HIDE DEF Val
    <3> QED BY <1>5 DEF Good
  <2> HIDE DEF Is
  <2> QED BY <2>1
<1> HIDE DEF pw
<1>8. \A k \in 0 .. n : pw[k] = Val(pw, k)
  <2> HIDE DEF Val
  <2> QED BY <1>7
<1>9. n \in 0 .. n /\ (n # 0 => n \div 2 \in 0 .. n)
  BY <1>1
<1> DEFINE T == {m \in Nat : \A k \in 0 .. m : k <= n => pw[k] \in Int}
<1>10. 0 \in T
  BY <1>8
<1>11. ASSUME NEW m \in T PROVE m + 1 \in T
  <2> SUFFICES ASSUME m + 1 <= n PROVE pw[m + 1] \in Int
    OBVIOUS
  <2>1. (m + 1) \div 2 \in 0 .. m /\ m + 1 # 0 /\ m + 1 \in 0 .. n /\ (m + 1) \div 2 <= n
    BY <1>1
  <2> DEFINE h == pw[(m + 1) \div 2]
  <2>2. h \in Int
    <3>1. \A k \in 0 .. m : k <= n => pw[k] \in Int
      OBVIOUS
    <3> QED BY <2>1, <3>1
  <2>3. pw[m + 1] = (((h * h) % Q) * IF (m + 1) % 2 = 1 THEN x ELSE 1) % Q
    BY <1>8, <2>1
  <2> HIDE DEF h
  <2>4. (h * h) % Q \in Int
    BY <1>0, <2>2
  <2>5. ((h * h) % Q) * (IF (m + 1) % 2 = 1 THEN x ELSE 1) \in Int
    BY <2>4
  <2>6. (((h * h) % Q) * (IF (m + 1) % 2 = 1 THEN x ELSE 1)) % Q \in Int
    BY <1>0, <2>5
  <2> QED BY <2>3, <2>6
<1> HIDE DEF T
<1>12. T = Nat
  BY <1>10, <1>11, Induction DEF T
<1>13. n \in T /\ n <= n
  BY <1>12
<1> QED BY <1>6, <1>9, <1>13 DEF T

(* The powers of the root of unity are integers.                            *)
LEMMA PsiTyped ==
  ASSUME NEW k \in Int
  PROVE  PsiTo(k) \in Int
<1>1. Deg \in Nat \ {0} /\ Psi \in Int
  BY DegAssumption, PsiAssumption, QAssumption DEF Zq
<1>2. k % (2 * Deg) \in 0 .. 2 * Deg - 1
  <2>1. 2 * Deg \in Nat \ {0}
    BY <1>1
  <2>2. \A d \in Nat \ {0} : k % d \in 0 .. d - 1
    OBVIOUS
  <2> QED BY <2>1, <2>2
<1>3. k % (2 * Deg) \in Nat
  BY <1>1, <1>2
<1>4. PowZ(Psi, k % (2 * Deg)) \in Int
  BY <1>1, <1>3, PowTyped
<1> QED BY <1>2, <1>4 DEF PsiTo, PsiPow

(* The inverse transform of a polynomial of residues is a polynomial.       *)
LEMMA InttTyped ==
  ASSUME NEW a \in Poly
  PROVE  Intt(a) \in Poly
<1>0. Q \in Nat \ {0} /\ Q > 2 /\ Deg \in Nat \ {0}
  BY QAssumption, DegAssumption
<1> DEFINE inv == InvZ(Deg % Q)
<1>1. inv \in Int
  <2>1. PICK y \in Zq : (Deg * y) % Q = 1
    BY PsiAssumption
  <2>2. y \in Int /\ Deg * y \in Int /\ Deg \in Int /\ Deg % Q \in Int /\ 1 % Q = 1
    BY <1>0, <2>1 DEF Zq
  <2>3. (Deg % Q) * y \in Int
    BY <2>2
  <2>4. Cong((Deg % Q) * y, Deg * y)
    BY <2>2, Residues, CongRules
  <2>5. Cong(Deg * y, (Deg * y) % Q) /\ Cong(((Deg % Q) * y) % Q, (Deg % Q) * y)
    <3>1. (Deg * y) % Q \in Int
      BY <1>0, <2>2
    <3> QED BY <2>2, <2>3, <3>1, Residues, CongRules
  <2>6. Cong((Deg % Q) * y, 1)
    BY <2>1, <2>2, <2>3, <2>4, <2>5, CongRules
  <2>7. ((Deg % Q) * y) % Q \in 0 .. Q - 1 /\ ((Deg % Q) * y) % Q \in Int
    BY <1>0, <2>3
  <2>8. Cong(((Deg % Q) * y) % Q, 1)
    BY <2>3, <2>5, <2>6, <2>7, CongRules
  <2>9. ((Deg % Q) * y) % Q = 1
    <3>1. 1 \in 0 .. Q - 1
      BY <1>0
    <3> QED BY <2>7, <2>8, <3>1, Residues
  <2>10. \E x \in Zq : ((Deg % Q) * x) % Q = 1 % Q
    BY <2>1, <2>2, <2>9
  <2>11. inv \in Zq
    BY <2>10 DEF InvZ
  <2> QED BY <1>0, <2>11 DEF Zq
<1> HIDE DEF inv
<1>2. ASSUME NEW i \in Idx
      PROVE  (inv * SumZ(Deg, LAMBDA j : a[j] * PsiTo(-(2 * j + 1) * i))) % Q \in Zq
  <2> DEFINE f == [j \in 0 .. Deg - 1 |-> a[j] * PsiTo(-(2 * j + 1) * i)]
             Is(s) == s = [k \in 0 .. Deg |->
                             IF k = 0 THEN 0
                             ELSE s[k - 1] + a[k - 1] * PsiTo(-(2 * (k - 1) + 1) * i)]
             s0 == CHOOSE s : Is(s)
  <2>1. f \in [0 .. Deg - 1 -> Int]
    <3> SUFFICES ASSUME NEW j \in 0 .. Deg - 1
                 PROVE  a[j] * PsiTo(-(2 * j + 1) * i) \in Int
      OBVIOUS
    <3>1. a[j] \in Int
      BY <1>0 DEF Poly, Zq, Idx
    <3>2. i \in Int
      BY <1>0 DEF Idx
    <3>3. -(2 * j + 1) * i \in Int
      BY <3>2
    <3> QED BY <3>1, <3>3, PsiTyped
  <2>2. \E s : SumsOf(s, f, Deg)
    <3> HIDE DEF f
    <3> QED BY <1>0, SumsOfExist
  <2>3. ASSUME NEW q
        PROVE  Is(q) <=> SumsOf(q, f, Deg)
    <3>1. \A k \in 0 .. Deg : k # 0 => k - 1 \in 0 .. Deg - 1
      BY <1>0
    <3>2. \A k \in 0 .. Deg : k # 0 => f[k - 1] = a[k - 1] * PsiTo(-(2 * (k - 1) + 1) * i)
      BY <3>1
    <3> HIDE DEF f
    <3>3. [k \in 0 .. Deg |-> IF k = 0 THEN 0
                              ELSE q[k - 1] + a[k - 1] * PsiTo(-(2 * (k - 1) + 1) * i)]
            = [k \in 0 .. Deg |-> IF k = 0 THEN 0 ELSE q[k - 1] + f[k - 1]]
      BY <3>2
    <3> QED BY <3>3 DEF SumsOf
  <2>4. SumZ(Deg, LAMBDA j : a[j] * PsiTo(-(2 * j + 1) * i)) = s0[Deg] % Q
    BY DEF SumZ
  <2>5. Is(s0)
    <3>1. \E q : Is(q)
      BY <2>2, <2>3
    <3> HIDE DEF Is
    <3> QED BY <3>1
  <2>6. SumsOf(s0, f, Deg)
    <3> HIDE DEF s0, f, Is
    <3> QED BY <2>3, <2>5
  <2>7. s0[Deg] \in Int
    <3> HIDE DEF s0, f
    <3> QED BY <1>0, <2>1, <2>6, SumsOfTyped
  <2> HIDE DEF s0
  <2>8. s0[Deg] % Q \in Int
    BY <1>0, <2>7
  <2>9. inv * (s0[Deg] % Q) \in Int
    BY <1>1, <2>8
  <2>10. (inv * (s0[Deg] % Q)) % Q \in 0 .. Q - 1
    BY <1>0, <2>9
  <2> QED BY <2>4, <2>10 DEF Zq
<1>3. Intt(a) = [i \in Idx |->
                   (inv * SumZ(Deg, LAMBDA j : a[j] * PsiTo(-(2 * j + 1) * i))) % Q]
  BY DEF Intt, inv
<1> QED BY <1>2, <1>3 DEF Poly

-----------------------------------------------------------------------------
(* One coefficient through decompose and recompose: what comes back is      *)
(* Horner's loop over the digits of a chain that starts from it.            *)
LEMMA CoefficientThrough ==
  ASSUME NEW v, NEW len \in Nat \ {0}, NEW b \in Nat, b > 2, NEW n \in Nat \ {0},
         NEW e \in 0 .. len - 1, NEW i \in Idx, v[e][i] \in Zq
  PROVE  LET unit == (Power(b, n) - 1) \div (b - 1)
             x    == Centered(v[e][i])
         IN  recompose(decompose(v, len, b, n), len, b, n)[e][i] = v[e][i]
               <=> -((b - 1) \div 2) * unit <= x /\ x <= (b \div 2) * unit
<1> DEFINE Chain(x) == CHOOSE c : ChainOf(c, x, b, n)
           w == decompose(v, len, b, n)
           d == [k \in 0 .. n - 1 |-> Chain(v[e][i])[k].digit]
           Is(g) == g = [k \in 0 .. n |->
                           IF k = n THEN 0 ELSE (g[k + 1] * b + w[k * len + e][i]) % Q]
           Back(p, c) == CHOOSE g : g = [k \in 0 .. n |->
                           IF k = n THEN 0 ELSE (g[k + 1] * b + w[k * len + p][c]) % Q]
           g0 == CHOOSE g : Is(g)
<1>1. w = [p \in 0 .. n * len - 1 |-> [c \in Idx |-> Chain(v[p % len][c])[p \div len].digit]]
  BY DEF decompose, ChainOf
<1>2. ChainOf(Chain(v[e][i]), v[e][i], b, n)
  BY ChainExists
<1> HIDE DEF Chain
<1>3. PICK r : Trace(r, d, b, n) /\ r[0] = v[e][i]
  <2>1. \A k \in 0 .. n - 1 : d[k] = Chain(v[e][i])[k].digit
    OBVIOUS
  <2>2. b >= 2 /\ v[e][i] \in Int
    BY QAssumption DEF Zq
  <2> HIDE DEF d
  <2> QED BY <1>2, <2>1, <2>2, ChainTrace
<1>4. recompose(w, len, b, n) = [p \in 0 .. len - 1 |-> [c \in Idx |-> Back(p, c)[0]]]
  BY DEF recompose
<1> HIDE DEF w
<1>5. recompose(w, len, b, n)[e][i] = g0[0]
  <2>1. g0 = Back(e, i)
    OBVIOUS
  <2> HIDE DEF g0, Back
  <2> QED BY <1>4, <2>1
<1>6. ASSUME NEW k \in 0 .. n - 1 PROVE w[k * len + e][i] = d[k]
  <2>1. k * len + e \in 0 .. n * len - 1
    <3>1. /\ n - (k + 1) \in Nat /\ (n - (k + 1)) * len \in Nat /\ k * len \in Nat
          /\ n * len = (n - (k + 1)) * len + k * len + len
      OBVIOUS
    <3> QED BY <3>1
  <2>2. (k * len + e) % len = e /\ (k * len + e) \div len = k
    <3>1. \A m \in Nat \ {0}, y \in Nat : \A x \in 0 .. m - 1 : (y * m + x) \div m = y
      OBVIOUS
    <3>2. \A m \in Nat \ {0}, y \in Nat : y % m = y - m * (y \div m)
      OBVIOUS
    <3>3. (k * len + e) \div len = k /\ k * len + e \in Nat
      BY <2>1, <3>1
    <3>4. (k * len + e) % len = (k * len + e) - len * k
      BY <3>2, <3>3
    <3>5. (k * len + e) - len * k = e
      OBVIOUS
    <3> QED BY <3>3, <3>4, <3>5
  <2> QED BY <1>1, <2>1, <2>2
<1>7. ASSUME NEW g PROVE Is(g) <=> HornerOf(g, d, b, n)
  <2>1. \A k \in 0 .. n : k # n => k \in 0 .. n - 1
    OBVIOUS
  <2> HIDE DEF d
  <2>2. [k \in 0 .. n |-> IF k = n THEN 0 ELSE (g[k + 1] * b + w[k * len + e][i]) % Q]
          = [k \in 0 .. n |-> IF k = n THEN 0 ELSE (g[k + 1] * b + d[k]) % Q]
    BY <1>6, <2>1
  <2> QED BY <2>2 DEF HornerOf
<1>8. Is(g0)
  <2>1. \E g : Is(g)
    <3> HIDE DEF Is, d
    <3> QED BY <1>7, HornerExists
  <2> HIDE DEF Is
  <2> QED BY <2>1
<1> HIDE DEF g0, d, Is
<1>9. HornerOf(g0, d, b, n)
  BY <1>7, <1>8
<1>10. recompose(decompose(v, len, b, n), len, b, n)[e][i] = g0[0]
  BY <1>5 DEF w
<1>11. LET unit == (Power(b, n) - 1) \div (b - 1)
           x    == IF r[0] > Q \div 2 THEN r[0] - Q ELSE r[0]
           fits == -((b - 1) \div 2) * unit <= x /\ x <= (b \div 2) * unit
       IN  b > 2 => (g0[0] = r[0] <=> fits)
  <2>1. b >= 2 /\ v[e][i] \in 0 .. Q - 1
    BY DEF Zq
  <2> QED BY <1>3, <1>9, <2>1, ElementGivenBack
<1> QED BY <1>3, <1>10, <1>11 DEF Centered

(* A vector over Rq comes back from two digits exactly when all its         *)
(* coefficients fit into them.                                              *)
TooLarge(v, b) ==
  \E k \in 0 .. N - 1, i \in Idx :
    LET x    == Centered(v[k][i])
        unit == b + 1
    IN  x < -((b - 1) \div 2) * unit \/ x > (b \div 2) * unit

(* Two balanced digits fail to give a vector back exactly if it is too large. *)
LEMMA TwoDigits ==
  ASSUME NEW v \in [0 .. N - 1 -> Poly], NEW b \in Nat, b > 2
  PROVE  recompose(decompose(v, N, b, 2), N, b, 2) # v <=> TooLarge(v, b)
<1>0. Q \in Nat /\ Q > 2 /\ N \in Nat \ {0} /\ b >= 2
  BY QAssumption, SizeAssumption
<1> DEFINE back == recompose(decompose(v, N, b, 2), N, b, 2)
<1>1. (Power(b, 2) - 1) \div (b - 1) = b + 1
  <2>1. Power(b, 2) = b * b
    <3>1. Power(b, 0 + 1) = b * 1 /\ Power(b, 1 + 1) = b * Power(b, 1)
      BY PowerUnrolls
    <3> QED BY <3>1
  <2>2. b * b - 1 = (b - 1) * (b + 1)
    OBVIOUS
  <2>3. \A c \in Nat \ {0}, y \in Nat : (c * y) \div c = y
    OBVIOUS
  <2>4. b - 1 \in Nat \ {0} /\ b + 1 \in Nat
    OBVIOUS
  <2> QED BY <2>1, <2>2, <2>3, <2>4
<1>2. ASSUME NEW k \in 0 .. N - 1, NEW i \in Idx
      PROVE  back[k][i] = v[k][i]
               <=> LET x == Centered(v[k][i]) IN
                   -((b - 1) \div 2) * (b + 1) <= x /\ x <= (b \div 2) * (b + 1)
  <2>1. v[k][i] \in Zq
    BY DEF Poly
  <2>2. 2 \in Nat \ {0}
    OBVIOUS
  <2>3. LET unit == (Power(b, 2) - 1) \div (b - 1)
            x    == Centered(v[k][i])
        IN  back[k][i] = v[k][i]
              <=> -((b - 1) \div 2) * unit <= x /\ x <= (b \div 2) * unit
    BY <1>0, <2>1, <2>2, CoefficientThrough
  <2> HIDE DEF back
  <2> QED BY <1>1, <2>3
<1>3. v \in [0 .. N - 1 -> Poly] /\ v = [k \in 0 .. N - 1 |-> [i \in Idx |-> v[k][i]]]
  BY DEF Poly
<1>4. back = [k \in 0 .. N - 1 |-> [i \in Idx |-> back[k][i]]]
  BY DEF recompose
<1> HIDE DEF back
<1>5. back = v <=> \A k \in 0 .. N - 1, i \in Idx : back[k][i] = v[k][i]
  <2>1. ASSUME \A k \in 0 .. N - 1, i \in Idx : back[k][i] = v[k][i] PROVE back = v
    BY <1>3, <1>4, <2>1
  <2> QED BY <2>1
<1>6. ASSUME NEW k \in 0 .. N - 1, NEW i \in Idx
      PROVE  LET x == Centered(v[k][i]) IN
             /\ x \in Int
             /\ -((b - 1) \div 2) * (b + 1) \in Int /\ (b \div 2) * (b + 1) \in Int
  <2>1. v[k][i] \in 0 .. Q - 1
    BY DEF Poly, Zq
  <2>2. (b - 1) \div 2 \in Nat /\ b \div 2 \in Nat
    OBVIOUS
  <2> QED BY <1>0, <2>1, <2>2 DEF Centered
<1>7. TooLarge(v, b) <=> \E k \in 0 .. N - 1, i \in Idx : back[k][i] # v[k][i]
  <2>1. ASSUME NEW k \in 0 .. N - 1, NEW i \in Idx
        PROVE  back[k][i] # v[k][i]
                 <=> LET x == Centered(v[k][i]) IN
                     x < -((b - 1) \div 2) * (b + 1) \/ x > (b \div 2) * (b + 1)
    BY <1>2, <1>6
  <2> QED BY <2>1 DEF TooLarge
<1> QED BY <1>5, <1>7 DEF back

(* The base and the round a fold works with.                                *)
LEMMA BaseTyped ==
  ASSUME NEW bound \in Nat, bound >= 9
  PROVE  calc_base0(bound) \in Nat /\ calc_base0(bound) > 2
<1> DEFINE Good == {k \in Nat : k * k > bound}
           P(k) == k * k <= bound /\ (k + 1) * (k + 1) > bound
           root == CHOOSE k \in 0 .. bound : P(k)
<1>1. bound + 1 \in Good
  <2>1. (bound + 1) * (bound + 1) = bound * bound + 2 * bound + 1 /\ bound * bound \in Nat
    OBVIOUS
  <2> QED BY <2>1
<1>2. PICK m \in Good : \A k \in Good : m <= k
  BY <1>1, Least
<1>3. m \in Nat \ {0}
  BY <1>2
<1>4. m - 1 \in Nat /\ ~(m - 1 \in Good)
  BY <1>2, <1>3
<1>5. (m - 1) * (m - 1) <= bound
  <2>1. (m - 1) * (m - 1) \in Nat
    BY <1>4
  <2> QED BY <1>4, <2>1
<1>6. m - 1 \in 0 .. bound
  <2>1. m <= bound + 1
    BY <1>1, <1>2
  <2> QED BY <1>4, <2>1
<1>7. P(m - 1)
  BY <1>2, <1>3, <1>5
<1>8. root \in 0 .. bound /\ P(root)
  BY <1>6, <1>7
<1>9. root > 2
  <2>1. root \in Nat /\ (root + 1) * (root + 1) > 9
    BY <1>8
  <2> HIDE DEF root
  <2>2. root # 0 /\ root # 1 /\ root # 2
    BY <2>1
  <2> QED BY <2>1, <2>2
<1> QED BY <1>8, <1>9 DEF calc_base0

Folding ==
  /\ inp \in Inputs /\ base0 \in Nat /\ base0 > 2
  /\ step # "witness" => (threw <=> recompose(decompose(z, N, base0, 2), N, base0, 2) # z)
  /\ step = "witness" => threw = FALSE

(* The invariant of the fold.                                               *)
LEMMA FoldingKept == FoldSpec => []Folding
<1>1. FoldInit => Folding
  <2> SUFFICES ASSUME FoldInit PROVE Folding
    OBVIOUS
  <2>1. PICK bound \in ZBounds : base0 = calc_base0(bound)
    BY DEF FoldInit
  <2>2. bound \in Nat /\ bound >= 9
    BY FoldAssumption
  <2>3. base0 \in Nat /\ base0 > 2
    BY <2>1, <2>2, BaseTyped
  <2> QED BY <2>3 DEF FoldInit, Folding
<1>2. Folding /\ [FoldNext]_fold_vars => Folding'
  <2> SUFFICES ASSUME Folding, [FoldNext]_fold_vars PROVE Folding'
    OBVIOUS
  <2>1. UNCHANGED <<inp, prm, base0>> /\ z' = z
    BY DEF FoldNext, PrepareWitness, ConstrainU1, ConstrainU2, ConstrainAz, ConstrainLinear,
           ConstrainFinal, ConstrainSquare, Add, fold_vars, z
  <2>2. CASE PrepareWitness
    BY <2>1, <2>2 DEF Folding, PrepareWitness
  <2>3. CASE ~PrepareWitness
    <3>1. UNCHANGED threw /\ (step' = "witness" <=> step = "witness")
      BY <2>3 DEF FoldNext, ConstrainU1, ConstrainU2, ConstrainAz, ConstrainLinear,
                  ConstrainFinal, ConstrainSquare, Add, fold_vars
    <3> QED BY <2>1, <3>1 DEF Folding
  <2> QED BY <2>2, <2>3
<1> QED BY <1>1, <1>2, PTL DEF FoldSpec

(* Folding throws exactly when a coefficient of z is beyond two digits,     *)
(* whatever the modulus, the ring, the base and z.                          *)
THEOREM ThrowsExactly == FoldSpec => []ThrowsExactlyWhenTooLarge
<1>1. Folding => ThrowsExactlyWhenTooLarge
  <2> SUFFICES ASSUME Folding, step # "witness" PROVE threw <=> TooLarge(z, base0)
    BY DEF ThrowsExactlyWhenTooLarge, TooLarge
  <2>1. inp.pf.z_hat \in [0 .. N - 1 -> Poly]
    BY FoldAssumption DEF Folding
  <2>2. z = [k \in 0 .. N - 1 |-> Intt(inp.pf.z_hat[k])]
    BY <2>1 DEF z, VecIntt
  <2>3. z \in [0 .. N - 1 -> Poly]
    BY <2>1, <2>2, InttTyped
  <2>4. threw <=> recompose(decompose(z, N, base0, 2), N, base0, 2) # z
    BY DEF Folding
  <2>5. base0 \in Nat /\ base0 > 2
    BY DEF Folding
  <2> HIDE DEF z
  <2> QED BY <2>3, <2>4, <2>5, TwoDigits
<1> QED BY <1>1, FoldingKept, PTL

-----------------------------------------------------------------------------
(* One base round.                                                          *)
(* The constraints aggregated from the constant-zero constraints, with the  *)
(* b of the messages.                                                       *)
Added ==
  [k \in DOMAIN psi |->
     [agg_round(inst.cz, psi[k], omega[k], J, R, N) EXCEPT !.b = msg.b_agg[k]]]

(* The constraint both sides should end with.                               *)
Combined == agg_equality_constraints(inst.eq \o Added, alpha, R, N)

(* What each side has aggregated at each step.  b_agg is known from the step *)
(* on at which the prover adds its constraints, and the verifier adds its    *)
(* own only when the proof arrives.                                          *)
InStep ==
  /\ DOMAIN msg = {"u1", "p", "b_agg", "u2"}
  /\ pc \in {"commit", "project", "aggconst"} => prover_eq = inst.eq
  /\ pc = "aggeq" => prover_eq = inst.eq \o Added
  /\ pc \in {"commith", "respond", "send", "partverify", "verify"} => prover_eq = Combined
  /\ pc \notin {"verify", "done"} => verifier_eq = inst.eq
  /\ pc = "verify" => verifier_eq = Combined

(* Before the messages are sent both instances are as they were built,      *)
LEMMA InStepInit == Init => InStep
<1> SUFFICES ASSUME Init PROVE InStep
  OBVIOUS
<1>1. pc = "commit" /\ prover_eq = inst.eq /\ verifier_eq = inst.eq
  BY DEF Init
<1>2. DOMAIN msg = {"u1", "p", "b_agg", "u2"}
  BY DEF Init
<1> QED BY <1>1, <1>2 DEF InStep

(* the prover's constraints carry the b it sends,                           *)
LEMMA AddedByProver ==
  ASSUME NEW ps, NEW om, AggregateConstZero(ps, om), DOMAIN msg = {"u1", "p", "b_agg", "u2"}
  PROVE  /\ pc = "aggconst" /\ pc' = "aggeq"
         /\ prover_eq' = inst.eq \o Added'
<1> DEFINE Part(k) == agg_round(inst.cz, ps[k], om[k], J, R, N)
           B0(k)   == NegP(Eval(Part(k), S_hat, G_hat, R, N))
           added   == [k \in DOMAIN ps |-> [Part(k) EXCEPT !.b = B0(k)]]
<1>1. /\ pc = "aggconst" /\ pc' = "aggeq" /\ psi' = ps /\ omega' = om
      /\ inst' = inst /\ J' = J
      /\ prover_eq' = inst.eq \o added
      /\ msg' = [msg EXCEPT !.b_agg = [k \in DOMAIN added |-> added[k].b]]
  BY DEF AggregateConstZero, Aggregated
<1>2. \A k : "b" \in DOMAIN Part(k)
  BY DEF agg_round
<1> HIDE DEF Part, B0
<1>3. \A k \in DOMAIN ps : added[k].b = B0(k)
  BY <1>2
<1>4. \A k \in DOMAIN ps : msg'.b_agg[k] = B0(k)
  BY <1>1, <1>3
<1>5. Added' = [k \in DOMAIN ps |-> [Part(k) EXCEPT !.b = msg'.b_agg[k]]]
  BY <1>1 DEF Added, Part
<1>6. Added' = added
  BY <1>4, <1>5
<1> QED BY <1>1, <1>6

(* and what was added stays while its ingredients do.                       *)
LEMMA AddedKept ==
  ASSUME inst' = inst, psi' = psi, omega' = omega, J' = J, msg'.b_agg = msg.b_agg
  PROVE  Added' = Added
BY DEF Added

LEMMA InStepNext == InStep /\ [Next]_vars => InStep'
<1> SUFFICES ASSUME InStep, [Next]_vars PROVE InStep'
  OBVIOUS
<1>0. DOMAIN msg = {"u1", "p", "b_agg", "u2"}
  BY DEF InStep
<1>1. CASE Commit
  <2>1. /\ pc = "commit" /\ pc' = "project"
        /\ inst' = inst /\ prover_eq' = prover_eq /\ verifier_eq' = verifier_eq
        /\ DOMAIN msg' = DOMAIN msg
    BY <1>1, <1>0 DEF Commit
  <2> QED BY <2>1 DEF InStep
<1>2. ASSUME NEW mat, NEW q, SendProjection(mat, q) PROVE InStep'
  <2>1. /\ pc = "project" /\ pc' = "aggconst"
        /\ inst' = inst /\ prover_eq' = prover_eq /\ verifier_eq' = verifier_eq
        /\ DOMAIN msg' = DOMAIN msg
    BY <1>2, <1>0 DEF SendProjection
  <2> QED BY <2>1 DEF InStep
<1>3. ASSUME NEW ps, NEW om, AggregateConstZero(ps, om) PROVE InStep'
  <2>1. /\ pc = "aggconst" /\ pc' = "aggeq" /\ prover_eq' = inst.eq \o Added'
    BY <1>0, <1>3, AddedByProver
  <2>2. /\ inst' = inst /\ verifier_eq' = verifier_eq
        /\ DOMAIN msg' = DOMAIN msg
    BY <1>3, <1>0 DEF AggregateConstZero
  <2> QED BY <2>1, <2>2 DEF InStep
<1>4. ASSUME NEW al, AggregateEquality(al) PROVE InStep'
  <2>1. /\ pc = "aggeq" /\ pc' = "commith"
        /\ prover_eq' = agg_equality_constraints(prover_eq, alpha', R, N)
        /\ inst' = inst /\ verifier_eq' = verifier_eq /\ msg' = msg
        /\ psi' = psi /\ omega' = omega /\ J' = J
    BY <1>4 DEF AggregateEquality
  <2>2. Added' = Added
    BY <2>1, AddedKept
  <2>3. prover_eq = inst.eq \o Added
    BY <2>1 DEF InStep
  <2>4. prover_eq' = Combined'
    BY <2>1, <2>2, <2>3 DEF Combined
  <2> QED BY <2>1, <2>4 DEF InStep
<1>5. ASSUME pc \in {"commith", "respond", "send"}, pc' \in {"respond", "send", "partverify"},
             UNCHANGED <<inst, J, psi, omega, alpha, prover_eq, verifier_eq>>,
             DOMAIN msg' = DOMAIN msg, msg'.b_agg = msg.b_agg
      PROVE  InStep'
  <2>1. Combined' = Combined
    BY <1>5, AddedKept DEF Combined
  <2> QED BY <1>5, <2>1 DEF InStep
<1>6. CASE CommitH
  <2>1. /\ pc = "commith" /\ pc' = "respond"
        /\ UNCHANGED <<inst, J, psi, omega, alpha, prover_eq, verifier_eq>>
        /\ DOMAIN msg' = DOMAIN msg /\ msg'.b_agg = msg.b_agg
    BY <1>6, <1>0 DEF CommitH
  <2> QED BY <1>5, <2>1
<1>7. ASSUME NEW ch, Respond(ch) PROVE InStep'
  BY <1>5, <1>7 DEF Respond
<1>8. CASE Deliver
  BY <1>5, <1>8 DEF Deliver
<1>9. ASSUME NEW alt, Alter(alt) PROVE InStep'
  BY <1>5, <1>9 DEF Alter
<1>10. ASSUME pc \in {"partverify", "verify"}, pc' = "done", msg' = msg PROVE InStep'
  BY <1>10 DEF InStep
<1>11. CASE PartVerify
  <2>1. UNCHANGED <<inst, J, psi, omega, alpha, msg, prover_eq>> /\ pc = "partverify"
    BY <1>11 DEF PartVerify
  <2>2. \/ pc' = "done"
        \/ /\ pc' = "verify"
           /\ verifier_eq' = agg_equality_constraints(verifier_eq \o Added, alpha, R, N)
    BY <1>11 DEF PartVerify, Stop, Added
  <2>3. verifier_eq = inst.eq /\ prover_eq = Combined
    BY <2>1 DEF InStep
  <2>4. Combined' = Combined
    BY <2>1, AddedKept DEF Combined
  <2>5. CASE pc' = "done"
    BY <1>10, <2>1, <2>5
  <2>6. CASE pc' = "verify" /\ verifier_eq' = Combined
    BY <1>0, <2>1, <2>3, <2>4, <2>6 DEF InStep
  <2> QED BY <2>2, <2>3, <2>5, <2>6 DEF Combined
<1>12. CASE VerifyBaseProof
  <2>1. pc = "verify" /\ pc' = "done" /\ msg' = msg
    BY <1>12 DEF VerifyBaseProof, Stop
  <2> QED BY <1>10, <2>1
<1>13. CASE UNCHANGED vars
  <2>1. UNCHANGED <<pc, inst, J, psi, omega, alpha, msg, prover_eq, verifier_eq>>
    BY <1>13 DEF vars
  <2>2. Combined' = Combined /\ Added' = Added
    BY <2>1, AddedKept DEF Combined
  <2> QED BY <2>1, <2>2 DEF InStep
<1> QED
  BY <1>1, <1>2, <1>3, <1>4, <1>6, <1>7, <1>8, <1>9, <1>11, <1>12, <1>13
  DEF Next, Project, ClaimProjection

(* For every instance, witness, projection and challenges, honest or not, the *)
(* constraint the verifier checks the proof against is the one the prover     *)
(* built it for, if the verifier gets that far: part_verify adds the same     *)
(* aggregated constraints as base_case_prover, in the same order and with the *)
(* same b, before both aggregate all of them with the same alpha.             *)
THEOREM AggregatedAlike == Spec => []SidesAggregateAlike
<1>1. Spec => []InStep
  BY InStepInit, InStepNext, PTL DEF Spec
<1>2. InStep => SidesAggregateAlike
  BY DEF InStep, SidesAggregateAlike
<1> QED BY <1>1, <1>2, PTL

=============================================================================
