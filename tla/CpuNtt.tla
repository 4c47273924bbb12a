------------------------------- MODULE CpuNtt -------------------------------
(***************************************************************************)
(* The transform of the CPU backend (ntt_cpu.h, ntt_task.h, ntt_data.h,    *)
(* cpu_ntt_domain.h), as operators: the domain of precomputed powers, the  *)
(* coset factors, and one sub-NTT of the hierarchy a transform is split    *)
(* into.  A transform of 2^(s0+s1+s2) elements has up to three layers of   *)
(* sub-NTTs of 2^s0, 2^s1 and 2^s2; between the layers nothing is moved,   *)
(* so a sub-NTT finds its elements through idx_in_mem and one last         *)
(* permutation puts them in order.                                         *)
(*                                                                         *)
(* The ring uses scalars of Zq, rows of a batch one after the other and    *)
(* sizes far below 2^26: columns_batch and the second hierarchy, which     *)
(* starts there, are left out, and so are the kernels for 16 and 32.       *)
(***************************************************************************)
EXTENDS PolyRing

CONSTANT Roots   \* primitive roots the domain may have been initialised with

LogDeg == CHOOSE k \in 0 .. Deg : 2 ^ k = Deg
Dirs   == {"kForward", "kInverse"}

\* max_size: the root is squared until it is one.
MaxSizes ==
  [root \in Roots |->
    2 ^ (CHOOSE k \in 1 .. Q : /\ PowZ(root, 2 ^ k) = 1
                               /\ \A j \in 1 .. k - 1 : PowZ(root, 2 ^ j) # 1)]
MaxSize(root) == MaxSizes[root]

\* The degree is a power of two, and so is the order of each root.
ASSUME RootAssumption ==
  /\ \E k \in 0 .. Deg : 2 ^ k = Deg
  /\ \A root \in Roots :
       root \in Zq \ {0, 1} /\ \E k \in 1 .. Q : PowZ(root, 2 ^ k) = 1

\* The powers of the root, with the 1 at the end that the inverse needs.
Twiddles == [root \in Roots |-> [i \in 0 .. MaxSize(root) |-> PowZ(root, i)]]

\* get_coset_stride: where the table has psi, 0 if it has not.
CosetStrides ==
  [root \in Roots |->
    IF \E k \in 1 .. MaxSize(root) : Twiddles[root][k] = Psi
    THEN CHOOSE k \in 1 .. MaxSize(root) : Twiddles[root][k] = Psi ELSE 0]

InvDeg == InvZ(Deg % Q)   \* inv_log_size(logn)
InvTwo == InvZ(2)         \* inv_log_size(1)
InvPsi == InvZ(Psi)

\* Entry i of the table forwards, counted from its end for the inverse.
Twiddle(root, dir, i) ==
  Twiddles[root][IF dir = "kForward" THEN i ELSE MaxSize(root) - i]

\* Mutant: the inverse forgets that its powers are counted from the end.
CosetFactorForward(root, dir, i) ==
  IF CosetStrides[root] # 0 THEN Twiddles[root][CosetStrides[root] * i]
  ELSE PowZ(IF dir = "kForward" THEN Psi ELSE InvPsi, i)

\* What coset_mul multiplies element i by: a table entry if the table has the
\* coset generator, otherwise a power computed for the purpose.
CosetFactor(root, dir, i) ==
  IF CosetStrides[root] # 0 THEN Twiddle(root, dir, CosetStrides[root] * i)
  ELSE PowZ(IF dir = "kForward" THEN Psi ELSE InvPsi, i)

coset_mul(root, dir, a) == [i \in Idx |-> (a[i] * CosetFactor(root, dir, i)) % Q]

bit_reverse(i, logn) ==
  LET r[j \in 0 .. logn] ==
        IF j = 0 THEN 0 ELSE 2 * r[j - 1] + ((i \div 2 ^ (j - 1)) % 2)
  IN  r[logn]

BitReversed(a, logn) == [i \in DOMAIN a |-> a[bit_reverse(i, logn)]]

-----------------------------------------------------------------------------
(* The transforms a sub-NTT is computed with; a is indexed from 0.         *)

\* Mutant: the last layer of butterflies counts its twiddles as the others do.
TwiddleStepOff(len, size, root) ==
  (IF len = size THEN 2 ELSE size \div len) * (MaxSize(root) \div size)

TwiddleStep(len, size, root) == (size \div len) * (MaxSize(root) \div size)

\* One pass of butterflies between elements len / 2 apart.
Butterflies(a, len, size, root, dir) ==
  LET half == len \div 2
      v(i) == (a[i] * Twiddle(root, dir, (i % half) * TwiddleStep(len, size, root))) % Q
  IN  [i \in 0 .. size - 1 |->
        IF i % len < half THEN (a[i] + v(i + half)) % Q
                          ELSE (a[i - half] + Neg(v(i))) % Q]

\* reorder_by_bit_reverse and hierarchy_0_dit_ntt.
hierarchy_0_dit_ntt(a, log, root, dir) ==
  LET pass[l \in 0 .. log] ==
        IF l = 0 THEN BitReversed(a, log)
        ELSE Butterflies(pass[l - 1], 2 ^ l, 2 ^ log, root, dir)
  IN  pass[log]

\* The three factors of the kernel for eight elements, from the eighth root w.
Winograd8(root, dir) ==
  LET w    == Twiddle(root, dir, MaxSize(root) \div 8)
      w2   == (w * w) % Q
      fwd  == Twiddle(root, "kForward", MaxSize(root) \div 8)
  IN  << w2, ((w + w2 * w) * InvTwo) % Q,
         ((fwd + Neg((fwd * fwd * fwd) % Q)) * InvTwo) % Q >>

ntt8win(a, root, dir) ==
  LET f       == Winograd8(root, dir)
      Plus(i)  == a[i] + a[i + 4]
      Minus(i) == a[i] - a[i + 4]
      e1 == Plus(0) + Plus(2)              o1 == Plus(1) + Plus(3)
      e2 == Plus(0) - Plus(2)              o2 == f[1] * (Plus(1) - Plus(3))
      e3 == Minus(0) + f[1] * Minus(2)     e4 == Minus(0) - f[1] * Minus(2)
      m1 == f[2] * (Minus(1) + Minus(3))   m2 == f[3] * (Minus(1) - Minus(3))
      out == << e1 + o1, e3 + m1 + m2, e2 + o2, e4 + m1 - m2,
                e1 - o1, e3 - m1 - m2, e2 - o2, e4 - m1 + m2 >>
  IN  [i \in 0 .. 7 |-> out[i + 1] % Q]

Transformed(a, log, root, dir) ==
  IF log = 3 THEN ntt8win(a, root, dir) ELSE hierarchy_0_dit_ntt(a, log, root, dir)

-----------------------------------------------------------------------------
(* Sub-NTT `subntt` of block `block` in layer `layer` of a transform whose *)
(* layers have the logarithms sub[1], sub[2], sub[3].                      *)

\* How many layers there are, and whether `layer` (from 0) is the last.
NofLayers(sub) == IF sub[3] # 0 THEN 3 ELSE IF sub[2] # 0 THEN 2 ELSE 1
LastLayer(sub, layer) == layer + 1 = NofLayers(sub)

NofBlocks(sub, layer)  == 2 ^ (IF layer = 2 THEN sub[1] + sub[2] ELSE sub[3])
NofSubntts(sub, layer) ==
  CASE layer = 0 -> 2 ^ sub[2] [] layer = 1 -> 2 ^ sub[1] [] layer = 2 -> 1

\* Mutant: the second layer strides through the array as the first does.
idx_in_mem_strided(sub, layer, block, subntt, e) ==
  IF layer = 2
  THEN (block % 2 ^ sub[1]) * 2 ^ (sub[2] + sub[3])
         + (block \div 2 ^ sub[1]) * 2 ^ sub[3] + e
  ELSE block + (subntt + e * 2 ^ sub[2]) * 2 ^ sub[3]

\* Where element e of the sub-NTT is.
idx_in_mem(sub, layer, block, subntt, e) ==
  CASE layer = 0 -> block + (subntt + e * 2 ^ sub[2]) * 2 ^ sub[3]
    [] layer = 1 -> block + (e + subntt * 2 ^ sub[2]) * 2 ^ sub[3]
    [] layer = 2 ->
         (block % 2 ^ sub[1]) * 2 ^ (sub[2] + sub[3])
           + (block \div 2 ^ sub[1]) * 2 ^ sub[3] + e

\* refactor_output_hierarchy_0: the factor of element e before the next layer.
Refactor(sub, layer, block, subntt, e, root, dir) ==
  LET i == IF layer = 0 THEN e ELSE e * 2 ^ sub[1] + subntt
      j == IF layer = 0 THEN subntt ELSE block
      n == 2 ^ (IF layer = 0 THEN sub[1] + sub[2] ELSE sub[1] + sub[2] + sub[3])
  IN  Twiddle(root, dir, (MaxSize(root) \div n) * j * i)

\* hierarchy_0_cpu_ntt on the values x of the sub-NTT's elements.  The last
\* layer of an inverse divides by the size.
Subntt(x, sub, layer, block, subntt, root, dir) ==
  LET y == Transformed(x, sub[layer + 1], root, dir)
      Factor(e) == IF ~LastLayer(sub, layer)
                     THEN Refactor(sub, layer, block, subntt, e, root, dir)
                   ELSE IF dir = "kInverse" THEN InvDeg ELSE 1
  IN  [e \in DOMAIN x |-> (y[e] * Factor(e)) % Q]

\* The whole transform as a single task.
WholeNtt(a, root, dir) ==
  LET y == Transformed(a, LogDeg, root, dir)
  IN  [i \in Idx |-> (y[i] * IF dir = "kInverse" THEN InvDeg ELSE 1) % Q]

\* reorder_and_refactor_if_needed: where element i belongs when all is done.
new_idx(sub, i) ==
  IF sub[3] # 0
  THEN i \div 2 ^ (sub[2] + sub[3])
         + ((i \div 2 ^ sub[3]) % 2 ^ sub[2]) * 2 ^ sub[1]
         + (i % 2 ^ sub[3]) * 2 ^ (sub[1] + sub[2])
  ELSE i \div 2 ^ sub[2] + (i % 2 ^ sub[2]) * 2 ^ sub[1]

Reordered(sub, a) == [n \in Idx |-> a[CHOOSE i \in Idx : new_idx(sub, i) = n]]
=============================================================================
