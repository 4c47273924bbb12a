------------------------------ MODULE Recursion ------------------------------
(***************************************************************************)
(* Folding a round into the next: prepare_recursion_witness lays the base  *)
(* proof out as the next witness s_prime, prepare_recursion_instance turns *)
(* the equations of _verify_base_proof into equality constraints about     *)
(* s_prime, in Steps 8 to 13.  Both sides of the protocol run the second,  *)
(* so an intermediate proof is never sent: whether it was right is decided *)
(* by the constraints alone.                                               *)
(***************************************************************************)
EXTENDS BaseProof, Layout

CONSTANTS
  Word,    \* 2^w for the w-bit unsigned integers of base0 (w = 32 in the code)
  ZBounds, \* values of op_norm_bound * beta * sqrt(r) to consider
  Mus, Nus,\* values of mu and nu to consider
  Inputs   \* rounds to fold: [pf, u1, u2, c, final]

ASSUME SizeAssumption ==
  /\ N \in Nat \ {0} /\ Mus \subseteq Nat \ {0} /\ Nus \subseteq Nat \ {0}
  /\ t_len \in Nat \ {0} /\ g_len \in Nat \ {0} /\ h_len \in Nat \ {0}

\* op_norm_bound is 15 and beta bounds the norm of an integer vector, so that z is
\* split in a base above 2.
ASSUME FoldAssumption ==
  /\ \A bound \in ZBounds : bound \in Nat /\ bound >= 9
  /\ \A in \in Inputs : in.pf.z_hat \in [0 .. N - 1 -> Poly]

VARIABLES
  step,        \* the next step, "done" at the end
  inp,         \* the round being folded
  prm, base0,  \* the layout, and the base that splits z into two digits
  s_prime,     \* the next witness
  constraints, \* equality constraints of the next instance
  threw        \* prepare_recursion_witness threw a Parameter Choice Error

fold_vars == <<step, inp, prm, base0, s_prime, constraints, threw>>

Cell == 0 .. r_prime(prm) * n_prime(prm) - 1
z == VecIntt(inp.pf.z_hat)

\* The truncated square root.
calc_base0(bound) == CHOOSE b \in 0 .. bound : b * b <= bound /\ (b + 1) * (b + 1) > bound

FoldInit ==
  /\ step = "witness"
  /\ inp \in Inputs
  /\ \E mu \in Mus, nu \in Nus :
       prm = [prev_n |-> N, t_len |-> t_len, g_len |-> g_len, h_len |-> h_len,
              mu |-> mu, nu |-> nu]
  /\ \E bound \in ZBounds : base0 = calc_base0(bound)
  /\ s_prime = <<>> /\ constraints = <<>> /\ threw = FALSE

\* prepare_recursion_witness: two digits of z must give z back.
PrepareWitness ==
  LET z_tilde == decompose(z, N, base0, 2)
      zeros   == [cell \in Cell |-> ZeroPoly]
      with_z0 == copy_like(prm, "z0", zeros, z_tilde)
      with_z1 == copy_like(prm, "z1", with_z0, [k \in 0 .. N - 1 |-> z_tilde[N + k]])
      with_t  == copy_like(prm, "t", with_z1, inp.pf.t)
      with_g  == copy_like(prm, "g", with_t, inp.pf.g)
  IN  /\ step = "witness"
      /\ \/ /\ recompose(z_tilde, N, base0, 2) = z
            /\ s_prime' = copy_like(prm, "h", with_g, inp.pf.h)
            /\ step' = "8" /\ UNCHANGED threw
         \/ /\ recompose(z_tilde, N, base0, 2) # z
            /\ threw' = TRUE /\ step' = "done" /\ UNCHANGED s_prime
      /\ UNCHANGED <<inp, prm, base0, constraints>>

-----------------------------------------------------------------------------
ZeroPhi == [cell \in Cell |-> ZeroPoly]
ZeroA   == [e \in 0 .. r_prime(prm) * r_prime(prm) - 1 |-> ZeroPoly]
At(reg, v, phi) == copy_like(prm, reg, phi, v)

\* v, base v, base^2 v, ...: what pairs with the digits of a vector to give its
\* product with v.
Powers(v, len, base, digits) ==
  [k \in 0 .. digits * len - 1 |-> ScaleP(PowZ(base % Q, k \div len), v[k % len])]

\* v against z0, base0 v against z1.
AgainstZ(v) == At("z0", v, At("z1", [k \in 0 .. N - 1 |-> ScaleP(base0 % Q, v[k])], ZeroPhi))

Column(mat, rows, cols, i) == [k \in 0 .. rows - 1 |-> mat[k * cols + i]]

Add(new, next) ==
  /\ constraints' = constraints \o new
  /\ step' = next
  /\ UNCHANGED <<inp, prm, base0, s_prime, threw>>

\* Step 8: B t + C g - u1 = 0, one constraint per entry of u1.
ConstrainU1 ==
  /\ step = "8"
  /\ Add([i \in 1 .. Kappa1 |->
            [a |-> ZeroA,
             phi |-> At("g", Column(C, g_len, Kappa1, i - 1),
                        At("t", Column(B, t_len, Kappa1, i - 1), ZeroPhi)),
             b |-> NegP(inp.u1[i - 1])]], "9")

\* Step 9: D h - u2 = 0.
ConstrainU2 ==
  /\ step = "9"
  /\ Add([i \in 1 .. Kappa2 |->
            [a |-> ZeroA, phi |-> At("h", Column(D, h_len, Kappa2, i - 1), ZeroPhi),
             b |-> NegP(inp.u2[i - 1])]], "10")

\* Step 10: A z - sum_j c_j t_j = 0.
ConstrainAz ==
  /\ step = "10"
  /\ Add([i \in 1 .. Kappa |->
            LET temp == [e \in 0 .. R * Kappa - 1 |->
                           IF e % Kappa = i - 1 THEN NegP(inp.c[e \div Kappa]) ELSE ZeroPoly]
            IN  [a |-> ZeroA,
                 phi |-> At("t", Powers(temp, R * Kappa, Base1, l1),
                            AgainstZ(Column(A, N, Kappa, i - 1))),
                 b |-> ZeroPoly]], "11")

\* Mutant: the off-diagonal entries are counted once.
NegSquaresOnce ==
  [p \in 0 .. PackedLen(R) - 1 |->
     LET once == [e \in 0 .. R * R - 1 |-> MulT(inp.c[e \div R], inp.c[e % R])]
     IN  NegP(extract_symm_part(once, R)[p])]

\* c c^t with the off-diagonal entries doubled, packed and negated.
NegSquares ==
  [p \in 0 .. PackedLen(R) - 1 |->
     LET both == [e \in 0 .. R * R - 1 |->
                    ScaleP(IF e \div R = e % R THEN 1 ELSE 2,
                           MulT(inp.c[e \div R], inp.c[e % R]))]
     IN  NegP(extract_symm_part(both, R)[p])]

\* Step 11: c^t Phi z - c^t H c = 0.
ConstrainLinear ==
  /\ step = "11"
  /\ Add(<<[a |-> ZeroA,
            phi |-> At("h", Powers(NegSquares, PackedLen(R), Base3, l3),
                       AgainstZ(matmul(inp.c, 1, R, inp.final.phi, N))),
            b |-> ZeroPoly]>>, "12")

\* Step 12: sum_ij a_ij G_ij + sum_i h_ii + b = 0.
ConstrainFinal ==
  LET M == [e \in 0 .. R * R - 1 |->
              LET both == AddP(inp.final.a[e], transpose(inp.final.a, R, R)[e])
              IN  IF e \div R = e % R THEN ScaleP(InvZ(2), both) ELSE both]
      symm_I == [p \in 0 .. PackedLen(R) - 1 |->
                   IF \E i \in 0 .. R - 1 : p = RowStart(i, R) THEN ConstT(1) ELSE ZeroPoly]
  IN  /\ step = "12"
      /\ Add(<<[a |-> ZeroA,
                phi |-> At("h", Powers(symm_I, PackedLen(R), Base3, l3),
                           At("g", Powers(extract_symm_part(M, R), PackedLen(R), Base2, l2),
                              ZeroPhi)),
                b |-> inp.final.b]>>, "13")

\* Step 13: <z, z> - c^t G c = 0, the only quadratic constraint.  base0 * base0
\* is computed in w-bit unsigned arithmetic before it becomes a scalar.
ConstrainSquare ==
  LET w == r_prime(prm)
      nu == prm.nu
      square == ConstT(((base0 * base0) % Word) % Q)
      Entry(i, j) ==
        IF i >= 2 * nu \/ j >= 2 * nu \/ i % nu # j % nu THEN ZeroPoly
        ELSE IF i # j THEN ConstT(base0 % Q)
        ELSE IF i < nu THEN ConstT(1) ELSE square
  IN  /\ step = "13"
      /\ Add(<<[a |-> [e \in 0 .. w * w - 1 |-> Entry(e \div w, e % w)],
                phi |-> At("g", Powers(NegSquares, PackedLen(R), Base2, l2), ZeroPhi),
                b |-> ZeroPoly]>>, "done")

FoldNext == PrepareWitness \/ ConstrainU1 \/ ConstrainU2 \/ ConstrainAz
          \/ ConstrainLinear \/ ConstrainFinal \/ ConstrainSquare

FoldSpec == FoldInit /\ [][FoldNext]_fold_vars
-----------------------------------------------------------------------------
\* What the k-th constraint stands for.
EquationOf(k) ==
  LET pf == inp.pf
      az == Kappa1 + Kappa2
  IN  CASE k <= Kappa1 -> Opens_u1(pf, inp.u1, k - 1)
        [] k > Kappa1 /\ k <= az -> Opens_u2(pf, inp.u2, k - Kappa1 - 1)
        [] k > az /\ k <= az + Kappa -> OpensAmortised(pf, inp.c, k - az - 1)
        [] k = az + Kappa + 1 -> LinearParts(pf, inp.c, inp.final)
        [] k = az + Kappa + 2 -> FinalConstraint(pf, inp.final)
        [] k = az + Kappa + 3 -> InnerProducts(pf, inp.c)

Holds(k) == witness_legit_eq(constraints[k], VecNtt(s_prime), r_prime(prm), n_prime(prm))

\* Folding loses nothing and adds nothing: whatever the proof, right or wrong in
\* any of its parts, the next witness satisfies a constraint exactly when
\* _verify_base_proof would have accepted the equation it replaces, and every
\* equation has its constraint.
FoldExact ==
  step = "done" =>
    /\ \A k \in DOMAIN constraints : Holds(k) <=> EquationOf(k)
    /\ ~threw => ((\A k \in DOMAIN constraints : Holds(k))
                    <=> Equations(inp.pf, inp.u1, inp.u2, inp.c, inp.final))

\* The exception is thrown exactly when a coefficient of z lies outside what two
\* balanced digits in base0 can express.
ThrowsExactlyWhenTooLarge ==
  step # "witness" =>
    (threw <=> \E k \in 0 .. N - 1, i \in Idx :
                 LET x == Centered(z[k][i])
                     unit == base0 + 1
                 IN  x < -((base0 - 1) \div 2) * unit \/ x > (base0 \div 2) * unit)

\* No piece of the next witness is copied outside it or over another's rows: the
\* first two theorems of RoundProofs, for the layouts of these runs.
LaidOut == InBounds(prm) /\ RowsApart(prm)
=============================================================================
