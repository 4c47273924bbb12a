------------------------------ MODULE BaseProof ------------------------------
(***************************************************************************)
(* LabradorParam and LabradorBaseCaseProof: the sizes of a round, and the  *)
(* equations _verify_base_proof asks of a proof pf = [z_hat, t, g, h].  A  *)
(* round is folded by turning the same equations into the constraints of   *)
(* the next one (module Recursion).                                        *)
(***************************************************************************)
EXTENDS Instance

CONSTANTS
  R, N,                  \* witness vectors, and their length
  Kappa, Kappa1, Kappa2, \* commitment ranks
  Base1, Base2, Base3,   \* decomposition bases of t, g and h
  A, B, C, D             \* Ajtai matrices

l1 == compute_nof_digits(Base1)
l2 == compute_nof_digits(Base2)
l3 == compute_nof_digits(Base3)
t_len == l1 * R * Kappa
g_len == l2 * PackedLen(R)
h_len == l3 * PackedLen(R)

AddVec(x, y, len) == [k \in 0 .. len - 1 |-> AddP(x[k], y[k])]

\* u1 = B t + C g and u2 = D h, what the prover commits to and the verifier
\* computes again from the proof.
CommitU1(t, g) ==
  AddVec(ajtai_commitment(B, t_len, Kappa1, VecNtt(t), 1),
         ajtai_commitment(C, g_len, Kappa1, VecNtt(g), 1), Kappa1)
CommitU2(h) == ajtai_commitment(D, h_len, Kappa2, VecNtt(h), 1)

\* t, G and H as the verifier recomposes them.
t_hat(pf) == VecNtt(recompose(pf.t, R * Kappa, Base1, l1))
G_of(pf)  == VecNtt(reconstruct_symm_matrix(recompose(pf.g, PackedLen(R), Base2, l2), R))
H_of(pf)  == VecNtt(reconstruct_symm_matrix(recompose(pf.h, PackedLen(R), Base3, l3), R))

\* c^t M c for an R x R matrix M.
Quadratic(c, M) == matmul(c, 1, R, matmul(M, R, R, c, 1), 1)[0]

\* 3. t and g open entry i of u1, h opens entry i of u2.
Opens_u1(pf, u1, i) == CommitU1(pf.t, pf.g)[i] = u1[i]
Opens_u2(pf, u2, i) == CommitU2(pf.h)[i] = u2[i]

\* 4. A z = sum_i c_i t_i, entry i.
OpensAmortised(pf, c, i) ==
  ajtai_commitment(A, N, Kappa, pf.z_hat, 1)[i] = matmul(c, 1, R, t_hat(pf), Kappa)[i]

\* 5. <z, z> = c^t G c.
InnerProducts(pf, c) == DotT(N, pf.z_hat, pf.z_hat) = Quadratic(c, G_of(pf))

\* 6. c^t Phi z = c^t H c.
LinearParts(pf, c, final) ==
  matmul(c, 1, R, matmul(final.phi, R, N, pf.z_hat, 1), 1)[0] = Quadratic(c, H_of(pf))

\* 7. sum_ij a_ij G_ij + sum_i h_ii + b = 0.
FinalConstraint(pf, final) ==
  AddP(AddP(DotT(R * R, final.a, G_of(pf)), compute_matrix_trace(H_of(pf), R)), final.b)
    = ZeroPoly

\* Mutant: the final constraint is not checked.
EquationsWithoutFinal(pf, u1, u2, c, final) ==
  /\ \A i \in 0 .. Kappa1 - 1 : Opens_u1(pf, u1, i)
  /\ \A i \in 0 .. Kappa2 - 1 : Opens_u2(pf, u2, i)
  /\ \A i \in 0 .. Kappa - 1 : OpensAmortised(pf, c, i)
  /\ InnerProducts(pf, c)
  /\ LinearParts(pf, c, final)
\* Mutant: each check overwrites the result of the one before.
EquationsLastOnly(pf, u1, u2, c, final) == FinalConstraint(pf, final)

Equations(pf, u1, u2, c, final) ==
  /\ \A i \in 0 .. Kappa1 - 1 : Opens_u1(pf, u1, i)
  /\ \A i \in 0 .. Kappa2 - 1 : Opens_u2(pf, u2, i)
  /\ \A i \in 0 .. Kappa - 1 : OpensAmortised(pf, c, i)
  /\ InnerProducts(pf, c)
  /\ LinearParts(pf, c, final)
  /\ FinalConstraint(pf, final)
=============================================================================
