---------------------------- MODULE MC_Recursion ----------------------------
(* Rounds to fold over Z_17[X]/(X^2 + 1): right ones for two witnesses and   *)
(* two challenges, and each of them with one part altered.                  *)
EXTENDS Recursion

P(x, y) == [c \in 0 .. 1 |-> IF c = 0 THEN x % 17 ELSE y % 17]
Matrix(len, s) == [e \in 0 .. len - 1 |-> P(1 + ((7 * e + s) % 16), 1 + ((5 * e + 3 * s) % 16))]
MCA == Matrix(4, 1)
MCB == Matrix(12, 2)
MCC == Matrix(9, 3)
MCD == Matrix(9, 4)

Witnesses == {[e \in 0 .. 3 |-> P(e % 2, (e + 16) % 3)],
              [e \in 0 .. 3 |-> IF e = 0 THEN P(2, 16) ELSE P(0, e)]}
Challenges == {[i \in 0 .. 1 |-> Ntt(IF i = 0 THEN P(1, 0) ELSE P(0, 16))],
               [i \in 0 .. 1 |-> Ntt(IF i = 0 THEN P(1, 1) ELSE P(2, 16))]}
FinalA   == [e \in 0 .. 3 |-> P(3 * e + 1, e * e + 2)]
FinalPhi == [e \in 0 .. 3 |-> P(5 * e + 2, 1 + e)]

\* A round done right for the witness S.
Right(S, c) ==
  LET S_hat == VecNtt(S)
      T == VecIntt(ajtai_commitment(A, N, Kappa, S_hat, R))
      G == Gram(S_hat, R, N)
      PhiSt == matmul(FinalPhi, R, N, transpose(S_hat, R, N), R)
      H == [e \in 0 .. R * R - 1 |-> ScaleP(InvZ(2), AddP(PhiSt[e], transpose(PhiSt, R, R)[e]))]
      t == decompose(T, R * Kappa, Base1, l1)
      g == decompose(VecIntt(extract_symm_part(G, R)), PackedLen(R), Base2, l2)
      h == decompose(VecIntt(extract_symm_part(H, R)), PackedLen(R), Base3, l3)
  IN  [pf |-> [z_hat |-> matmul(c, 1, R, S_hat, N), t |-> t, g |-> g, h |-> h],
       u1 |-> CommitU1(t, g), u2 |-> CommitU2(h), c |-> c,
       final |-> [a |-> FinalA, phi |-> FinalPhi,
                  b |-> NegP(AddP(DotT(R * R, FinalA, G), compute_matrix_trace(H, R)))]]

Off(in) ==
  {in, [in EXCEPT !.u1[0] = AddP(@, P(1, 0))], [in EXCEPT !.u2[0] = AddP(@, P(0, 1))],
   [in EXCEPT !.final.b = AddP(@, P(0, 2))]}
    \cup {[in EXCEPT !.pf.z_hat[k] = AddP(@, P(1, 2))] : k \in 0 .. N - 1}
    \cup {[in EXCEPT !.pf.t[k] = AddP(@, P(1, 0))] : k \in {0, 1, 8}}
    \cup {[in EXCEPT !.pf.g[k] = AddP(@, P(1, 0))] : k \in {1, 6}}
    \cup {[in EXCEPT !.pf.h[k] = AddP(@, P(0, 1))] : k \in {0, 5}}
MCInputs == UNION {Off(Right(S, c)) : S \in Witnesses, c \in Challenges}
=============================================================================
